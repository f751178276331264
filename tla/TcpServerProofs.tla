---------------------------- MODULE TcpServerProofs ----------------------------
(****************************************************************************)
(* Proofs about TcpServer for any number of I/O loops, connections and      *)
(* sends, whatever Poller does (Mapped, Modifies).  ServerInv says in which *)
(* order a connection leaves Connections, the epoll set and the queues, and *)
(* that a thread about to send keeps it from starting; most steps are Quiet *)
(* and keep it for one reason.  OrderInv adds what the texts that went out  *)
(* have to do with those that are queued.                                   *)
(****************************************************************************)
EXTENDS TcpServer, SequenceTheorems, FiniteSetTheorems, TLAPS

\* A functor that runs connectDestroyed, or removeConnectionInLoop, on c waits.
Destroying(c) ==
    \E l \in Loops : \E i \in 1..Len(queue[l]) :
        queue[l][i].do = "connectDestroyed" /\ queue[l][i].conn = c

Removing(c) == \E i \in 1..Len(queue[Base]) : queue[Base][i].conn = c

\* Loop l is inside handleClose of c.
Erasing(c) == \E l \in Loops : step[l] = "erase" /\ current[l] = c

\* A loop handles the connections of its own that are in the epoll set; a hang-up
\* was reported of a connection that did hang up.
Owns(l) ==
    /\ step[l] \in {"poll", "dispatch"} => current[l] = None
    /\ step[l] = "poll" => active[l] = {}
    /\ step[l] \in {"push", "erase", "write"} =>
          current[l] \in registered /\ loopOf[current[l]] = l
    /\ step[l] = "erase" => state[current[l]] = "kDisconnected"
    /\ \A c \in active[l] : /\ c \in registered /\ loopOf[c] = l
                            /\ "HUP" \in events[c] => HungUp(c) /\ closes[c] < MaxCloses

LoopsOwn == \A l \in Loops : Owns(l)

\* A connection that was closed is deaf, once and for all.
Deaf(c) ==
    /\ "IN" \in events[c] => closes[c] = 0
    /\ process = "running" /\ "IN" \in interest[c] => closes[c] = 0

ClosedAreDeaf == \A c \in Conns : Deaf(c)

\* What the state says of the peer, of Connections and of the epoll set.
Stage(c) ==
    /\ state[c] = "none" <=> peer[c] = "none"
    /\ state[c] = "none" => c \notin Connections
    /\ state[c] # "none" => loopOf[c] \in Loops
    /\ c \in registered => state[c] \in {"kConnected", "kDisconnected"}
    /\ state[c] # "kDisconnected" => closes[c] = 0 /\ ~ shut[c]
    /\ state[c] \in {"kConnecting", "kConnected"} => c \in Connections
    /\ state[c] = "kConnected" => c \in registered
    /\ state[c] = "kDisconnected" => peer[c] \in {"closed", "reset"}

Stages == \A c \in Conns : Stage(c)

\* A connection in the epoll set whose removal has not been queued.
Ready(c) == c \in registered /\ ~ Removing(c) /\ ~ Destroying(c)

\* The way out: nothing is removed that was not closed, and what has left
\* Connections leaves the epoll set next.
Leaving(c) ==
    /\ closes[c] = 0 => ~ Removing(c) /\ ~ Destroying(c) /\ ~ Erasing(c)
    /\ c \in registered => c \in Connections \/ Destroying(c)

LeaveInTurn == \A c \in Conns : Leaving(c)

\* Connections are numbered as they come.
Numbered == \E n \in 0..MaxConns : \A c \in Conns : state[c] # "none" <=> c <= n

\* What waits in a queue is meant for that loop, and comes in its turn.
BaseOrdered ==
    \A i \in 1..Len(queue[Base]) :
        /\ queue[Base][i].do = "removeConnectionInLoop"
        /\ state[queue[Base][i].conn] = "kDisconnected"

\* A functor that waits in the queue of l is the business of l, and its time has
\* come.
Due(l, f) ==
    /\ f.do # "removeConnectionInLoop" /\ loopOf[f.conn] = l
    /\ f.do = "connectEstablished" => state[f.conn] = "kConnecting"
    /\ f.do = "sendInLoop" => f.conn \in registered
    /\ f.do = "connectDestroyed" => state[f.conn] = "kDisconnected"

\* A connection is established once, and destroyed after what was sent to it.
InTurn(l) ==
    \A i, j \in 1..Len(queue[l]) :
        queue[l][i].conn = queue[l][j].conn =>
            /\ queue[l][i].do = "connectEstablished" /\ queue[l][j].do = "connectEstablished" => i = j
            /\ queue[l][i].do = "connectDestroyed" /\ queue[l][j].do = "sendInLoop" => j < i

\* Both hold in every queue.
QueuesOrdered ==
    /\ BaseOrdered
    /\ \A l \in Loops : InTurn(l) /\ \A i \in 1..Len(queue[l]) : Due(l, queue[l][i])

\* Who is about to send holds ConnMutex, which keeps the removal of the connection
\* from being queued.
Locks(t) ==
    /\ step[t] = "push" <=> target[t] # None
    /\ target[t] # None => /\ ConnMutex = t /\ Ready(target[t])
                           /\ t \in Loops => loopOf[target[t]] # t

\* A text is left for the thread that holds ConnMutex.
Spared == ConnMutex # None => sends < MaxSends

SendersLock ==
    Spared /\ step[Observer] \in {"poll", "push"} /\ \A t \in Senders : Locks(t)

\* No two functors that take c off a map wait in one queue.
OneFunctor(c) ==
    /\ \A i, j \in 1..Len(queue[Base]) :
          queue[Base][i].conn = c /\ queue[Base][j].conn = c => i = j
    /\ \A l \in Loops : \A i, j \in 1..Len(queue[l]) :
          /\ queue[l][i].do = "connectDestroyed" /\ queue[l][j].do = "connectDestroyed"
          /\ queue[l][i].conn = c /\ queue[l][j].conn = c
          => i = j

\* A connection that was closed once is removed once.
Once(c) ==
    closes[c] <= 1 =>
        /\ Erasing(c) => ~ Removing(c) /\ ~ Destroying(c)
        /\ Removing(c) => ~ Destroying(c) /\ c \in registered
        /\ Destroying(c) => c \in registered
        /\ OneFunctor(c)

RemovedOnce == \A c \in Conns : Once(c)

\* What waits to be read was asked.
Counted == \A c \in Conns : requests[c] <= asked

\* The type invariant, with that count.
Typed == TypeOK /\ Counted

\* The invariant of the server.
ServerInv ==
    /\ Typed /\ LoopsOwn /\ ClosedAreDeaf /\ Stages /\ LeaveInTurn /\ Numbered
    /\ QueuesOrdered /\ SendersLock /\ RemovedOnce /\ CloseOnce

-----------------------------------------------------------------------------
(* Types.                                                                   *)

Masks == SUBSET {"IN", "OUT", "ERR", "HUP"}

\* The type invariant in six parts, by who changes them: the masks,
ChannelsTyped ==
    /\ process \in {"running", "exit", "SIGPIPE", "terminate"}
    /\ events \in [Conns -> Masks]
    /\ registered \in SUBSET Conns
    /\ interest \in [Conns -> Masks]

\* what goes out,
OutputTyped ==
    /\ OutputBuffer \in [Conns -> Seq(Parts)]
    /\ error \in [Conns -> BOOLEAN] /\ shut \in [Conns -> BOOLEAN]
    /\ sndbuf \in [Conns -> 0..Capacity]
    /\ wire \in [Conns -> Seq(Parts)]

\* the loops,
LoopsTyped ==
    /\ queue \in [Loops \cup {Base} -> Seq(Functors)]
    /\ step \in [Senders -> {"poll", "dispatch", "push", "erase", "write"}]
    /\ active \in [Loops -> SUBSET Conns]
    /\ current \in [Loops -> Conns \cup {None}]

\* ChatService's map and mutex,
ChatTyped ==
    /\ target \in [Senders -> Conns \cup {None}]
    /\ UserConnMap \in [Users -> Conns \cup {None}]
    /\ ConnMutex \in Senders \cup {None}

\* the peers,
PeersTyped ==
    /\ peer \in [Conns -> {"none", "open", "closed", "reset"}]
    /\ requests \in [Conns -> 0..MaxRequests]
    /\ asked \in 0..MaxRequests /\ sends \in 0..MaxSends
    /\ Counted

\* and what the server knows of its connections.
ServerTyped ==
    /\ Connections \in SUBSET Conns
    /\ NextLoop \in 0..Len(IoLoops) - 1
    /\ loopOf \in [Conns -> Loops \cup {None}]
    /\ state \in [Conns -> {"none", "kConnecting", "kConnected", "kDisconnected"}]
    /\ closes \in [Conns -> 0..MaxCloses]

\* The parts are the whole, before a step and after it.
LEMMA TypesSplit ==
    Typed <=> /\ ChannelsTyped /\ OutputTyped /\ LoopsTyped /\ ChatTyped /\ PeersTyped
               /\ ServerTyped
BY DEF Typed, TypeOK, ChannelsTyped, OutputTyped, LoopsTyped, ChatTyped, PeersTyped, ServerTyped, Masks

LEMMA TypesSplitNext ==
    Typed' <=> /\ ChannelsTyped' /\ OutputTyped' /\ LoopsTyped' /\ ChatTyped' /\ PeersTyped'
                /\ ServerTyped'
BY DEF Typed, TypeOK, ChannelsTyped, OutputTyped, LoopsTyped, ChatTyped, PeersTyped, ServerTyped, Masks

\* The threads are all different.
LEMMA Names ==
    /\ Base \notin Loops /\ Observer \notin Loops /\ None \notin Loops
    /\ Base # None /\ Observer # None /\ Base # Observer
    /\ Loops \subseteq Senders /\ Observer \in Senders /\ None \notin Senders
BY ServerAssumption DEF Senders, Loops

\* One more functor in a queue.
LEMMA QueueAppend ==
    ASSUME queue \in [Loops \cup {Base} -> Seq(Functors)],
           NEW l \in Loops \cup {Base}, NEW f \in Functors, Queued(l, f)
    PROVE  /\ queue' \in [Loops \cup {Base} -> Seq(Functors)]
           /\ \A m \in (Loops \cup {Base}) \ {l} : queue'[m] = queue[m]
           /\ Len(queue'[l]) = Len(queue[l]) + 1 /\ Len(queue[l]) \in Nat
           /\ \A i \in 1..Len(queue[l]) : queue'[l][i] = queue[l][i]
           /\ queue'[l][Len(queue[l]) + 1] = f
<1>1. queue[l] \in Seq(Functors)
  OBVIOUS
<1>2. queue'[l] = Append(queue[l], f) /\ \A m \in (Loops \cup {Base}) \ {l} : queue'[m] = queue[m]
  BY DEF Queued
<1>3. queue' \in [Loops \cup {Base} -> Seq(Functors)]
  BY <1>1 DEF Queued
<1>4. /\ Len(Append(queue[l], f)) = Len(queue[l]) + 1 /\ Len(queue[l]) \in Nat
      /\ \A i \in 1..Len(queue[l]) : Append(queue[l], f)[i] = queue[l][i]
      /\ Append(queue[l], f)[Len(queue[l]) + 1] = f
  BY <1>1, AppendProperties
<1> QED BY <1>2, <1>3, <1>4

\* One functor less: those behind it move up.
LEMMA TailFacts ==
    ASSUME NEW S, NEW q \in Seq(S), q # <<>>
    PROVE  /\ Tail(q) \in Seq(S) /\ Len(q) \in Nat \ {0} /\ Len(Tail(q)) = Len(q) - 1
           /\ Head(q) \in S /\ Head(q) = q[1]
           /\ \A i \in 1..Len(q) - 1 : Tail(q)[i] = q[i + 1]
BY HeadTailProperties

\* UpdateChannel keeps the types.
LEMMA MaskTyped ==
    ASSUME TypeOK, NEW c \in Conns, NEW mask \in Masks, UpdateChannel(c, mask),
           process = "running"
    PROVE  ChannelsTyped'
BY DEF TypeOK, ChannelsTyped, UpdateChannel, Masks

\* What write takes, and what it leaves.
LEMMA TakesTyped ==
    ASSUME TypeOK, NEW c \in Conns, NEW parts \in Seq(Parts)
    PROVE  /\ Takes(c, parts) \in 0..Len(parts) /\ sndbuf[c] + Takes(c, parts) \in 0..Capacity
           /\ SubSeq(parts, 1, Takes(c, parts)) \in Seq(Parts)
           /\ Rest(c, parts) \in Seq(Parts)
           /\ Len(SubSeq(parts, 1, Takes(c, parts))) = Takes(c, parts)
           /\ Len(Rest(c, parts)) = Len(parts) - Takes(c, parts)
           /\ \A i \in 1..Takes(c, parts) : SubSeq(parts, 1, Takes(c, parts))[i] = parts[i]
           /\ \A i \in 1..Len(parts) - Takes(c, parts) :
                 Rest(c, parts)[i] = parts[i + Takes(c, parts)]
<1>1. sndbuf[c] \in 0..Capacity /\ Capacity \in Nat
  BY ServerAssumption DEF TypeOK
<1>2. Len(parts) \in Nat
  OBVIOUS
<1>3. Takes(c, parts) \in 0..Len(parts) /\ sndbuf[c] + Takes(c, parts) \in 0..Capacity
  BY <1>1, <1>2 DEF Takes
<1> DEFINE k == Takes(c, parts)
<1>4. k \in 0..Len(parts)
  BY <1>3
<1> HIDE DEF k
<1>5. /\ SubSeq(parts, 1, k) \in Seq(Parts) /\ SubSeq(parts, k + 1, Len(parts)) \in Seq(Parts)
      /\ Len(SubSeq(parts, 1, k)) = k /\ Len(SubSeq(parts, k + 1, Len(parts))) = Len(parts) - k
      /\ \A i \in 1..k : SubSeq(parts, 1, k)[i] = parts[i]
      /\ \A i \in 1..Len(parts) - k : SubSeq(parts, k + 1, Len(parts))[i] = parts[i + k]
  BY <1>2, <1>4
<1> QED BY <1>3, <1>5 DEF Rest, k

\* A text is two parts.
LEMMA PartsTyped ==
    ASSUME NEW text \in Texts
    PROVE  PartsOf(text) \in Seq(Parts) /\ Len(PartsOf(text)) = 2
BY DEF PartsOf, Parts

\* write keeps the types.
LEMMA WrittenTyped ==
    ASSUME TypeOK, NEW c \in Conns, NEW parts \in Seq(Parts), Written(c, parts)
    PROVE  sndbuf' \in [Conns -> 0..Capacity] /\ wire' \in [Conns -> Seq(Parts)]
<1>1. sndbuf[c] + Takes(c, parts) \in 0..Capacity /\ SubSeq(parts, 1, Takes(c, parts)) \in Seq(Parts)
  BY TakesTyped
<1>2. wire[c] \o SubSeq(parts, 1, Takes(c, parts)) \in Seq(Parts)
  BY <1>1 DEF TypeOK
<1> QED BY <1>1, <1>2 DEF Written, TypeOK

-----------------------------------------------------------------------------
(* What a step that sends or writes leaves alone.                           *)

\* The masks lose events, or gain EPOLLOUT.
Narrow ==
    /\ registered' = registered
    /\ \A d \in Conns : /\ events'[d] \subseteq events[d] \cup {"OUT"}
                        /\ interest'[d] \subseteq interest[d] \cup events[d] \cup {"OUT"}

\* How a step that works on c may end the process.
Ends(c) ==
    /\ process' = "SIGPIPE" => Broken(c)
    /\ process' = "exit" => ~ Modifies

\* A mask that gains EPOLLOUT at most.
LEMMA MaskNarrow ==
    ASSUME TypeOK, process = "running", NEW c \in registered,
           NEW mask \in SUBSET (events[c] \cup {"OUT"}), UpdateChannel(c, mask)
    PROVE  ChannelsTyped' /\ Narrow /\ Ends(c)
<1>1. c \in Conns /\ events[c] \in Masks
  BY DEF TypeOK, Masks
<1>2. mask \in Masks
  BY <1>1 DEF Masks
<1>3. ChannelsTyped'
  BY <1>1, <1>2, MaskTyped
<1>4. registered' = registered
  BY DEF UpdateChannel
<1>5. \A d \in Conns : /\ events'[d] = IF d = c THEN mask ELSE events[d]
                       /\ interest'[d] \in {interest[d], IF d = c THEN mask ELSE interest[d]}
  BY DEF UpdateChannel, TypeOK
<1>6. Ends(c)
  BY DEF Ends, UpdateChannel
<1> QED BY <1>3, <1>4, <1>5, <1>6 DEF Narrow

\* Masks that stay as they are.
LEMMA SameNarrow == registered' = registered /\ events' = events /\ interest' = interest => Narrow
BY DEF Narrow

\* What goes to OutputBuffer, an error, a write: each touches masks and output
\* only.
LEMMA BufferEffect ==
    ASSUME TypeOK, process = "running", NEW c \in registered, NEW parts \in Seq(Parts),
           BufferOutput(c, parts)
    PROVE  /\ ChannelsTyped' /\ Narrow /\ Ends(c)
           /\ OutputBuffer' \in [Conns -> Seq(Parts)]
<1>1. c \in Conns
  BY DEF TypeOK
<1>2. OutputBuffer[c] \o parts \in Seq(Parts)
  BY <1>1 DEF TypeOK
<1>3. OutputBuffer' \in [Conns -> Seq(Parts)]
  BY <1>1, <1>2 DEF TypeOK, BufferOutput
<1>4. CASE UpdateChannel(c, events[c] \cup {"OUT"})
  BY <1>3, <1>4, MaskNarrow
<1>5. CASE UNCHANGED <<channelVars, process>>
  <2>1. ChannelsTyped' /\ Ends(c)
    BY <1>5 DEF channelVars, TypeOK, ChannelsTyped, Masks, Ends
  <2> QED BY <1>3, <1>5, <2>1, SameNarrow DEF channelVars
<1> QED BY <1>4, <1>5 DEF BufferOutput

LEMMA FailEffect ==
    ASSUME TypeOK, process = "running", NEW c \in Conns, Broken(c), WriteFails(c)
    PROVE  error' \in [Conns -> BOOLEAN] /\ process' \in {"running", "SIGPIPE"}
BY DEF TypeOK, WriteFails

LEMMA WriteEffect ==
    ASSUME TypeOK, process = "running", NEW c \in registered, NEW parts \in Seq(Parts),
           WriteNow(c, parts)
    PROVE  ChannelsTyped' /\ OutputTyped' /\ Narrow /\ Ends(c) /\ shut' = shut
<1>0. c \in Conns
  BY DEF TypeOK
<1>1. CASE /\ Broken(c)
           /\ WriteFails(c)
           /\ UNCHANGED <<channelVars, OutputBuffer, shut, sndbuf, wire>>
  <2>1. error' \in [Conns -> BOOLEAN] /\ process' \in {"running", "SIGPIPE"}
    BY <1>0, <1>1, FailEffect
  <2>2. ChannelsTyped' /\ OutputTyped'
    BY <1>1, <2>1 DEF TypeOK, ChannelsTyped, OutputTyped, Masks, channelVars
  <2>3. Narrow
    BY <1>1, SameNarrow DEF channelVars
  <2> QED BY <1>1, <2>1, <2>2, <2>3 DEF Ends
<1>2. ASSUME ~ Broken(c), Written(c, parts), UNCHANGED <<error, shut>>,
             UNCHANGED <<channelVars, OutputBuffer, process>>
      PROVE  ChannelsTyped' /\ OutputTyped' /\ Narrow /\ Ends(c) /\ shut' = shut
  <2>1. sndbuf' \in [Conns -> 0..Capacity] /\ wire' \in [Conns -> Seq(Parts)]
    BY <1>0, <1>2, WrittenTyped
  <2>2. ChannelsTyped' /\ OutputTyped'
    BY <1>2, <2>1 DEF TypeOK, ChannelsTyped, OutputTyped, Masks, channelVars
  <2>3. Narrow
    BY <1>2, SameNarrow DEF channelVars
  <2> QED BY <1>2, <2>2, <2>3 DEF Ends
<1>3. ASSUME ~ Broken(c), Written(c, parts), UNCHANGED <<error, shut>>,
             BufferOutput(c, Rest(c, parts))
      PROVE  ChannelsTyped' /\ OutputTyped' /\ Narrow /\ Ends(c) /\ shut' = shut
  <2>1. sndbuf' \in [Conns -> 0..Capacity] /\ wire' \in [Conns -> Seq(Parts)]
    BY <1>0, <1>3, WrittenTyped
  <2>2. Rest(c, parts) \in Seq(Parts)
    BY <1>0, TakesTyped
  <2>3. /\ ChannelsTyped' /\ Narrow /\ Ends(c)
        /\ OutputBuffer' \in [Conns -> Seq(Parts)]
    BY <1>3, <2>2, BufferEffect
  <2> QED BY <1>3, <2>1, <2>3 DEF TypeOK, OutputTyped
<1> QED BY <1>1, <1>2, <1>3 DEF WriteNow

\* A text sent to c touches the masks and the output of c only.
LEMMA SendEffect ==
    ASSUME TypeOK, process = "running", NEW c \in registered, NEW text \in Texts,
           sendInLoop(c, text)
    PROVE  ChannelsTyped' /\ OutputTyped' /\ Narrow /\ Ends(c) /\ shut' = shut
<1>1. PartsOf(text) \in Seq(Parts)
  BY PartsTyped
<1>2. CASE WriteNow(c, PartsOf(text))
  BY <1>1, <1>2, WriteEffect
<1>3. CASE BufferOutput(c, PartsOf(text)) /\ UNCHANGED socketVars
  <2>1. /\ ChannelsTyped' /\ Narrow /\ Ends(c)
        /\ OutputBuffer' \in [Conns -> Seq(Parts)]
    BY <1>1, <1>3, BufferEffect
  <2> QED BY <1>3, <2>1 DEF TypeOK, OutputTyped, socketVars
<1> QED BY <1>2, <1>3 DEF sendInLoop

-----------------------------------------------------------------------------
(* Every step keeps the types.                                              *)

LEMMA AtTyped ==
    ASSUME TypeOK, NEW l \in Loops, NEW c \in Conns \cup {None},
           NEW s \in {"poll", "dispatch", "push", "erase", "write"}, At(l, s, c)
    PROVE  /\ step' \in [Senders -> {"poll", "dispatch", "push", "erase", "write"}]
           /\ current' \in [Loops -> Conns \cup {None}]
           /\ step'[l] = s /\ current'[l] = c
           /\ \A t \in Senders \ {l} : step'[t] = step[t]
           /\ \A m \in Loops \ {l} : current'[m] = current[m]
BY Names DEF TypeOK, At

\* Where a loop is after a callback.
LEMMA EndReadAt ==
    ASSUME NEW l \in Loops, NEW c, EndRead(l, c)
    PROVE  \/ At(l, "write", c)
           \/ At(l, "poll", None) /\ active'[l] = {}
           \/ At(l, "dispatch", None)
BY DEF EndRead, EndEvent

\* So after the last callback of an event.
LEMMA EndEventAt ==
    ASSUME NEW l \in Loops, EndEvent(l)
    PROVE  \/ At(l, "poll", None) /\ active'[l] = {}
           \/ At(l, "dispatch", None)
BY DEF EndEvent

\* Both keep the types.
LEMMA EndReadTyped ==
    ASSUME TypeOK, NEW l \in Loops, NEW c \in Conns, EndRead(l, c)
    PROVE  /\ step' \in [Senders -> {"poll", "dispatch", "push", "erase", "write"}]
           /\ current' \in [Loops -> Conns \cup {None}]
BY EndReadAt, AtTyped

LEMMA EndEventTyped ==
    ASSUME TypeOK, NEW l \in Loops, EndEvent(l)
    PROVE  /\ step' \in [Senders -> {"poll", "dispatch", "push", "erase", "write"}]
           /\ current' \in [Loops -> Conns \cup {None}]
BY EndEventAt, AtTyped

\* The channel that a loop handles next.
LEMMA Handled ==
    ASSUME TypeOK, LoopsOwn, NEW l \in Loops, NEW c \in active[l],
           active' = [active EXCEPT ![l] = @ \ {c}]
    PROVE  /\ c \in Conns /\ c \in registered /\ loopOf[c] = l
           /\ active' \in [Loops -> SUBSET Conns]
           /\ active'[l] = active[l] \ {c}
           /\ \A m \in Loops \ {l} : active'[m] = active[m]
BY DEF TypeOK, LoopsOwn, Owns

\* The text that a thread sends next; one is left for who holds ConnMutex.
LEMMA NextText ==
    ASSUME TypeOK, CanSend, NEW t \in Senders
    PROVE  /\ Text(t) \in Texts /\ sends' \in 0..MaxSends /\ sends' = sends + 1 /\ sends \in Nat
           /\ ConnMutex # None => sends' < MaxSends
<1>1. sends \in 0..MaxSends /\ MaxSends \in Nat
  BY ServerAssumption DEF TypeOK
<1>2. sends < MaxSends /\ sends' = sends + 1 /\ (ConnMutex # None => sends + 1 < MaxSends)
  BY <1>1 DEF CanSend, Room
<1> QED BY <1>1, <1>2 DEF Text, Texts

\* The connection that newConnection makes.
LEMMA NextNumber ==
    ASSUME TypeOK, Numbered, NEW n \in Nat,
           n = Cardinality({d \in Conns : state[d] # "none"}) + 1, n <= MaxConns
    PROVE  n \in Conns /\ \A d \in Conns : state[d] # "none" <=> d < n
<1>1. PICK m \in 0..MaxConns : \A c \in Conns : state[c] # "none" <=> c <= m
  BY DEF Numbered
<1>2. {d \in Conns : state[d] # "none"} = 1..m
  BY <1>1, ServerAssumption DEF Conns
<1>3. Cardinality(1..m) = m
  BY <1>1, FS_Interval
<1>4. n = m + 1
  BY <1>1, <1>2, <1>3
<1>5. m \in Nat /\ m + 1 <= MaxConns /\ MaxConns \in Nat /\ \A d \in Conns : d \in Nat
  BY <1>1, <1>4, ServerAssumption DEF Conns
<1>6. \A d \in Conns : state[d] # "none" <=> d < n
  BY <1>1, <1>4, <1>5
<1> QED BY <1>4, <1>5, <1>6 DEF Conns

\* The accepted connections are finitely many.
LEMMA CountIsNat == Cardinality({d \in Conns : state[d] # "none"}) \in Nat
<1>1. IsFiniteSet(Conns)
  BY FS_Interval, ServerAssumption DEF Conns
<1>2. IsFiniteSet({d \in Conns : state[d] # "none"})
  BY <1>1, FS_Subset
<1> QED BY <1>2, FS_CardinalityType

\* The loop that comes next.
LEMMA LoopInTurn ==
    ASSUME TypeOK
    PROVE  IoLoops[NextLoop + 1] \in Loops /\ FollowingLoop \in 0..Len(IoLoops) - 1
<1>1. Len(IoLoops) \in Nat \ {0} /\ DOMAIN IoLoops = 1..Len(IoLoops)
  BY ServerAssumption
<1>2. NextLoop \in 0..Len(IoLoops) - 1
  BY DEF TypeOK
<1>3. IoLoops[NextLoop + 1] \in Loops
  BY <1>1, <1>2 DEF Loops, Range
<1> QED BY <1>1, <1>2, <1>3 DEF FollowingLoop

\* The types after newConnection,
LEMMA NewConnectionTyped == Typed /\ Numbered /\ NewConnection => Typed'
<1> SUFFICES ASSUME Typed, Numbered, NewConnection PROVE Typed'
  OBVIOUS
<1> USE DEF Typed
<1>1. PICK c \in Nat : c = Cardinality({d \in Conns : state[d] # "none"}) + 1
  <2> DEFINE k == Cardinality({d \in Conns : state[d] # "none"})
  <2>1. k \in Nat
    BY CountIsNat
  <2> HIDE DEF k
  <2>2. k + 1 \in Nat
    BY <2>1
  <2> QED BY <2>2 DEF k
<1>2. c \in Conns
  BY <1>1, NextNumber DEF NewConnection
<1>3. PICK l \in Loops : l = IoLoops[NextLoop + 1]
  BY LoopInTurn
<1>4. /\ NextLoop' = FollowingLoop
      /\ loopOf' = [loopOf EXCEPT ![c] = l]
      /\ state' = [state EXCEPT ![c] = "kConnecting"]
      /\ \E garbage \in SUBSET {"OUT"} : events' = [events EXCEPT ![c] = garbage]
      /\ Connections' = Connections \cup {c}
      /\ Queued(l, [do |-> "connectEstablished", conn |-> c])
      /\ peer' = [peer EXCEPT ![c] = "open"]
      /\ UNCHANGED <<process, registered, interest, OutputBuffer, step, active, current,
                     chatVars, socketVars, requests, asked, sends, closes>>
  BY <1>1, <1>3 DEF NewConnection
<1>5. [do |-> "connectEstablished", conn |-> c] \in Functors
  BY <1>2 DEF Functors
<1>6. queue' \in [Loops \cup {Base} -> Seq(Functors)]
  BY <1>4, <1>5, QueueAppend DEF TypeOK
<1>7. ChannelsTyped' /\ PeersTyped'
  <2>1. ChannelsTyped'
    BY <1>2, <1>4 DEF TypeOK, ChannelsTyped, Masks
  <2>2. PeersTyped'
    BY <1>2, <1>4 DEF TypeOK, PeersTyped, Counted
  <2> QED BY <2>1, <2>2
<1>8. OutputTyped' /\ ChatTyped' /\ LoopsTyped'
  BY <1>4, <1>6 DEF TypeOK, OutputTyped, ChatTyped, LoopsTyped, chatVars, socketVars
<1>9. ServerTyped'
  BY <1>2, <1>4, LoopInTurn DEF TypeOK, ServerTyped
<1> QED BY <1>7, <1>8, <1>9, TypesSplitNext

\* What RemoveConnectionInLoop does to the queues.
LEMMA Removes ==
    ASSUME TypeOK, Stages, QueuesOrdered, RemoveConnectionInLoop
    PROVE  \E c \in Conns, l \in Loops, f \in Functors :
              /\ c = queue[Base][1].conn /\ state[c] = "kDisconnected" /\ loopOf[c] = l
              /\ f = [do |-> "connectDestroyed", conn |-> c]
              /\ queue[Base] # <<>> /\ queue[Base] \in Seq(Functors) /\ queue[l] \in Seq(Functors)
              /\ Connections' = Connections \ {c}
              /\ queue' \in [Loops \cup {Base} -> Seq(Functors)]
              /\ queue'[Base] = Tail(queue[Base]) /\ queue'[l] = Append(queue[l], f)
              /\ \A m \in Loops \ {l} : queue'[m] = queue[m]
<1> DEFINE c == queue[Base][1].conn
           f == [do |-> "connectDestroyed", conn |-> c]
<1>1. queue[Base] \in Seq(Functors) /\ queue[Base] # <<>>
  BY DEF TypeOK, RemoveConnectionInLoop
<1>2. Head(queue[Base]) = queue[Base][1] /\ queue[Base][1] \in Functors /\ Tail(queue[Base]) \in Seq(Functors)
      /\ 1 \in 1..Len(queue[Base])
  BY <1>1, TailFacts
<1>3. c \in Conns /\ f \in Functors
  BY <1>2 DEF Functors
<1>4. state[c] = "kDisconnected"
  BY <1>2 DEF QueuesOrdered, BaseOrdered
<1>5. loopOf[c] \in Loops
  BY <1>3, <1>4 DEF Stages, Stage
<1>6. queue[loopOf[c]] \in Seq(Functors) /\ Append(queue[loopOf[c]], f) \in Seq(Functors)
  BY <1>3, <1>5, AppendProperties DEF TypeOK
<1>7. /\ Connections' = Connections \ {c}
      /\ queue' = [queue EXCEPT ![Base] = Tail(@), ![loopOf[c]] = Append(@, f)]
  BY <1>2 DEF RemoveConnectionInLoop
<1> HIDE DEF c, f
<1>8. loopOf[c] # Base
  BY <1>5, Names
<1>9. /\ queue' \in [Loops \cup {Base} -> Seq(Functors)]
      /\ queue'[Base] = Tail(queue[Base]) /\ queue'[loopOf[c]] = Append(queue[loopOf[c]], f)
      /\ \A m \in Loops \ {loopOf[c]} : queue'[m] = queue[m]
  BY <1>2, <1>5, <1>6, <1>7, <1>8, Names DEF TypeOK
<1> QED BY <1>1, <1>3, <1>4, <1>5, <1>6, <1>7, <1>9 DEF c, f

\* after removeConnectionInLoop,
LEMMA RemoveTyped == Typed /\ Stages /\ QueuesOrdered /\ RemoveConnectionInLoop => Typed'
<1> SUFFICES ASSUME Typed, Stages, QueuesOrdered, RemoveConnectionInLoop PROVE Typed'
  OBVIOUS
<1> USE DEF Typed
<1>1. queue' \in [Loops \cup {Base} -> Seq(Functors)]
  BY Removes
<1> QED BY <1>1 DEF RemoveConnectionInLoop, TypeOK, Counted, channelVars, chatVars, socketVars, envVars

\* after poll,
LEMMA PollTyped ==
    ASSUME Typed, NEW l \in Loops, Poll(l)
    PROVE  Typed'
<1> USE DEF Typed
<1>1. \A c \in Conns : Revents(c) \in Masks
  BY DEF Revents, TypeOK, Masks
<1>2. step' \in [Senders -> {"poll", "dispatch", "push", "erase", "write"}]
  BY Names DEF TypeOK, Poll
<1>3. active' \in [Loops -> SUBSET Conns]
  BY DEF TypeOK, Poll
<1>4. events' \in [Conns -> Masks]
  BY <1>1 DEF Poll, TypeOK, Masks
<1>5. UNCHANGED <<process, serverVars, state, registered, interest, OutputBuffer, queue, current,
                  chatVars, socketVars, envVars, sends, closes>>
  BY DEF Poll
<1>6. ChannelsTyped' /\ LoopsTyped'
  BY <1>2, <1>3, <1>4, <1>5 DEF TypeOK, ChannelsTyped, LoopsTyped, Masks
<1>7. OutputTyped' /\ ChatTyped' /\ PeersTyped' /\ ServerTyped'
  BY <1>5 DEF TypeOK, OutputTyped, ChatTyped, PeersTyped, Counted, ServerTyped, serverVars, chatVars, socketVars, envVars
<1> QED BY <1>6, <1>7, TypesSplitNext

\* What handleClose does, up to its callbacks.
LEMMA CloseEffect ==
    ASSUME TypeOK, process = "running", NEW l \in Loops, NEW c \in registered, BeginClose(l, c),
           closes[c] < MaxCloses
    PROVE  /\ ChannelsTyped' /\ Narrow /\ Ends(c)
           /\ events'[c] = {} /\ (process' = "running" => interest'[c] = {})
           /\ state' \in [Conns -> {"none", "kConnecting", "kConnected", "kDisconnected"}]
           /\ closes' \in [Conns -> 0..MaxCloses]
           /\ state'[c] = "kDisconnected" /\ closes'[c] = closes[c] + 1 /\ closes[c] \in Nat
           /\ \A d \in Conns \ {c} : state'[d] = state[d] /\ closes'[d] = closes[d]
           /\ At(l, "erase", c)
<1>1. c \in Conns
  BY DEF TypeOK
<1>2. UpdateChannel(c, {}) /\ {} \in SUBSET (events[c] \cup {"OUT"})
  BY DEF BeginClose
<1>3. ChannelsTyped' /\ Narrow /\ Ends(c)
  BY <1>2, MaskNarrow
<1>4. events'[c] = {} /\ (process' = "running" => interest'[c] = {})
  BY <1>1 DEF BeginClose, UpdateChannel, TypeOK
<1>5. closes[c] \in Nat /\ closes[c] + 1 \in 0..MaxCloses
  BY <1>1, ServerAssumption DEF TypeOK
<1>6. /\ state' = [state EXCEPT ![c] = "kDisconnected"] /\ closes' = [closes EXCEPT ![c] = @ + 1]
      /\ At(l, "erase", c)
  BY DEF BeginClose
<1> QED BY <1>1, <1>3, <1>4, <1>5, <1>6 DEF TypeOK

\* and after the first part of handleClose.
LEMMA CloseTyped ==
    ASSUME TypeOK, LoopsOwn, process = "running", NEW l \in Loops, NEW c \in active[l],
           active' = [active EXCEPT ![l] = @ \ {c}], BeginClose(l, c), closes[c] < MaxCloses,
           OutputTyped', ChatTyped', PeersTyped', UNCHANGED <<serverVars, queue>>
    PROVE  Typed'
<1>1. c \in Conns /\ c \in registered /\ active' \in [Loops -> SUBSET Conns]
  BY Handled
<1>2. /\ ChannelsTyped' /\ closes' \in [Conns -> 0..MaxCloses] /\ At(l, "erase", c)
      /\ state' \in [Conns -> {"none", "kConnecting", "kConnected", "kDisconnected"}]
  BY <1>1, CloseEffect
<1>3. /\ step' \in [Senders -> {"poll", "dispatch", "push", "erase", "write"}]
      /\ current' \in [Loops -> Conns \cup {None}]
  BY <1>1, <1>2, AtTyped
<1>4. LoopsTyped'
  BY <1>1, <1>3 DEF LoopsTyped, TypeOK
<1>5. ServerTyped'
  BY <1>2 DEF ServerTyped, TypeOK, serverVars
<1> QED BY <1>2, <1>4, <1>5, TypesSplitNext

-----------------------------------------------------------------------------
(* Quiet steps: those that change no state, no map and no queue, and of the *)
(* masks only what a send or a write changes.                               *)

Quiet ==
    /\ process = "running" /\ UNCHANGED <<state, closes, loopOf, Connections>>
    /\ Narrow
    /\ \A c \in Conns :
          /\ shut[c] => shut'[c]
          /\ shut'[c] => shut[c] \/ state[c] = "kDisconnected"
          /\ \/ peer'[c] = peer[c]
             \/ peer[c] \in {"open", "closed"} /\ peer'[c] \in {"closed", "reset"}
          /\ peer[c] = "closed" => peer'[c] # "open"
          /\ peer[c] = "reset" => peer'[c] = "reset"

\* What a step does to the connections of loop m that does not concern m.
Steady(m) ==
    \A c \in registered :
        loopOf[c] = m =>
            /\ c \in registered' /\ loopOf'[c] = m
            /\ "HUP" \in events'[c] => "HUP" \in events[c]
            /\ closes'[c] = closes[c]
            /\ state[c] = "kDisconnected" => state'[c] = "kDisconnected"
            /\ HungUp(c) => HungUp(c)'

\* A quiet step keeps the parts of the invariant: who hung up has hung up,
LEMMA QuietHungUp ==
    ASSUME Quiet, NEW c \in Conns, HungUp(c)
    PROVE  HungUp(c)'
BY DEF Quiet, HungUp

\* what the loops own stays theirs,
LEMMA QuietSteady ==
    ASSUME TypeOK, Quiet, NEW m \in Loops
    PROVE  Steady(m)
<1>1. \A c \in registered : c \in Conns
  BY DEF TypeOK
<1>2. \A c \in registered : HungUp(c) => HungUp(c)'
  BY <1>1, QuietHungUp
<1>3. \A c \in registered : "HUP" \in events'[c] => "HUP" \in events[c]
  BY <1>1 DEF Quiet, Narrow
<1> QED BY <1>2, <1>3 DEF Steady, Quiet, Narrow

\* the stages stay,
LEMMA QuietStages ==
    ASSUME TypeOK, Stages, Quiet
    PROVE  Stages'
<1> SUFFICES ASSUME NEW c \in Conns PROVE Stage(c)'
  BY DEF Stages
<1>1. Stage(c)
  BY DEF Stages
<1>2. /\ state'[c] = state[c] /\ closes'[c] = closes[c] /\ loopOf'[c] = loopOf[c]
      /\ Connections' = Connections /\ registered' = registered
  BY DEF Quiet, Narrow
<1>3. /\ shut'[c] => shut[c] \/ state[c] = "kDisconnected"
      /\ peer[c] = "none" <=> peer'[c] = "none"
      /\ peer[c] \in {"closed", "reset"} => peer'[c] \in {"closed", "reset"}
  BY DEF Quiet, TypeOK
<1> QED BY <1>1, <1>2, <1>3 DEF Stage

\* the deaf stay deaf,
LEMMA QuietDeaf ==
    ASSUME TypeOK, ClosedAreDeaf, Quiet
    PROVE  ClosedAreDeaf'
<1> SUFFICES ASSUME NEW c \in Conns PROVE Deaf(c)'
  BY DEF ClosedAreDeaf
<1>1. Deaf(c)
  BY DEF ClosedAreDeaf
<1>2. /\ events'[c] \subseteq events[c] \cup {"OUT"} /\ closes' = closes /\ process = "running"
      /\ interest'[c] \subseteq interest[c] \cup events[c] \cup {"OUT"}
  BY DEF Quiet, Narrow
<1> QED BY <1>1, <1>2 DEF Deaf

\* and so do the numbers, the closes and the queues.
LEMMA QuietRest ==
    ASSUME TypeOK, Numbered, CloseOnce, QueuesOrdered, Quiet
    PROVE  Numbered' /\ CloseOnce' /\ (queue' = queue => QueuesOrdered')
<1>1. Numbered'
  BY DEF Numbered, Quiet
<1>2. CloseOnce'
  BY QuietHungUp DEF CloseOnce, Quiet
<1>3. queue' = queue => QueuesOrdered'
  BY DEF QueuesOrdered, BaseOrdered, InTurn, Due, Quiet, Narrow
<1> QED BY <1>1, <1>2, <1>3

\* The functors that take connections off the maps are those that were there.
SameWay ==
    \A c \in Conns : /\ Removing(c)' <=> Removing(c)
                     /\ Destroying(c)' <=> Destroying(c)
                     /\ OneFunctor(c) => OneFunctor(c)'

\* A step that leaves the queues alone.
LEMMA SameQueue == queue' = queue => SameWay
BY DEF SameWay, Removing, Destroying, OneFunctor

\* The way out stays as it is,
LEMMA QuietLeave ==
    ASSUME TypeOK, LeaveInTurn, RemovedOnce, Quiet, SameWay,
           \A d \in Conns : Erasing(d)' => Erasing(d)
    PROVE  LeaveInTurn' /\ RemovedOnce'
<1>1. ASSUME NEW c \in Conns PROVE Leaving(c)'
  <2>1. Leaving(c)
    BY DEF LeaveInTurn
  <2>2. /\ Removing(c)' <=> Removing(c)
        /\ Destroying(c)' <=> Destroying(c)
        /\ Erasing(c)' => Erasing(c)
    BY DEF SameWay
  <2>3. closes'[c] = closes[c] /\ registered' = registered /\ Connections' = Connections
    BY DEF Quiet, Narrow
  <2> QED BY <2>1, <2>2, <2>3 DEF Leaving
<1>2. ASSUME NEW c \in Conns PROVE Once(c)'
  <2>1. Once(c)
    BY DEF RemovedOnce
  <2>2. /\ Removing(c)' <=> Removing(c)
        /\ Destroying(c)' <=> Destroying(c)
        /\ Erasing(c)' => Erasing(c)
        /\ OneFunctor(c) => OneFunctor(c)'
    BY DEF SameWay
  <2>3. closes'[c] = closes[c] /\ registered' = registered
    BY DEF Quiet, Narrow
  <2> QED BY <2>1, <2>2, <2>3 DEF Once
<1> QED BY <1>1, <1>2 DEF LeaveInTurn, RemovedOnce

\* and who is ready stays so.
LEMMA QuietReady ==
    ASSUME Quiet, SameWay, NEW c \in Conns, Ready(c)
    PROVE  Ready(c)' /\ loopOf'[c] = loopOf[c]
BY DEF Ready, SameWay, Quiet, Narrow

\* A connection that may be sent to is ready.
LEMMA ConnectedReady ==
    ASSUME Stages, LeaveInTurn, NEW c \in Conns, state[c] = "kConnected"
    PROVE  Ready(c)
<1>1. Stage(c) /\ Leaving(c)
  BY DEF Stages, LeaveInTurn
<1> QED BY <1>1 DEF Stage, Leaving, Ready

\* What remains to be shown of a quiet step.
LEMMA QuietKeeps ==
    ASSUME ServerInv, Quiet, Typed', LoopsOwn', SendersLock', queue' = queue,
           \A d \in Conns : Erasing(d)' => Erasing(d)
    PROVE  ServerInv'
BY QuietStages, QuietDeaf, QuietRest, QuietLeave, SameQueue DEF ServerInv, Typed

-----------------------------------------------------------------------------
(* Where the loops are.                                                     *)

\* Loop l ends an event, or goes on to the write callback.
Moves(l) ==
    \E s \in {"poll", "dispatch", "write"}, c \in Conns \cup {None} :
        /\ At(l, s, c)
        /\ s = "poll" => active'[l] = {}
        /\ s \in {"poll", "dispatch"} => c = None
        /\ s = "write" => c \in registered /\ loopOf[c] = l

\* After the callbacks the loop goes on as Moves says.
LEMMA EndReadMoves ==
    ASSUME TypeOK, NEW l \in Loops, NEW c \in registered, loopOf[c] = l, EndRead(l, c)
    PROVE  Moves(l)
<1>1. c \in Conns
  BY DEF TypeOK
<1> QED BY <1>1, EndReadAt DEF Moves

LEMMA EndEventMoves ==
    ASSUME NEW l \in Loops, EndEvent(l)
    PROVE  Moves(l)
BY EndEventAt DEF Moves

\* Where the loop is then.
LEMMA MovesAt ==
    ASSUME TypeOK, NEW l \in Loops, Moves(l)
    PROVE  /\ step' \in [Senders -> {"poll", "dispatch", "push", "erase", "write"}]
           /\ current' \in [Loops -> Conns \cup {None}]
           /\ step'[l] \in {"poll", "dispatch", "write"}
           /\ step'[l] = "poll" => active'[l] = {}
           /\ step'[l] \in {"poll", "dispatch"} => current'[l] = None
           /\ step'[l] = "write" => current'[l] \in registered /\ loopOf[current'[l]] = l
           /\ \A t \in Senders \ {l} : step'[t] = step[t]
           /\ \A m \in Loops \ {l} : current'[m] = current[m]
<1>1. PICK s \in {"poll", "dispatch", "write"}, c \in Conns \cup {None} :
        /\ At(l, s, c)
        /\ s = "poll" => active'[l] = {}
        /\ s \in {"poll", "dispatch"} => c = None
        /\ s = "write" => c \in registered /\ loopOf[c] = l
  BY DEF Moves
<1> QED BY <1>1, AtTyped

\* Another loop keeps what it owns,
LEMMA OwnsKept ==
    ASSUME TypeOK, NEW m \in Loops, Owns(m), Steady(m), step'[m] = step[m],
           current'[m] = current[m], active'[m] = active[m]
    PROVE  Owns(m)'
BY DEF Owns, Steady

\* The channels that a loop has still to handle are as they were.
LEMMA ActiveKept ==
    ASSUME NEW l \in Loops, Owns(l), Steady(l), active'[l] \subseteq active[l]
    PROVE  \A c \in active'[l] : /\ c \in registered' /\ loopOf'[c] = l
                                 /\ "HUP" \in events'[c] => HungUp(c)' /\ closes'[c] < MaxCloses
BY DEF Owns, Steady

\* this one too,
LEMMA OwnsMoved ==
    ASSUME TypeOK, NEW l \in Loops, Owns(l), Steady(l), Moves(l), active'[l] \subseteq active[l]
    PROVE  Owns(l)'
<1>1. /\ step'[l] \in {"poll", "dispatch", "write"}
      /\ step'[l] = "poll" => active'[l] = {}
      /\ step'[l] \in {"poll", "dispatch"} => current'[l] = None
      /\ step'[l] = "write" => current'[l] \in registered /\ loopOf[current'[l]] = l
  BY MovesAt
<1>2. step'[l] = "write" => current'[l] \in registered' /\ loopOf'[current'[l]] = l
  BY <1>1 DEF Steady
<1>3. \A c \in active'[l] : /\ c \in registered' /\ loopOf'[c] = l
                            /\ "HUP" \in events'[c] => HungUp(c)' /\ closes'[c] < MaxCloses
  BY ActiveKept
<1> QED BY <1>1, <1>2, <1>3 DEF Owns

\* and so all do,
LEMMA LoopsOwnMoved ==
    ASSUME TypeOK, LoopsOwn, NEW l \in Loops, \A m \in Loops : Steady(m), Moves(l),
           active'[l] \subseteq active[l], \A m \in Loops \ {l} : active'[m] = active[m]
    PROVE  LoopsOwn'
<1> SUFFICES ASSUME NEW m \in Loops PROVE Owns(m)'
  BY DEF LoopsOwn
<1>1. Owns(m) /\ Steady(m)
  BY DEF LoopsOwn
<1>2. CASE m = l
  BY <1>1, <1>2, OwnsMoved
<1>3. CASE m # l
  BY <1>1, <1>3, Names, MovesAt, OwnsKept
<1> QED BY <1>2, <1>3

\* whether one moves or none.
LEMMA LoopsOwnStay ==
    ASSUME TypeOK, LoopsOwn, \A m \in Loops : Steady(m), UNCHANGED <<active, current>>,
           \A m \in Loops : step'[m] = step[m]
    PROVE  LoopsOwn'
<1> SUFFICES ASSUME NEW m \in Loops PROVE Owns(m)'
  BY DEF LoopsOwn
<1> QED BY OwnsKept DEF LoopsOwn

\* A loop that moves on starts no handleClose.
LEMMA MovesErases ==
    ASSUME TypeOK, NEW l \in Loops, Moves(l), NEW d \in Conns, Erasing(d)'
    PROVE  Erasing(d)
<1>1. PICK m \in Loops : step'[m] = "erase" /\ current'[m] = d
  BY DEF Erasing
<1>2. m # l
  BY <1>1, MovesAt
<1> QED BY <1>1, <1>2, MovesAt, Names DEF Erasing

\* The locks are kept by a step that starts or ends no send.
LEMMA LocksKept ==
    ASSUME TypeOK, SendersLock, UNCHANGED <<target, ConnMutex>>, step'[Observer] = step[Observer],
           \A t \in Senders : step'[t] = "push" <=> step[t] = "push", Spared',
           \A c \in Conns : Ready(c) => ConnMutex = None \/ (Ready(c)' /\ loopOf'[c] = loopOf[c])
    PROVE  SendersLock'
<1>1. ASSUME NEW t \in Senders PROVE Locks(t)'
  <2>1. Locks(t)
    BY DEF SendersLock
  <2>2. ConnMutex = None => target[t] = None
    BY <2>1, Names DEF Locks
  <2>3. CASE target[t] = None
    BY <2>1, <2>3 DEF Locks
  <2>4. CASE target[t] # None
    <3>1. PICK c \in Conns : c = target[t]
      BY <2>4 DEF TypeOK
    <3>2. Ready(c)' /\ loopOf'[c] = loopOf[c]
      BY <2>1, <2>2, <2>4, <3>1 DEF Locks
    <3>3. target'[t] = c
      BY <3>1
    <3> QED BY <2>1, <2>4, <3>1, <3>2, <3>3 DEF Locks, Ready, Removing, Destroying
  <2> QED BY <2>3, <2>4
<1> QED BY <1>1 DEF SendersLock

\* A text stays spared, and a connection ready, unless something is done to it.
LEMMA SparedKept ==
    ASSUME SendersLock, UNCHANGED <<sends, ConnMutex>>
    PROVE  Spared'
BY DEF SendersLock, Spared

LEMMA ReadyKept ==
    ASSUME NEW c \in Conns, Ready(c), c \in registered', Removing(c)' => Removing(c),
           Destroying(c)' => Destroying(c)
    PROVE  Ready(c)'
BY DEF Ready

\* And it takes no lock.
LEMMA MovesLocks ==
    ASSUME TypeOK, SendersLock, NEW l \in Loops, Moves(l), step[l] # "push",
           UNCHANGED <<target, ConnMutex, loopOf>>, Spared',
           \A c \in Conns : Ready(c) => ConnMutex = None \/ Ready(c)'
    PROVE  SendersLock'
<1>1. \A t \in Senders : step'[t] = "push" <=> step[t] = "push"
  BY MovesAt
<1>2. step'[Observer] = step[Observer]
  BY MovesAt, Names
<1> QED BY <1>1, <1>2, LocksKept

\* A quiet step of a loop that ends an event.
LEMMA QuietMove ==
    ASSUME ServerInv, Quiet, Typed', NEW l \in Loops, Moves(l), step[l] # "push",
           UNCHANGED <<queue, target, ConnMutex>>,
           active'[l] \subseteq active[l], \A m \in Loops \ {l} : active'[m] = active[m], Spared'
    PROVE  ServerInv'
<1> USE DEF ServerInv, Typed
<1>1. \A m \in Loops : Steady(m)
  BY QuietSteady
<1>2. LoopsOwn'
  BY <1>1, LoopsOwnMoved
<1>3. SendersLock'
  <2>1. \A c \in Conns : Ready(c) => Ready(c)'
    BY SameQueue, QuietReady
  <2> QED BY <2>1, MovesLocks DEF Quiet
<1>4. \A d \in Conns : Erasing(d)' => Erasing(d)
  BY MovesErases
<1> QED BY <1>2, <1>3, <1>4, QuietKeeps

\* A quiet step of somebody else.
LEMMA QuietStay ==
    ASSUME ServerInv, Quiet, Typed', UNCHANGED <<loopVars, chatVars, sends>>
    PROVE  ServerInv'
<1> USE DEF ServerInv, Typed
<1>1. \A m \in Loops : Steady(m)
  BY QuietSteady
<1>2. LoopsOwn'
  BY <1>1, LoopsOwnStay DEF loopVars
<1>3. SendersLock'
  <2>1. \A c \in Conns : Ready(c) => Ready(c)' /\ loopOf'[c] = loopOf[c]
    BY SameQueue, QuietReady DEF loopVars
  <2>2. Spared'
    BY DEF SendersLock, Spared, chatVars
  <2> QED BY <2>1, <2>2, LocksKept DEF loopVars, chatVars
<1>4. \A d \in Conns : Erasing(d)' => Erasing(d)
  BY DEF Erasing, loopVars
<1> QED BY <1>2, <1>3, <1>4, QuietKeeps DEF loopVars, chatVars

-----------------------------------------------------------------------------
(* The quiet actions.                                                       *)

LEMMA NarrowQuiet ==
    ASSUME process = "running", Narrow, UNCHANGED <<state, closes, serverVars, shut, peer>>
    PROVE  Quiet
BY DEF Quiet, serverVars

\* handleError keeps the invariant.
LEMMA ErrorKeeps ==
    ASSUME ServerInv, process = "running", NEW l \in Loops, handleError(l)
    PROVE  ServerInv'
<1> USE DEF ServerInv, Typed
<1>1. PICK c \in active[l] :
        /\ events' = [events EXCEPT ![c] = @ \ {"ERR"}]
        /\ error' = [error EXCEPT ![c] = FALSE]
        /\ UNCHANGED <<process, serverVars, state, registered, interest, OutputBuffer, loopVars, chatVars,
                       shut, sndbuf, wire, envVars, sends, closes>>
  BY DEF handleError
<1>2. c \in Conns
  BY DEF TypeOK
<1>3. ChannelsTyped'
  BY <1>1, <1>2 DEF ChannelsTyped, TypeOK, Masks
<1>4. OutputTyped' /\ LoopsTyped' /\ ChatTyped' /\ PeersTyped' /\ ServerTyped'
  BY <1>1, <1>2 DEF OutputTyped, LoopsTyped, ChatTyped, PeersTyped, Counted, ServerTyped, TypeOK,
                    serverVars, loopVars, chatVars, envVars
<1>5. Typed'
  BY <1>3, <1>4, TypesSplitNext
<1>6. Narrow
  BY <1>1, <1>2 DEF Narrow, TypeOK
<1>7. Quiet
  BY <1>1, <1>6, NarrowQuiet DEF envVars
<1> QED BY <1>1, <1>5, <1>7, QuietStay

\* A channel that is handled without a close.
LEMMA HandledKeeps ==
    ASSUME ServerInv, process = "running", NEW l \in Loops, NEW c \in active[l],
           step[l] = "dispatch", active' = [active EXCEPT ![l] = @ \ {c}],
           Narrow, Moves(l), ChannelsTyped', OutputTyped', PeersTyped', ChatTyped', Spared',
           UNCHANGED <<state, closes, serverVars, shut, peer, queue, target, ConnMutex>>
    PROVE  ServerInv'
<1> USE DEF ServerInv, Typed
<1>1. /\ c \in Conns /\ c \in registered /\ loopOf[c] = l
      /\ active' \in [Loops -> SUBSET Conns]
      /\ active'[l] = active[l] \ {c}
      /\ \A m \in Loops \ {l} : active'[m] = active[m]
  BY Handled
<1>2. LoopsTyped'
  BY <1>1, MovesAt DEF LoopsTyped, TypeOK
<1>3. ServerTyped'
  BY DEF ServerTyped, TypeOK, serverVars
<1>4. Typed'
  BY <1>2, <1>3, TypesSplitNext
<1>5. Quiet
  BY NarrowQuiet
<1> QED BY <1>1, <1>4, <1>5, QuietMove

\* A channel with nothing to read keeps it.
LEMMA SkipKeeps ==
    ASSUME ServerInv, process = "running", NEW l \in Loops, SkipRead(l)
    PROVE  ServerInv'
<1> USE DEF ServerInv, Typed
<1>1. PICK c \in active[l] :
        /\ step[l] = "dispatch"
        /\ active' = [active EXCEPT ![l] = @ \ {c}]
        /\ UNCHANGED channelVars
        /\ EndRead(l, c)
        /\ UNCHANGED <<process, serverVars, state, OutputBuffer, queue, chatVars, socketVars, envVars,
                       sends, closes>>
  BY DEF SkipRead
<1>2. ChannelsTyped' /\ OutputTyped' /\ PeersTyped' /\ ChatTyped'
  BY <1>1 DEF ChannelsTyped, OutputTyped, PeersTyped, Counted, ChatTyped, TypeOK, Masks, channelVars,
              socketVars, envVars, chatVars
<1>3. Narrow
  BY <1>1, SameNarrow DEF channelVars
<1>4. Moves(l)
  BY <1>1, Handled, EndReadMoves
<1>5. Spared'
  BY <1>1 DEF SendersLock, Spared, chatVars
<1> QED BY <1>1, <1>2, <1>3, <1>4, <1>5, HandledKeeps DEF socketVars, envVars, chatVars

\* A request is taken off the socket.
LEMMA RequestTaken ==
    ASSUME Typed, NEW c \in Conns, requests[c] > 0, requests' = [requests EXCEPT ![c] = @ - 1],
           UNCHANGED <<peer, asked>>, sends' \in 0..MaxSends
    PROVE  PeersTyped'
<1>1. requests[c] - 1 \in 0..MaxRequests
  BY ServerAssumption DEF Typed, TypeOK
<1>2. \A d \in Conns : requests'[d] \in 0..MaxRequests /\ requests'[d] <= asked
  BY <1>1, ServerAssumption DEF Typed, TypeOK, Counted
<1> QED BY <1>1, <1>2 DEF PeersTyped, Counted, Typed, TypeOK

\* A message that is handled within one step keeps it,
LEMMA MessageKeeps ==
    ASSUME ServerInv, process = "running", NEW l \in Loops, NEW c \in active[l],
           step[l] = "dispatch",
           active' = [active EXCEPT ![l] = @ \ {c}],
           requests[c] > 0, requests' = [requests EXCEPT ![c] = @ - 1],
           UNCHANGED <<state, closes, serverVars, queue, peer, asked>>,
           UserConnMap' \in [Users -> Conns \cup {None}],
           UNCHANGED <<target, ConnMutex>>, Moves(l),
           \/ UNCHANGED <<channelVars, OutputBuffer, socketVars, sends>> /\ process' \in {process, "terminate"}
           \/ CanSend /\ \E d \in registered : sendInLoop(d, Text(l))
    PROVE  ServerInv'
<1> USE DEF ServerInv, Typed
<1>1. c \in Conns /\ c \in registered
  BY Handled
<1>2. ChatTyped'
  BY DEF ChatTyped, TypeOK
<1>3. /\ ChannelsTyped' /\ OutputTyped' /\ Narrow /\ shut' = shut
      /\ sends' \in 0..MaxSends /\ Spared'
  <2>1. CASE UNCHANGED <<channelVars, OutputBuffer, socketVars, sends>> /\ process' \in {process, "terminate"}
    <3>1. ChannelsTyped' /\ OutputTyped' /\ shut' = shut
      BY <2>1 DEF ChannelsTyped, OutputTyped, TypeOK, Masks, channelVars, socketVars
    <3>2. Narrow
      BY <2>1, SameNarrow DEF channelVars
    <3>3. sends' \in 0..MaxSends /\ Spared'
      BY <2>1 DEF TypeOK, SendersLock, Spared
    <3> QED BY <3>1, <3>2, <3>3
  <2>2. CASE CanSend /\ \E d \in registered : sendInLoop(d, Text(l))
    <3>1. l \in Senders
      BY Names
    <3>2. Text(l) \in Texts /\ sends' \in 0..MaxSends /\ (ConnMutex # None => sends' < MaxSends)
      BY <2>2, <3>1, NextText
    <3>3. ChannelsTyped' /\ OutputTyped' /\ Narrow /\ shut' = shut
      BY <2>2, <3>2, SendEffect
    <3> QED BY <3>2, <3>3 DEF Spared
  <2> QED BY <2>1, <2>2
<1>4. PeersTyped'
  BY <1>1, <1>3, RequestTaken
<1> QED BY <1>2, <1>3, <1>4, HandledKeeps

\* The room that is left when ConnMutex is taken.
LEMMA RoomIsLeft ==
    ASSUME TypeOK, ConnMutex = None, Room
    PROVE  sends < MaxSends
BY DEF TypeOK, Room

\* The third kind of message: loop l is about to send to a connection of another.
LEMMA ForwardKeeps ==
    ASSUME ServerInv, process = "running", NEW l \in Loops, NEW c \in active[l],
           step[l] = "dispatch",
           active' = [active EXCEPT ![l] = @ \ {c}],
           requests[c] > 0, requests' = [requests EXCEPT ![c] = @ - 1],
           UNCHANGED <<state, closes, serverVars, queue, peer, asked>>,
           NEW d \in Conns, state[d] = "kConnected", loopOf[d] # l,
           ConnMutex = None, ConnMutex' = l, Room,
           target' = [target EXCEPT ![l] = d], At(l, "push", c),
           UNCHANGED <<UserConnMap, process, channelVars, OutputBuffer, socketVars, sends>>
    PROVE  ServerInv'
<1> USE DEF ServerInv, Typed
<1>1. /\ c \in Conns /\ c \in registered /\ loopOf[c] = l
      /\ active' \in [Loops -> SUBSET Conns]
      /\ active'[l] = active[l] \ {c}
      /\ \A m \in Loops \ {l} : active'[m] = active[m]
  BY Handled
<1>2. d # None
  BY ServerAssumption DEF Conns
<1>3. /\ step' \in [Senders -> {"poll", "dispatch", "push", "erase", "write"}]
      /\ current' \in [Loops -> Conns \cup {None}]
      /\ step'[l] = "push" /\ current'[l] = c
      /\ \A t \in Senders \ {l} : step'[t] = step[t]
      /\ \A m \in Loops \ {l} : current'[m] = current[m]
  BY <1>1, AtTyped
<1>4. l \in Senders /\ l # Observer /\ l # None
  BY Names
<1>5. PeersTyped'
  BY <1>1, RequestTaken DEF TypeOK
<1>6. Typed'
  <2>1. target' \in [Senders -> Conns \cup {None}]
    BY <1>2, <1>4 DEF TypeOK
  <2>2. ChatTyped'
    BY <1>4, <2>1 DEF ChatTyped, TypeOK
  <2>3. LoopsTyped'
    BY <1>1, <1>3 DEF LoopsTyped, TypeOK
  <2>4. ChannelsTyped' /\ OutputTyped' /\ ServerTyped'
    BY DEF ChannelsTyped, OutputTyped, ServerTyped, TypeOK, Masks, channelVars, socketVars, serverVars
  <2> QED BY <1>5, <2>2, <2>3, <2>4, TypesSplitNext
<1>7. Quiet
  BY SameNarrow, NarrowQuiet DEF channelVars, socketVars
<1>8. LoopsOwn'
  <2> SUFFICES ASSUME NEW m \in Loops PROVE Owns(m)'
    BY DEF LoopsOwn
  <2>1. Owns(m) /\ Steady(m)
    BY <1>7, QuietSteady DEF LoopsOwn
  <2>2. CASE m # l
    BY <1>1, <1>3, <1>4, <2>1, <2>2, OwnsKept, Names
  <2>3. CASE m = l
    <3>1. \A e \in active'[l] : /\ e \in registered' /\ loopOf'[e] = l
                                /\ "HUP" \in events'[e] => HungUp(e)' /\ closes'[e] < MaxCloses
      BY <1>1, <2>1, <2>3, ActiveKept
    <3>2. c \in registered' /\ loopOf'[c] = l
      BY <1>1, <2>1, <2>3 DEF Steady
    <3> QED BY <1>3, <2>3, <3>1, <3>2 DEF Owns
  <2> QED BY <2>2, <2>3
<1>9. SendersLock'
  <2>1. ASSUME NEW t \in Senders PROVE Locks(t)'
    <3>1. Locks(t) /\ target[t] = None
      BY Names DEF SendersLock, Locks
    <3>2. CASE t = l
      <4>1. target'[t] = d
        BY <1>4, <3>2 DEF TypeOK
      <4>2. Ready(d)' /\ loopOf'[d] # l
        BY <1>7, ConnectedReady, SameQueue, QuietReady
      <4> QED BY <1>2, <1>3, <3>2, <4>1, <4>2 DEF Locks, Ready, Removing, Destroying
    <3>3. CASE t # l
      BY <1>3, <3>1, <3>3 DEF Locks, TypeOK
    <3> QED BY <3>2, <3>3
  <2>2. step'[Observer] = step[Observer]
    BY <1>3, <1>4, Names
  <2>3. Spared'
    BY RoomIsLeft DEF Spared
  <2> QED BY <2>1, <2>2, <2>3 DEF SendersLock
<1>10. \A e \in Conns : Erasing(e)' => Erasing(e)
  <2> SUFFICES ASSUME NEW e \in Conns, Erasing(e)' PROVE Erasing(e)
    OBVIOUS
  <2>1. PICK m \in Loops : step'[m] = "erase" /\ current'[m] = e
    BY DEF Erasing
  <2>2. m # l
    BY <1>3, <2>1
  <2> QED BY <1>3, <2>1, <2>2, Names DEF Erasing
<1> QED BY <1>6, <1>7, <1>8, <1>9, <1>10, QuietKeeps

\* What a login or a sign-out does to the map keeps its type.
LEMMA UserMapTyped ==
    ASSUME TypeOK, NEW u \in Users, NEW c \in Conns \cup {None},
           UserConnMap' = [UserConnMap EXCEPT ![u] = c]
    PROVE  UserConnMap' \in [Users -> Conns \cup {None}]
BY DEF TypeOK

\* A connection that an entry holds and that is connected is in the epoll set.
LEMMA EntryConnected ==
    ASSUME TypeOK, Stages, NEW d \in Range(UserConnMap) \ {None}, state[d] = "kConnected"
    PROVE  d \in Conns /\ d \in registered
<1>1. d \in Conns
  BY DEF TypeOK, Range
<1> QED BY <1>1 DEF Stages, Stage

\* and so does every message.
LEMMA onMessageKeeps ==
    ASSUME ServerInv, process = "running", NEW l \in Loops, NEW c \in active[l],
           step[l] = "dispatch",
           active' = [active EXCEPT ![l] = @ \ {c}],
           requests[c] > 0, requests' = [requests EXCEPT ![c] = @ - 1],
           UNCHANGED <<state, closes, serverVars, queue, peer, asked>>, onMessage(l, c)
    PROVE  ServerInv'
<1> USE DEF ServerInv, Typed
<1>0. /\ l \in Senders /\ c \in registered /\ c \in Conns /\ loopOf[c] = l
      /\ UserConnMap \in [Users -> Conns \cup {None}]
      /\ EndRead(l, c) => Moves(l)
  BY Names, Handled, EndReadMoves DEF TypeOK
<1>1. CASE /\ process' = "terminate"
           /\ UNCHANGED <<chatVars, channelVars, OutputBuffer, socketVars, sends, step, current>>
  <2>1. At(l, "dispatch", None)
    BY <1>1 DEF At, LoopsOwn, Owns, TypeOK
  <2>2. Moves(l)
    BY <2>1 DEF Moves
  <2> QED BY <1>0, <1>1, <2>2, MessageKeeps DEF chatVars
<1>2. CASE /\ UNCHANGED <<chatVars, process, channelVars, OutputBuffer, socketVars, sends>>
           /\ EndRead(l, c)
  BY <1>0, <1>2, MessageKeeps DEF chatVars
<1>3. CASE /\ CanSend
           /\ sendInLoop(c, Text(l))
           /\ EndRead(l, c)
           /\ \/ UNCHANGED chatVars
              \/ /\ ConnMutex = None
                 /\ \E u \in Users :
                        /\ UserConnMap[u] = None
                        /\ UserConnMap' = [UserConnMap EXCEPT ![u] = c]
                 /\ UNCHANGED <<target, ConnMutex>>
  <2>1. UserConnMap' \in [Users -> Conns \cup {None}]
    BY <1>0, <1>3, UserMapTyped DEF chatVars
  <2> QED BY <1>0, <1>3, <2>1, MessageKeeps DEF chatVars
<1>4. CASE /\ ConnMutex = None
           /\ \E u \in Users : UserConnMap' = [UserConnMap EXCEPT ![u] = None]
           /\ UNCHANGED <<target, ConnMutex, process, channelVars, OutputBuffer, socketVars, sends>>
           /\ EndRead(l, c)
  <2>1. UserConnMap' \in [Users -> Conns \cup {None}]
    BY <1>4, UserMapTyped
  <2> QED BY <1>0, <1>4, <2>1, MessageKeeps
<1>5. ASSUME NEW d \in Range(UserConnMap) \ {None}, state[d] = "kConnected", loopOf[d] = l, CanSend,
             sendInLoop(d, Text(l)), EndRead(l, c), UNCHANGED chatVars
      PROVE  ServerInv'
  <2>1. d \in registered
    BY <1>5, EntryConnected
  <2> QED BY <1>0, <1>5, <2>1, MessageKeeps DEF chatVars
<1>6. ASSUME NEW d \in Range(UserConnMap) \ {None}, state[d] = "kConnected", ConnMutex = None,
             loopOf[d] # l, Room, ConnMutex' = l,
             target' = [target EXCEPT ![l] = d], At(l, "push", c),
             UNCHANGED <<UserConnMap, process, channelVars, OutputBuffer, socketVars, sends>>
      PROVE  ServerInv'
  <2>1. d \in Conns
    BY <1>6, EntryConnected
  <2> QED BY <1>6, <2>1, ForwardKeeps
<1> QED BY <1>1, <1>2, <1>3, <1>4, <1>5, <1>6 DEF onMessage

\* handleWrite keeps it.
LEMMA WriteKeeps ==
    ASSUME ServerInv, process = "running", NEW l \in Loops, handleWrite(l)
    PROVE  ServerInv'
<1> USE DEF ServerInv, Typed
<1>1. PICK c \in registered : c = current[l] /\ loopOf[c] = l
  BY DEF handleWrite, LoopsOwn, Owns
<1>2. c \in Conns
  BY DEF TypeOK
<1>3. OutputBuffer[c] \in Seq(Parts)
  BY <1>2 DEF TypeOK
<1>4. /\ step[l] = "write" /\ active' = active
      /\ EndEvent(l)
      /\ UNCHANGED <<serverVars, state, queue, chatVars, envVars, sends, closes>>
  BY DEF handleWrite
<1>5. /\ ChannelsTyped' /\ OutputTyped' /\ Narrow
      /\ \A d \in Conns : shut'[d] = shut[d] \/ shut'[d] = (state[d] = "kDisconnected")
  <2>1. CASE UNCHANGED <<process, channelVars, OutputBuffer, socketVars>>
    BY <2>1, SameNarrow DEF ChannelsTyped, OutputTyped, TypeOK, Masks, channelVars, socketVars
  <2>2. CASE /\ Broken(c) /\ WriteFails(c)
             /\ UNCHANGED <<channelVars, OutputBuffer, shut, sndbuf, wire>>
    <3>1. error' \in [Conns -> BOOLEAN] /\ process' \in {"running", "SIGPIPE"}
      BY <1>2, <2>2, FailEffect
    <3> QED BY <2>2, <3>1, SameNarrow DEF ChannelsTyped, OutputTyped, TypeOK, Masks, channelVars
  <2>3. ASSUME Written(c, OutputBuffer[c]),
               OutputBuffer' = [OutputBuffer EXCEPT ![c] = Rest(c, OutputBuffer[c])],
               error' = error,
               \/ UNCHANGED <<process, channelVars, shut>>
               \/ /\ UpdateChannel(c, events[c] \ {"OUT"})
                  /\ shut' = [shut EXCEPT ![c] = state[c] = "kDisconnected"]
        PROVE  /\ ChannelsTyped' /\ OutputTyped' /\ Narrow
               /\ \A d \in Conns : shut'[d] = shut[d] \/ shut'[d] = (state[d] = "kDisconnected")
    <3>1. sndbuf' \in [Conns -> 0..Capacity] /\ wire' \in [Conns -> Seq(Parts)]
      BY <1>2, <1>3, <2>3, WrittenTyped
    <3>2. OutputBuffer' \in [Conns -> Seq(Parts)]
      <4>1. Rest(c, OutputBuffer[c]) \in Seq(Parts)
        BY <1>2, <1>3, TakesTyped
      <4> QED BY <1>2, <2>3, <4>1 DEF TypeOK
    <3>3. CASE UNCHANGED <<process, channelVars, shut>>
      BY <2>3, <3>1, <3>2, <3>3, SameNarrow DEF ChannelsTyped, OutputTyped, TypeOK, Masks, channelVars
    <3>4. CASE /\ UpdateChannel(c, events[c] \ {"OUT"})
               /\ shut' = [shut EXCEPT ![c] = state[c] = "kDisconnected"]
      <4>1. ChannelsTyped' /\ Narrow
        BY <3>4, MaskNarrow
      <4>2. /\ shut' \in [Conns -> BOOLEAN]
            /\ \A d \in Conns : shut'[d] = shut[d] \/ shut'[d] = (state[d] = "kDisconnected")
        BY <1>2, <3>4 DEF TypeOK
      <4> QED BY <2>3, <3>1, <3>2, <4>1, <4>2 DEF OutputTyped, TypeOK
    <3> QED BY <2>3, <3>3, <3>4
  <2> QED BY <1>1, <2>1, <2>2, <2>3 DEF handleWrite
<1>6. Quiet
  <2>1. \A d \in Conns : (shut[d] => state[d] = "kDisconnected") /\ shut[d] \in BOOLEAN
    BY DEF Stages, Stage, TypeOK
  <2> QED BY <1>4, <1>5, <2>1 DEF Quiet, serverVars, envVars
<1>7. Moves(l)
  BY <1>4, EndEventMoves
<1>8. LoopsTyped'
  BY <1>4, <1>7, MovesAt DEF LoopsTyped, TypeOK
<1>9. ChatTyped' /\ PeersTyped' /\ ServerTyped'
  BY <1>4 DEF ChatTyped, PeersTyped, Counted, ServerTyped, TypeOK, chatVars, envVars, serverVars
<1>10. Typed'
  BY <1>5, <1>8, <1>9, TypesSplitNext
<1>11. Spared'
  BY <1>4 DEF SendersLock, Spared, chatVars
<1> QED BY <1>4, <1>6, <1>7, <1>10, <1>11, QuietMove DEF chatVars


\* What a peer does is quiet.
LEMMA PeerQuiet ==
    ASSUME ServerInv, process = "running",
           UNCHANGED <<process, serverVars, state, channelVars, OutputBuffer, loopVars, chatVars,
                       shut, wire, sends, closes>>,
           PeersTyped', error' \in [Conns -> BOOLEAN], sndbuf' \in [Conns -> 0..Capacity],
           \A c \in Conns : /\ \/ peer'[c] = peer[c]
                               \/ peer[c] \in {"open", "closed"} /\ peer'[c] \in {"closed", "reset"}
                            /\ peer[c] = "closed" => peer'[c] # "open"
    PROVE  ServerInv'
<1> USE DEF ServerInv, Typed
<1>1. ChannelsTyped' /\ OutputTyped' /\ LoopsTyped'
  BY DEF ChannelsTyped, OutputTyped, LoopsTyped, TypeOK, Masks, channelVars, loopVars
<1>2. ChatTyped' /\ ServerTyped'
  BY DEF ChatTyped, ServerTyped, TypeOK, chatVars, serverVars
<1>3. Typed'
  BY <1>1, <1>2, TypesSplitNext
<1>4. Narrow
  BY SameNarrow DEF channelVars
<1>5. Quiet
  BY <1>4 DEF Quiet, serverVars
<1> QED BY <1>3, <1>5, QuietStay

\* The peers keep it.
LEMMA PeerKeeps ==
    ASSUME ServerInv, process = "running", NEW c \in Conns, Peer(c)
    PROVE  ServerInv'
<1> USE DEF ServerInv, Typed
<1>1. /\ requests[c] \in 0..MaxRequests /\ asked \in 0..MaxRequests /\ MaxRequests \in Nat
      /\ sndbuf[c] \in 0..Capacity /\ Capacity \in Nat /\ peer[c] \in {"none", "open", "closed", "reset"}
  BY ServerAssumption DEF TypeOK
<1>2. /\ peer \in [Conns -> {"none", "open", "closed", "reset"}]
      /\ requests \in [Conns -> 0..MaxRequests] /\ sends \in 0..MaxSends
      /\ error \in [Conns -> BOOLEAN] /\ sndbuf \in [Conns -> 0..Capacity]
  BY DEF TypeOK
<1>3. CASE Request(c)
  <2>1. /\ requests' = [requests EXCEPT ![c] = @ + 1] /\ asked' = asked + 1 /\ asked < MaxRequests
        /\ peer' = peer /\ sends' = sends
    BY <1>3 DEF Request
  <2>2. \A d \in Conns : requests[d] <= asked /\ requests[d] \in 0..MaxRequests
    BY <1>2 DEF Counted
  <2>3. \A d \in Conns : requests'[d] \in 0..MaxRequests /\ requests'[d] <= asked'
    BY <1>1, <1>2, <2>1, <2>2
  <2>4. PeersTyped'
    BY <1>1, <1>2, <2>1, <2>3 DEF PeersTyped, Counted
  <2> QED BY <1>2, <1>3, <2>1, <2>4, PeerQuiet DEF Request, socketVars, Counted
<1>4. CASE PeerCloses(c)
  <2>1. peer' = [peer EXCEPT ![c] = "closed"] /\ peer[c] = "open"
    BY <1>4 DEF PeerCloses
  <2>2. PeersTyped'
    BY <1>1, <1>2, <1>4, <2>1 DEF PeersTyped, Counted, PeerCloses
  <2> QED BY <1>2, <1>4, <2>1, <2>2, PeerQuiet DEF PeerCloses, socketVars
<1>5. CASE PeerResets(c)
  <2>1. peer' = [peer EXCEPT ![c] = "reset"] /\ peer[c] \in {"open", "closed"}
    BY <1>5 DEF PeerResets
  <2>2. PeersTyped'
    BY <1>1, <1>2, <1>5, <2>1 DEF PeersTyped, Counted, PeerResets
  <2>3. error' \in [Conns -> BOOLEAN]
    BY <1>2, <1>5 DEF PeerResets
  <2> QED BY <1>2, <1>5, <2>1, <2>2, <2>3, PeerQuiet DEF PeerResets
<1>6. CASE PeerReads(c)
  <2>1. sndbuf' \in [Conns -> 0..Capacity]
    BY <1>1, <1>2, <1>6 DEF PeerReads
  <2>2. PeersTyped' /\ peer' = peer
    BY <1>1, <1>2, <1>6 DEF PeersTyped, Counted, PeerReads, envVars
  <2> QED BY <1>2, <1>6, <2>1, <2>2, PeerQuiet DEF PeerReads
<1> QED BY <1>3, <1>4, <1>5, <1>6 DEF Peer

\* The observer is about to send.
LEMMA ObserveKeeps ==
    ASSUME ServerInv, process = "running", NEW d \in Conns, Observe(d)
    PROVE  ServerInv'
<1> USE DEF ServerInv, Typed
<1>1. /\ step[Observer] = "poll" /\ ConnMutex = None /\ state[d] = "kConnected" /\ Room
      /\ ConnMutex' = Observer
      /\ target' = [target EXCEPT ![Observer] = d]
      /\ step' = [step EXCEPT ![Observer] = "push"]
      /\ UNCHANGED <<process, serverVars, state, channelVars, OutputBuffer, queue, active, current,
                     UserConnMap, socketVars, envVars, sends, closes>>
  BY DEF Observe
<1>2. Observer \in Senders /\ Observer \notin Loops /\ d # None
  BY Names, ServerAssumption DEF Conns
<1>3. Typed'
  <2>1. ChannelsTyped' /\ OutputTyped' /\ PeersTyped' /\ ServerTyped'
    BY <1>1 DEF ChannelsTyped, OutputTyped, PeersTyped, ServerTyped, Counted, TypeOK, Masks,
                channelVars, socketVars, envVars, serverVars
  <2>2. ChatTyped'
    BY <1>1, <1>2 DEF ChatTyped, TypeOK
  <2>3. LoopsTyped'
    BY <1>1, <1>2 DEF LoopsTyped, TypeOK
  <2> QED BY <2>1, <2>2, <2>3, TypesSplitNext
<1>4. Quiet
  BY <1>1, SameNarrow, NarrowQuiet DEF channelVars, socketVars, envVars
<1>5. \A m \in Loops : step'[m] = step[m]
  BY <1>1, <1>2
<1>6. LoopsOwn'
  BY <1>1, <1>4, <1>5, QuietSteady, LoopsOwnStay
<1>7. \A c \in Conns : Erasing(c)' => Erasing(c)
  BY <1>1, <1>5 DEF Erasing
<1>8. SendersLock'
  <2>1. ASSUME NEW t \in Senders PROVE Locks(t)'
    <3>1. Locks(t) /\ target[t] = None
      BY <1>1, Names DEF SendersLock, Locks
    <3>2. CASE t = Observer
      <4>1. target'[t] = d /\ step'[t] = "push"
        BY <1>1, <1>2, <3>2 DEF TypeOK
      <4>2. Ready(d)'
        BY <1>1, <1>4, ConnectedReady, SameQueue, QuietReady
      <4> QED BY <1>1, <1>2, <3>2, <4>1, <4>2 DEF Locks, Ready, Removing, Destroying
    <3>3. CASE t # Observer
      BY <1>1, <1>2, <3>1, <3>3 DEF Locks, TypeOK
    <3> QED BY <3>2, <3>3
  <2>2. step'[Observer] = "push" /\ Spared'
    BY <1>1, <1>2, RoomIsLeft DEF TypeOK, Spared
  <2> QED BY <2>1, <2>2 DEF SendersLock
<1> QED BY <1>1, <1>3, <1>4, <1>6, <1>7, <1>8, QuietKeeps

\* A text that waits for the loop of its connection.
LEMMA SendQueued ==
    ASSUME TypeOK, QueuesOrdered, Stages, Quiet, NEW l \in Loops, NEW d \in registered, loopOf[d] = l,
           ~ Destroying(d), NEW text \in Sends,
           Queued(l, [do |-> "sendInLoop", conn |-> d, text |-> text])
    PROVE  /\ QueuesOrdered' /\ SameWay
           /\ queue' \in [Loops \cup {Base} -> Seq(Functors)]
<1> DEFINE f == [do |-> "sendInLoop", conn |-> d, text |-> text]
           n == Len(queue[l])
<1>1. d \in Conns /\ f \in Functors
  BY DEF TypeOK, Functors
<1>2. f.do = "sendInLoop" /\ f.conn = d
  OBVIOUS
<1> HIDE DEF f
<1>3. /\ queue' \in [Loops \cup {Base} -> Seq(Functors)]
      /\ \A m \in (Loops \cup {Base}) \ {l} : queue'[m] = queue[m]
      /\ Len(queue'[l]) = n + 1 /\ n \in Nat
      /\ \A i \in 1..n : queue'[l][i] = queue[l][i]
      /\ queue'[l][n + 1] = f
  <2>1. Queued(l, f)
    BY DEF f
  <2> QED BY <1>1, <2>1, QueueAppend DEF TypeOK
<1> HIDE DEF n
<1>4. \A i \in 1..n + 1 : i = n + 1 \/ i \in 1..n
  BY <1>3
<1>5. Base # l /\ Base \notin Loops
  BY Names
<1>6. BaseOrdered'
  BY <1>3, <1>5 DEF QueuesOrdered, BaseOrdered, Quiet
<1>7. ASSUME NEW m \in Loops PROVE InTurn(m)' /\ \A i \in 1..Len(queue'[m]) : Due(m, queue[m][i])'
  <2>1. InTurn(m) /\ \A i \in 1..Len(queue[m]) : Due(m, queue[m][i])
    BY DEF QueuesOrdered
  <2>2. CASE m # l
    BY <1>3, <2>1, <2>2 DEF InTurn, Due, Quiet, Narrow
  <2>3. CASE m = l
    <3>1. \A i \in 1..n : queue[l][i].do = "connectDestroyed" => queue[l][i].conn # d
      BY DEF Destroying, n
    <3>2. InTurn(l)'
      <4> SUFFICES ASSUME NEW i \in 1..n + 1, NEW j \in 1..n + 1, queue'[l][i].conn = queue'[l][j].conn
                   PROVE  /\ queue'[l][i].do = "connectEstablished" /\ queue'[l][j].do = "connectEstablished" => i = j
                          /\ queue'[l][i].do = "connectDestroyed" /\ queue'[l][j].do = "sendInLoop" => j < i
        BY <1>3 DEF InTurn
      <4>1. CASE i = n + 1
        BY <1>2, <1>3, <4>1
      <4>2. CASE i \in 1..n /\ j = n + 1
        BY <1>2, <1>3, <3>1, <4>2
      <4>3. CASE i \in 1..n /\ j \in 1..n
        BY <1>3, <2>1, <2>3, <4>3 DEF InTurn, n
      <4> QED BY <1>4, <4>1, <4>2, <4>3
    <3>3. ASSUME NEW i \in 1..n + 1 PROVE Due(l, queue[l][i])'
      <4>1. CASE i = n + 1
        BY <1>1, <1>2, <1>3, <4>1 DEF Due, Quiet, Narrow
      <4>2. CASE i \in 1..n
        BY <1>3, <2>1, <2>3, <4>2 DEF Due, Quiet, Narrow, n
      <4> QED BY <1>4, <4>1, <4>2
    <3> QED BY <1>3, <2>3, <3>2, <3>3
  <2> QED BY <2>2, <2>3
<1>8. ASSUME NEW c \in Conns
      PROVE  /\ Removing(c)' <=> Removing(c)
             /\ Destroying(c)' <=> Destroying(c)
             /\ OneFunctor(c) => OneFunctor(c)'
  <2>1. queue'[Base] = queue[Base]
    BY <1>3, <1>5
  <2>2. Removing(c)' <=> Removing(c)
    BY <2>1 DEF Removing
  <2>3. ASSUME NEW m \in Loops, NEW i \in 1..Len(queue'[m]), queue'[m][i].do = "connectDestroyed"
        PROVE  i \in 1..Len(queue[m]) /\ queue'[m][i] = queue[m][i]
    BY <1>2, <1>3, <1>4, <2>3 DEF n
  <2>4. ASSUME NEW m \in Loops, NEW i \in 1..Len(queue[m])
        PROVE  i \in 1..Len(queue'[m]) /\ queue'[m][i] = queue[m][i]
    BY <1>3, <2>4 DEF n
  <2>5. Destroying(c)' <=> Destroying(c)
    BY <2>3, <2>4 DEF Destroying
  <2>6. OneFunctor(c) => OneFunctor(c)'
    BY <2>1, <2>3 DEF OneFunctor
  <2> QED BY <2>2, <2>5, <2>6
<1>9. QueuesOrdered'
  BY <1>6, <1>7 DEF QueuesOrdered
<1>10. SameWay
  BY <1>8 DEF SameWay
<1> QED BY <1>3, <1>9, <1>10

\* The text that waits is the one that was spared.
LEMMA NextSend ==
    ASSUME TypeOK, SendersLock, NEW t \in Senders, ConnMutex = t, sends' = sends + 1
    PROVE  <<t, sends + 1>> \in Sends /\ sends' \in 0..MaxSends /\ sends \in Nat
<1>1. sends \in 0..MaxSends /\ MaxSends \in Nat /\ ConnMutex # None
  BY ServerAssumption, Names DEF TypeOK
<1>2. sends < MaxSends
  BY <1>1 DEF SendersLock, Spared
<1> QED BY <1>1, <1>2 DEF Sends

\* So does send from another thread,
LEMMA PushKeeps ==
    ASSUME ServerInv, process = "running", NEW t \in Senders, Push(t)
    PROVE  ServerInv'
<1> USE DEF ServerInv, Typed
<1>1. Locks(t) /\ target[t] # None /\ ConnMutex = t
  BY DEF Push, SendersLock, Locks
<1>2. PICK d \in Conns : d = target[t]
  BY <1>1 DEF TypeOK
<1>3. d \in registered /\ ~ Destroying(d) /\ state[d] # "none"
  BY <1>1, <1>2 DEF Locks, Ready, Stages, Stage
<1>4. PICK l \in Loops : loopOf[d] = l
  BY <1>3 DEF Stages, Stage
<1>5. /\ step[t] = "push" /\ sends' = sends + 1
      /\ Queued(l, [do |-> "sendInLoop", conn |-> d, text |-> <<t, sends + 1>>])
      /\ target' = [target EXCEPT ![t] = None]
      /\ ConnMutex' = None
      /\ UNCHANGED <<channelVars, active>>
      /\ UNCHANGED <<process, serverVars, state, OutputBuffer, UserConnMap, socketVars, envVars, closes>>
  BY <1>2, <1>4 DEF Push
<1>6. <<t, sends + 1>> \in Sends /\ sends' \in 0..MaxSends
  BY <1>1, <1>5, NextSend
<1>7. Quiet
  BY <1>5, SameNarrow, NarrowQuiet DEF channelVars, socketVars, envVars
<1>8. QueuesOrdered' /\ SameWay /\ queue' \in [Loops \cup {Base} -> Seq(Functors)]
  BY <1>3, <1>4, <1>5, <1>6, <1>7, SendQueued
<1>9. \A m \in Loops : Steady(m)
  BY <1>7, QuietSteady
<1>10. /\ step' \in [Senders -> {"poll", "dispatch", "push", "erase", "write"}]
       /\ current' \in [Loops -> Conns \cup {None}]
       /\ LoopsOwn' /\ \A c \in Conns : Erasing(c)' => Erasing(c)
       /\ step'[t] # "push" /\ \A u \in Senders \ {t} : step'[u] = step[u]
       /\ step'[Observer] \in {"poll", "push"}
  <2>1. CASE t = Observer /\ step' = [step EXCEPT ![t] = "poll"] /\ current' = current
    <3>1. \A m \in Loops : step'[m] = step[m]
      BY <2>1, Names
    <3>2. /\ step' \in [Senders -> {"poll", "dispatch", "push", "erase", "write"}]
          /\ step'[t] = "poll" /\ \A u \in Senders \ {t} : step'[u] = step[u]
      BY <2>1, Names DEF TypeOK
    <3>3. LoopsOwn'
      BY <1>5, <1>9, <2>1, <3>1, LoopsOwnStay
    <3>4. \A c \in Conns : Erasing(c)' => Erasing(c)
      BY <2>1, <3>1 DEF Erasing
    <3>5. current' \in [Loops -> Conns \cup {None}]
      BY <2>1 DEF TypeOK
    <3> QED BY <2>1, <3>2, <3>3, <3>4, <3>5
  <2>2. CASE t # Observer /\ EndRead(t, current[t])
    <3>1. t \in Loops
      BY <2>2 DEF Senders
    <3>2. current[t] \in registered /\ loopOf[current[t]] = t
      BY <1>5, <3>1 DEF LoopsOwn, Owns
    <3>3. Moves(t)
      BY <2>2, <3>1, <3>2, EndReadMoves
    <3>4. /\ step' \in [Senders -> {"poll", "dispatch", "push", "erase", "write"}]
          /\ current' \in [Loops -> Conns \cup {None}]
          /\ step'[t] \in {"poll", "dispatch", "write"} /\ \A u \in Senders \ {t} : step'[u] = step[u]
      BY <3>1, <3>3, MovesAt
    <3>5. LoopsOwn'
      BY <1>5, <1>9, <3>1, <3>3, LoopsOwnMoved
    <3>6. \A c \in Conns : Erasing(c)' => Erasing(c)
      BY <3>1, <3>3, MovesErases
    <3>7. step'[Observer] \in {"poll", "push"}
      BY <2>2, <3>4, Names DEF SendersLock
    <3> QED BY <3>4, <3>5, <3>6, <3>7
  <2> QED BY <2>1, <2>2 DEF Push
<1>11. Typed'
  <2>1. ChannelsTyped' /\ OutputTyped' /\ PeersTyped' /\ ServerTyped'
    BY <1>5, <1>6 DEF ChannelsTyped, OutputTyped, PeersTyped, ServerTyped, Counted, TypeOK, Masks,
                channelVars, socketVars, envVars, serverVars
  <2>2. ChatTyped'
    BY <1>5 DEF ChatTyped, TypeOK
  <2>3. LoopsTyped'
    BY <1>5, <1>8, <1>10 DEF LoopsTyped, TypeOK
  <2> QED BY <2>1, <2>2, <2>3, TypesSplitNext
<1>12. SendersLock'
  <2>1. ASSUME NEW u \in Senders PROVE Locks(u)'
    <3>1. CASE u = t
      BY <1>5, <1>10, <3>1 DEF Locks, TypeOK
    <3>2. CASE u # t
      <4>1. Locks(u) /\ target[u] = None
        BY <1>1, <3>2 DEF SendersLock, Locks
      <4> QED BY <1>5, <1>10, <3>2, <4>1 DEF Locks, TypeOK
    <3> QED BY <3>1, <3>2
  <2>2. Spared'
    BY <1>5 DEF Spared
  <2> QED BY <1>10, <2>1, <2>2 DEF SendersLock
<1>13. LeaveInTurn' /\ RemovedOnce'
  BY <1>5, <1>7, <1>8, <1>10, QuietLeave
<1> QED BY <1>7, <1>8, <1>10, <1>11, <1>12, <1>13, QuietStages, QuietDeaf, QuietRest

\* A removal that waits for the base loop.
LEMMA RemovalQueued ==
    ASSUME TypeOK, QueuesOrdered, Quiet, NEW c \in Conns, state[c] = "kDisconnected",
           Queued(Base, [do |-> "removeConnectionInLoop", conn |-> c])
    PROVE  /\ QueuesOrdered' /\ queue' \in [Loops \cup {Base} -> Seq(Functors)]
           /\ \A d \in Conns : /\ Removing(d)' => Removing(d) \/ d = c
                               /\ Destroying(d)' <=> Destroying(d)
                               /\ OneFunctor(d) /\ (d = c => ~ Removing(d)) => OneFunctor(d)'
<1> DEFINE f == [do |-> "removeConnectionInLoop", conn |-> c]
           n == Len(queue[Base])
<1>1. f \in Functors /\ Base \in Loops \cup {Base}
  BY DEF Functors
<1>2. f.do = "removeConnectionInLoop" /\ f.conn = c
  OBVIOUS
<1> HIDE DEF f
<1>3. /\ queue' \in [Loops \cup {Base} -> Seq(Functors)]
      /\ \A m \in (Loops \cup {Base}) \ {Base} : queue'[m] = queue[m]
      /\ Len(queue'[Base]) = n + 1 /\ n \in Nat
      /\ \A i \in 1..n : queue'[Base][i] = queue[Base][i]
      /\ queue'[Base][n + 1] = f
  <2>1. Queued(Base, f)
    BY DEF f
  <2> QED BY <1>1, <2>1, QueueAppend DEF TypeOK
<1> HIDE DEF n
<1>4. \A i \in 1..n + 1 : i = n + 1 \/ i \in 1..n
  BY <1>3
<1>5. \A m \in Loops : queue'[m] = queue[m]
  BY <1>3, Names
<1>6. BaseOrdered'
  BY <1>2, <1>3, <1>4 DEF QueuesOrdered, BaseOrdered, Quiet, n
<1>7. ASSUME NEW m \in Loops PROVE InTurn(m)' /\ \A i \in 1..Len(queue'[m]) : Due(m, queue[m][i])'
  <2>1. InTurn(m) /\ \A i \in 1..Len(queue[m]) : Due(m, queue[m][i])
    BY DEF QueuesOrdered
  <2> QED BY <1>5, <2>1 DEF InTurn, Due, Quiet, Narrow
<1>8. ASSUME NEW d \in Conns
      PROVE  /\ Removing(d)' => Removing(d) \/ d = c
             /\ Destroying(d)' <=> Destroying(d)
             /\ OneFunctor(d) /\ (d = c => ~ Removing(d)) => OneFunctor(d)'
  <2>1. Destroying(d)' <=> Destroying(d)
    BY <1>5 DEF Destroying
  <2>2. Removing(d)' => Removing(d) \/ d = c
    BY <1>2, <1>3, <1>4 DEF Removing, n
  <2>3. ASSUME OneFunctor(d), d = c => ~ Removing(d) PROVE OneFunctor(d)'
    <3>1. ASSUME NEW i \in 1..n + 1, NEW j \in 1..n + 1, queue'[Base][i].conn = d, queue'[Base][j].conn = d
          PROVE  i = j
      <4>1. d = c => \A k \in 1..n : queue'[Base][k].conn # d
        BY <1>3, <2>3 DEF Removing, n
      <4>2. CASE i \in 1..n /\ j \in 1..n
        BY <1>3, <2>3, <3>1, <4>2 DEF OneFunctor, n
      <4>3. CASE i = n + 1
        BY <1>2, <1>3, <1>4, <3>1, <4>1, <4>3
      <4>4. CASE j = n + 1
        BY <1>2, <1>3, <1>4, <3>1, <4>1, <4>4
      <4> QED BY <1>4, <4>2, <4>3, <4>4
    <3> QED BY <1>3, <1>5, <2>3, <3>1 DEF OneFunctor
  <2> QED BY <2>1, <2>2, <2>3
<1>9. QueuesOrdered'
  BY <1>6, <1>7 DEF QueuesOrdered
<1> QED BY <1>3, <1>8, <1>9

\* the rest of handleClose,
LEMMA EndCloseKeeps ==
    ASSUME ServerInv, process = "running", NEW l \in Loops, EndClose(l)
    PROVE  ServerInv'
<1> USE DEF ServerInv, Typed
<1>1. PICK c \in Conns : /\ c = current[l] /\ c \in registered /\ loopOf[c] = l
                         /\ state[c] = "kDisconnected"
  BY DEF EndClose, LoopsOwn, Owns, TypeOK
<1>2. /\ step[l] = "erase" /\ ConnMutex = None
      /\ EraseOne(c)
      /\ Queued(Base, [do |-> "removeConnectionInLoop", conn |-> c])
      /\ UNCHANGED <<channelVars, active>>
      /\ EndEvent(l)
      /\ UNCHANGED <<process, serverVars, state, OutputBuffer, target, ConnMutex, socketVars, envVars,
                     sends, closes>>
  BY <1>1 DEF EndClose
<1>3. Quiet
  BY <1>2, SameNarrow, NarrowQuiet DEF channelVars, socketVars, envVars
<1>4. /\ QueuesOrdered' /\ queue' \in [Loops \cup {Base} -> Seq(Functors)]
      /\ \A d \in Conns : /\ Removing(d)' => Removing(d) \/ d = c
                          /\ Destroying(d)' <=> Destroying(d)
                          /\ OneFunctor(d) /\ (d = c => ~ Removing(d)) => OneFunctor(d)'
  BY <1>1, <1>2, <1>3, RemovalQueued
<1>5. Moves(l)
  BY <1>2, EndEventMoves
<1>6. \A m \in Loops : Steady(m)
  BY <1>3, QuietSteady
<1>7. LoopsOwn' /\ SendersLock'
  BY <1>2, <1>5, <1>6, LoopsOwnMoved, MovesLocks, SparedKept DEF serverVars
<1>8. Erasing(c)
  BY <1>1, <1>2 DEF Erasing
<1>9. \A d \in Conns : Erasing(d)' => Erasing(d) /\ d # c
  <2> SUFFICES ASSUME NEW d \in Conns, Erasing(d)' PROVE Erasing(d) /\ d # c
    OBVIOUS
  <2>1. PICK m \in Loops : step'[m] = "erase" /\ current'[m] = d
    BY DEF Erasing
  <2>2. m # l
    BY <1>5, <2>1, MovesAt
  <2>3. step[m] = "erase" /\ current[m] = d
    BY <1>5, <2>1, <2>2, MovesAt, Names
  <2>4. loopOf[d] = m
    BY <2>3 DEF LoopsOwn, Owns
  <2> QED BY <1>1, <2>2, <2>3, <2>4 DEF Erasing
<1>10. Typed'
  <2>1. ChannelsTyped' /\ OutputTyped' /\ PeersTyped' /\ ServerTyped'
    BY <1>2 DEF ChannelsTyped, OutputTyped, PeersTyped, ServerTyped, Counted, TypeOK, Masks,
                channelVars, socketVars, envVars, serverVars
  <2>2. ChatTyped'
    <3>1. CASE UserConnMap' = UserConnMap
      BY <1>2, <3>1 DEF ChatTyped, TypeOK
    <3>2. CASE \E u \in Users : UserConnMap' = [UserConnMap EXCEPT ![u] = None]
      BY <1>2, <3>2, UserMapTyped DEF ChatTyped, TypeOK
    <3> QED BY <1>2, <3>1, <3>2 DEF EraseOne
  <2>3. LoopsTyped'
    BY <1>2, <1>4, <1>5, MovesAt DEF LoopsTyped, TypeOK
  <2> QED BY <2>1, <2>2, <2>3, TypesSplitNext
<1>11. closes' = closes /\ registered' = registered /\ Connections' = Connections
  BY <1>2 DEF channelVars, serverVars
<1>12. LeaveInTurn'
  <2> SUFFICES ASSUME NEW d \in Conns PROVE Leaving(d)'
    BY DEF LeaveInTurn
  <2>1. Leaving(d) /\ Leaving(c)
    BY DEF LeaveInTurn
  <2> QED BY <1>2, <1>4, <1>8, <1>9, <1>11, <2>1 DEF Leaving
<1>13. RemovedOnce'
  <2> SUFFICES ASSUME NEW d \in Conns PROVE Once(d)'
    BY DEF RemovedOnce
  <2>1. Once(d)
    BY DEF RemovedOnce
  <2> QED BY <1>1, <1>4, <1>8, <1>9, <1>11, <2>1 DEF Once
<1> QED BY <1>3, <1>4, <1>7, <1>10, <1>12, <1>13, QuietStages, QuietDeaf, QuietRest

-----------------------------------------------------------------------------
(* The actions that are not quiet.                                          *)

\* The base loop hands the removal on to the connection's loop.
LEMMA RemovalMoves ==
    ASSUME TypeOK, QueuesOrdered, NEW c \in Conns, NEW l \in Loops, NEW f \in Functors,
           c = queue[Base][1].conn, state[c] = "kDisconnected", loopOf[c] = l,
           f = [do |-> "connectDestroyed", conn |-> c],
           queue[Base] # <<>>, queue[Base] \in Seq(Functors), queue[l] \in Seq(Functors),
           queue'[Base] = Tail(queue[Base]), queue'[l] = Append(queue[l], f),
           \A m \in Loops \ {l} : queue'[m] = queue[m],
           UNCHANGED <<state, loopOf, registered>>
    PROVE  /\ QueuesOrdered' /\ Removing(c) /\ Destroying(c)'
           /\ \A d \in Conns : /\ Removing(d)' => Removing(d)
                               /\ OneFunctor(d) => ~ Removing(c)' \/ d # c
                               /\ d # c => (Destroying(d)' <=> Destroying(d))
                               /\ OneFunctor(d) /\ (d = c => ~ Destroying(d)) => OneFunctor(d)'
<1> DEFINE n == Len(queue[l])
           k == Len(queue[Base])
<1>1. f.do = "connectDestroyed" /\ f.conn = c
  OBVIOUS
<1>2. /\ k \in Nat \ {0} /\ Len(queue'[Base]) = k - 1
      /\ \A i \in 1..k - 1 : queue'[Base][i] = queue[Base][i + 1]
  BY TailFacts
<1>3. /\ n \in Nat /\ Len(queue'[l]) = n + 1
      /\ \A i \in 1..n : queue'[l][i] = queue[l][i]
      /\ queue'[l][n + 1] = f
  BY AppendProperties
<1> HIDE DEF n, k
<1>4. /\ \A i \in 1..n + 1 : i = n + 1 \/ i \in 1..n
      /\ \A i \in 1..k - 1 : i + 1 \in 1..k /\ i + 1 # 1
      /\ 1 \in 1..k
  BY <1>2, <1>3
<1>5. BaseOrdered'
  BY <1>2, <1>4 DEF QueuesOrdered, BaseOrdered, k
<1>6. ASSUME NEW m \in Loops PROVE InTurn(m)' /\ \A i \in 1..Len(queue'[m]) : Due(m, queue[m][i])'
  <2>1. InTurn(m) /\ \A i \in 1..Len(queue[m]) : Due(m, queue[m][i])
    BY DEF QueuesOrdered
  <2>2. CASE m # l
    BY <2>1, <2>2 DEF InTurn, Due
  <2>3. CASE m = l
    <3>1. InTurn(l)'
      <4> SUFFICES ASSUME NEW i \in 1..n + 1, NEW j \in 1..n + 1, queue'[l][i].conn = queue'[l][j].conn
                   PROVE  /\ queue'[l][i].do = "connectEstablished" /\ queue'[l][j].do = "connectEstablished" => i = j
                          /\ queue'[l][i].do = "connectDestroyed" /\ queue'[l][j].do = "sendInLoop" => j < i
        BY <1>3 DEF InTurn
      <4>1. CASE i = n + 1
        BY <1>1, <1>3, <1>4, <4>1
      <4>2. CASE i \in 1..n /\ j = n + 1
        BY <1>1, <1>3, <4>2
      <4>3. CASE i \in 1..n /\ j \in 1..n
        BY <1>3, <2>1, <2>3, <4>3 DEF InTurn, n
      <4> QED BY <1>4, <4>1, <4>2, <4>3
    <3>2. ASSUME NEW i \in 1..n + 1 PROVE Due(l, queue[l][i])'
      <4>1. CASE i = n + 1
        BY <1>1, <1>3, <4>1 DEF Due
      <4>2. CASE i \in 1..n
        BY <1>3, <2>1, <2>3, <4>2 DEF Due, n
      <4> QED BY <1>4, <4>1, <4>2
    <3> QED BY <1>3, <2>3, <3>1, <3>2
  <2> QED BY <2>2, <2>3
<1>7. QueuesOrdered'
  BY <1>5, <1>6 DEF QueuesOrdered
<1>8. Removing(c)
  BY <1>4 DEF Removing, k
<1>9. Destroying(c)'
  <2>1. n + 1 \in 1..Len(queue'[l])
    BY <1>3
  <2> QED BY <1>1, <1>3, <2>1 DEF Destroying
<1>10. ASSUME NEW d \in Conns
       PROVE  /\ Removing(d)' => Removing(d)
              /\ OneFunctor(d) => ~ Removing(c)' \/ d # c
              /\ d # c => (Destroying(d)' <=> Destroying(d))
              /\ OneFunctor(d) /\ (d = c => ~ Destroying(d)) => OneFunctor(d)'
  <2>1. Removing(d)' => Removing(d)
    BY <1>2, <1>4 DEF Removing, k
  <2>2. OneFunctor(c) => ~ Removing(c)'
    <3> SUFFICES ASSUME OneFunctor(c), NEW i \in 1..Len(queue'[Base]), queue'[Base][i].conn = c PROVE FALSE
      BY DEF Removing
    <3>1. i \in 1..k - 1 /\ queue[Base][i + 1].conn = c
      BY <1>2
    <3> QED BY <1>4, <3>1 DEF OneFunctor, k
  <2>3. ASSUME d # c, Destroying(d)' PROVE Destroying(d)
    <3>1. PICK m \in Loops : \E i \in 1..Len(queue'[m]) :
                                queue'[m][i].do = "connectDestroyed" /\ queue'[m][i].conn = d
      BY <2>3 DEF Destroying
    <3>2. CASE m = l
      BY <1>1, <1>3, <1>4, <2>3, <3>1, <3>2 DEF Destroying, n
    <3>3. CASE m # l
      BY <3>1, <3>3 DEF Destroying
    <3> QED BY <3>2, <3>3
  <2>4. ASSUME Destroying(d) PROVE Destroying(d)'
    <3>1. PICK m \in Loops : \E i \in 1..Len(queue[m]) :
                                queue[m][i].do = "connectDestroyed" /\ queue[m][i].conn = d
      BY <2>4 DEF Destroying
    <3>2. CASE m = l
      <4>1. PICK i \in 1..n : queue[l][i].do = "connectDestroyed" /\ queue[l][i].conn = d
        BY <3>1, <3>2 DEF n
      <4>2. i \in 1..Len(queue'[l]) /\ queue'[l][i] = queue[l][i]
        BY <1>3
      <4> QED BY <4>1, <4>2 DEF Destroying
    <3>3. CASE m # l
      BY <3>1, <3>3 DEF Destroying
    <3> QED BY <3>2, <3>3
  <2>5. ASSUME OneFunctor(d), d = c => ~ Destroying(d) PROVE OneFunctor(d)'
    <3>1. ASSUME NEW i \in 1..k - 1, NEW j \in 1..k - 1, queue'[Base][i].conn = d, queue'[Base][j].conn = d
          PROVE  i = j
      <4>1. queue[Base][i + 1].conn = d /\ queue[Base][j + 1].conn = d
        BY <1>2, <3>1
      <4>2. i + 1 = j + 1
        BY <1>4, <2>5, <4>1 DEF OneFunctor, k
      <4> QED BY <1>2, <4>2
    <3>2. ASSUME NEW i \in 1..n + 1, NEW j \in 1..n + 1,
                 queue'[l][i].do = "connectDestroyed", queue'[l][j].do = "connectDestroyed",
                 queue'[l][i].conn = d, queue'[l][j].conn = d
          PROVE  i = j
      <4>1. d = c => \A h \in 1..n : queue[l][h].do = "connectDestroyed" => queue[l][h].conn # d
        BY <2>5 DEF Destroying, n
      <4>2. CASE i \in 1..n /\ j \in 1..n
        <5>1. queue'[l][i] = queue[l][i] /\ queue'[l][j] = queue[l][j]
          BY <1>3, <4>2
        <5> QED BY <2>5, <3>2, <4>2, <5>1 DEF OneFunctor, n
      <4>3. CASE i = n + 1 /\ j \in 1..n
        <5>1. queue'[l][i] = f /\ queue'[l][j] = queue[l][j]
          BY <1>3, <4>3
        <5> QED BY <1>1, <3>2, <4>1, <4>3, <5>1
      <4>4. CASE j = n + 1 /\ i \in 1..n
        <5>1. queue'[l][j] = f /\ queue'[l][i] = queue[l][i]
          BY <1>3, <4>4
        <5> QED BY <1>1, <3>2, <4>1, <4>4, <5>1
      <4> QED BY <1>4, <4>2, <4>3, <4>4
    <3>3. ASSUME NEW m \in Loops \ {l}, NEW i \in 1..Len(queue'[m]), NEW j \in 1..Len(queue'[m]),
                 queue'[m][i].do = "connectDestroyed", queue'[m][j].do = "connectDestroyed",
                 queue'[m][i].conn = d, queue'[m][j].conn = d
          PROVE  i = j
      <4>1. queue'[m] = queue[m]
        OBVIOUS
      <4> QED BY <2>5, <3>3, <4>1 DEF OneFunctor
    <3>4. ASSUME NEW m \in Loops, NEW i \in 1..Len(queue'[m]), NEW j \in 1..Len(queue'[m]),
                 queue'[m][i].do = "connectDestroyed", queue'[m][j].do = "connectDestroyed",
                 queue'[m][i].conn = d, queue'[m][j].conn = d
          PROVE  i = j
      <4>1. CASE m = l
        BY <1>3, <3>2, <3>4, <4>1
      <4>2. CASE m # l
        BY <3>3, <3>4, <4>2
      <4> QED BY <4>1, <4>2
    <3> QED BY <1>2, <3>1, <3>4 DEF OneFunctor
  <2> QED BY <2>1, <2>2, <2>3, <2>4, <2>5
<1> QED BY <1>7, <1>8, <1>9, <1>10

\* removeConnectionInLoop,
LEMMA RemoveKeeps ==
    ASSUME ServerInv, process = "running", RemoveConnectionInLoop
    PROVE  ServerInv'
<1> USE DEF ServerInv, Typed
<1>1. /\ UNCHANGED <<process, NextLoop, loopOf, state, channelVars, OutputBuffer, step, active, current,
                     chatVars, socketVars, envVars, sends, closes>>
  BY DEF RemoveConnectionInLoop
<1>2. PICK c \in Conns, l \in Loops, f \in Functors :
        /\ c = queue[Base][1].conn /\ state[c] = "kDisconnected" /\ loopOf[c] = l
        /\ f = [do |-> "connectDestroyed", conn |-> c]
        /\ queue[Base] # <<>> /\ queue[Base] \in Seq(Functors) /\ queue[l] \in Seq(Functors)
        /\ Connections' = Connections \ {c}
        /\ queue' \in [Loops \cup {Base} -> Seq(Functors)]
        /\ queue'[Base] = Tail(queue[Base]) /\ queue'[l] = Append(queue[l], f)
        /\ \A m \in Loops \ {l} : queue'[m] = queue[m]
  BY Removes
<1>3. /\ QueuesOrdered' /\ Removing(c) /\ Destroying(c)'
      /\ \A d \in Conns : /\ Removing(d)' => Removing(d)
                          /\ OneFunctor(d) => ~ Removing(c)' \/ d # c
                          /\ d # c => (Destroying(d)' <=> Destroying(d))
                          /\ OneFunctor(d) /\ (d = c => ~ Destroying(d)) => OneFunctor(d)'
  BY <1>1, <1>2, RemovalMoves DEF channelVars
<1>4. Typed'
  BY RemoveTyped
<1>5. Stages' /\ ClosedAreDeaf' /\ Numbered' /\ CloseOnce'
  <2>1. Stages'
    <3> SUFFICES ASSUME NEW d \in Conns PROVE Stage(d)'
      BY DEF Stages
    <3>1. Stage(d)
      BY DEF Stages
    <3> QED BY <1>1, <1>2, <3>1 DEF Stage, channelVars, socketVars, envVars
  <2>2. ClosedAreDeaf'
    BY <1>1 DEF ClosedAreDeaf, Deaf, channelVars
  <2>3. Numbered'
    BY <1>1 DEF Numbered
  <2>4. CloseOnce'
    BY <1>1 DEF CloseOnce, HungUp, envVars, socketVars
  <2> QED BY <2>1, <2>2, <2>3, <2>4
<1>6. \A m \in Loops : Steady(m)
  BY <1>1 DEF Steady, channelVars, socketVars, envVars, HungUp
<1>7. LoopsOwn'
  BY <1>1, <1>6, LoopsOwnStay
<1>8. SendersLock'
  <2>1. ASSUME NEW d \in Conns, Ready(d) PROVE Ready(d)'
    <3>1. d # c
      BY <1>3, <2>1 DEF Ready
    <3> QED BY <1>1, <1>3, <2>1, <3>1 DEF Ready, channelVars
  <2> QED BY <1>1, <2>1, LocksKept, SparedKept DEF chatVars
<1>9. \A d \in Conns : Erasing(d)' <=> Erasing(d)
  BY <1>1 DEF Erasing
<1>10. closes' = closes /\ registered' = registered
  BY <1>1 DEF channelVars
<1>11. LeaveInTurn'
  <2> SUFFICES ASSUME NEW d \in Conns PROVE Leaving(d)'
    BY DEF LeaveInTurn
  <2>1. Leaving(d)
    BY DEF LeaveInTurn
  <2> QED BY <1>2, <1>3, <1>9, <1>10, <2>1 DEF Leaving
<1>12. RemovedOnce'
  <2> SUFFICES ASSUME NEW d \in Conns PROVE Once(d)'
    BY DEF RemovedOnce
  <2>1. Once(d)
    BY DEF RemovedOnce
  <2> QED BY <1>2, <1>3, <1>9, <1>10, <2>1 DEF Once
<1> QED BY <1>3, <1>4, <1>5, <1>7, <1>8, <1>11, <1>12

\* newConnection: the functor is the only one of a connection nobody knows,
LEMMA NewConnectionKeeps ==
    ASSUME ServerInv, process = "running", NewConnection
    PROVE  ServerInv'
<1> USE DEF ServerInv, Typed
<1>1. PICK c \in Nat : c = Cardinality({d \in Conns : state[d] # "none"}) + 1
  <2> DEFINE k == Cardinality({d \in Conns : state[d] # "none"})
  <2>1. k \in Nat
    BY CountIsNat
  <2> HIDE DEF k
  <2>2. k + 1 \in Nat
    BY <2>1
  <2> QED BY <2>2 DEF k
<1>2. c \in Conns /\ \A d \in Conns : state[d] # "none" <=> d < c
  <2>1. c <= MaxConns
    BY <1>1 DEF NewConnection
  <2> QED BY <1>1, <2>1, NextNumber
<1>3. PICK l \in Loops : l = IoLoops[NextLoop + 1]
  BY LoopInTurn
<1>4. /\ loopOf' = [loopOf EXCEPT ![c] = l]
      /\ state' = [state EXCEPT ![c] = "kConnecting"]
      /\ \E garbage \in SUBSET {"OUT"} : events' = [events EXCEPT ![c] = garbage]
      /\ Connections' = Connections \cup {c}
      /\ Queued(l, [do |-> "connectEstablished", conn |-> c])
      /\ peer' = [peer EXCEPT ![c] = "open"]
      /\ UNCHANGED <<process, registered, interest, OutputBuffer, step, active, current,
                     chatVars, socketVars, requests, asked, sends, closes>>
  BY <1>1, <1>3 DEF NewConnection
<1>5. Typed'
  BY NewConnectionTyped
<1>6. /\ state[c] = "none" /\ c \notin registered /\ closes[c] = 0 /\ ~ shut[c] /\ peer[c] = "none"
      /\ ~ Removing(c) /\ ~ Destroying(c) /\ ~ Erasing(c)
  BY <1>2 DEF Stages, Stage, LeaveInTurn, Leaving, TypeOK, Conns
<1>7. ASSUME NEW d \in Conns, d # c
      PROVE  state'[d] = state[d] /\ loopOf'[d] = loopOf[d] /\ events'[d] = events[d] /\ peer'[d] = peer[d]
  BY <1>4, <1>7 DEF TypeOK
<1>8. /\ state'[c] = "kConnecting" /\ loopOf'[c] = l /\ events'[c] \subseteq {"OUT"} /\ peer'[c] = "open"
  BY <1>2, <1>4 DEF TypeOK
<1>9. /\ closes' = closes /\ registered' = registered /\ shut' = shut /\ sends' = sends
      /\ interest' = interest /\ process' = process
      /\ UNCHANGED <<step, active, current, target, ConnMutex>>
  BY <1>4 DEF chatVars, socketVars
<1>10. \A d \in registered : d \in Conns /\ d # c
  BY <1>6 DEF TypeOK
<1>11. Stages'
  <2> SUFFICES ASSUME NEW d \in Conns PROVE Stage(d)'
    BY DEF Stages
  <2>1. Stage(d)
    BY DEF Stages
  <2>2. CASE d = c
    BY <1>4, <1>6, <1>8, <1>9, <2>2 DEF Stage
  <2>3. CASE d # c
    BY <1>4, <1>7, <1>9, <2>1, <2>3 DEF Stage
  <2> QED BY <2>2, <2>3
<1>12. ClosedAreDeaf'
  BY <1>6, <1>7, <1>8, <1>9 DEF ClosedAreDeaf, Deaf
<1>13. Numbered'
  <2>1. c \in 0..MaxConns /\ \A d \in Conns : d < c \/ d = c <=> d <= c
    BY <1>2, ServerAssumption DEF Conns
  <2>2. \A d \in Conns : state'[d] # "none" <=> d <= c
    BY <1>2, <1>7, <1>8, <2>1
  <2> QED BY <2>1, <2>2 DEF Numbered
<1>14. CloseOnce'
  <2> SUFFICES ASSUME NEW d \in Conns PROVE closes'[d] <= 1 \/ HungUp(d)'
    BY DEF CloseOnce
  <2> QED BY <1>6, <1>7, <1>9 DEF CloseOnce, HungUp
<1>15. \A m \in Loops : Steady(m)
  BY <1>7, <1>9, <1>10 DEF Steady, HungUp
<1>16. LoopsOwn'
  BY <1>9, <1>15, LoopsOwnStay
<1>18. \A d \in Conns : Erasing(d)' <=> Erasing(d)
  BY <1>9 DEF Erasing
<1> DEFINE f == [do |-> "connectEstablished", conn |-> c]
           n == Len(queue[l])
<1>19. f \in Functors /\ f.do = "connectEstablished" /\ f.conn = c
  BY <1>2 DEF Functors
<1>20. Queued(l, f)
  BY <1>4
<1> HIDE DEF f
<1>21. /\ \A m \in (Loops \cup {Base}) \ {l} : queue'[m] = queue[m]
       /\ Len(queue'[l]) = n + 1 /\ n \in Nat
       /\ \A i \in 1..n : queue'[l][i] = queue[l][i]
       /\ queue'[l][n + 1] = f
  BY <1>19, <1>20, QueueAppend DEF TypeOK
<1> HIDE DEF n
<1>22. \A i \in 1..n + 1 : i = n + 1 \/ i \in 1..n
  BY <1>21
<1>23. queue'[Base] = queue[Base] /\ \A m \in Loops \ {l} : queue'[m] = queue[m]
  BY <1>21, Names
<1>24. ASSUME NEW m \in Loops, NEW i \in 1..Len(queue[m])
       PROVE  queue[m][i].conn \in Conns /\ queue[m][i].conn # c
  <2>1. queue[m] \in Seq(Functors)
    BY DEF TypeOK
  <2>2. queue[m][i] \in Functors
    BY <2>1
  <2>3. /\ queue[m][i].conn \in Conns
        /\ queue[m][i].do \in {"connectEstablished", "removeConnectionInLoop", "connectDestroyed", "sendInLoop"}
    BY <2>2 DEF Functors
  <2>4. Due(m, queue[m][i])
    BY DEF QueuesOrdered
  <2> QED BY <1>6, <1>10, <2>3, <2>4 DEF Due
<1>25. BaseOrdered'
  <2> SUFFICES ASSUME NEW i \in 1..Len(queue[Base])
               PROVE  queue[Base][i].do = "removeConnectionInLoop" /\ state'[queue[Base][i].conn] = "kDisconnected"
    BY <1>23 DEF BaseOrdered
  <2>1. queue[Base][i].do = "removeConnectionInLoop" /\ state[queue[Base][i].conn] = "kDisconnected"
    BY DEF QueuesOrdered, BaseOrdered
  <2>2. queue[Base][i].conn \in Conns
    <3>1. queue[Base] \in Seq(Functors)
      BY DEF TypeOK
    <3>2. queue[Base][i] \in Functors
      BY <3>1
    <3> QED BY <3>2 DEF Functors
  <2> QED BY <1>6, <1>7, <2>1, <2>2
<1>26. ASSUME NEW m \in Loops PROVE InTurn(m)' /\ \A i \in 1..Len(queue'[m]) : Due(m, queue[m][i])'
  <2>1. InTurn(m) /\ \A i \in 1..Len(queue[m]) : Due(m, queue[m][i])
    BY DEF QueuesOrdered
  <2>2. \A i \in 1..Len(queue[m]) :
           /\ state'[queue[m][i].conn] = state[queue[m][i].conn]
           /\ loopOf'[queue[m][i].conn] = loopOf[queue[m][i].conn]
    BY <1>7, <1>24
  <2>3. CASE m # l
    BY <1>9, <1>23, <2>1, <2>2, <2>3 DEF InTurn, Due
  <2>4. CASE m = l
    <3>1. InTurn(l)'
      <4> SUFFICES ASSUME NEW i \in 1..n + 1, NEW j \in 1..n + 1, queue'[l][i].conn = queue'[l][j].conn
                   PROVE  /\ queue'[l][i].do = "connectEstablished" /\ queue'[l][j].do = "connectEstablished" => i = j
                          /\ queue'[l][i].do = "connectDestroyed" /\ queue'[l][j].do = "sendInLoop" => j < i
        BY <1>21 DEF InTurn
      <4>1. \A k \in 1..n : queue'[l][k].conn # c
        BY <1>21, <1>24 DEF n
      <4>2. CASE i = n + 1 /\ j = n + 1
        BY <1>19, <1>21, <4>2
      <4>3. CASE i \in 1..n /\ j \in 1..n
        BY <1>21, <2>1, <2>4, <4>3 DEF InTurn, n
      <4> QED BY <1>19, <1>21, <1>22, <4>1, <4>2, <4>3
    <3>2. ASSUME NEW i \in 1..n + 1 PROVE Due(l, queue[l][i])'
      <4>1. CASE i = n + 1
        BY <1>8, <1>19, <1>21, <4>1 DEF Due
      <4>2. CASE i \in 1..n
        <5>1. queue'[l][i] = queue[l][i] /\ i \in 1..Len(queue[l])
          BY <1>21, <4>2 DEF n
        <5>2. Due(l, queue[l][i])
          BY <2>1, <2>4, <5>1
        <5>3. /\ state'[queue[l][i].conn] = state[queue[l][i].conn]
              /\ loopOf'[queue[l][i].conn] = loopOf[queue[l][i].conn]
          BY <2>2, <2>4, <5>1
        <5> QED BY <1>9, <5>1, <5>2, <5>3 DEF Due
      <4> QED BY <1>22, <4>1, <4>2
    <3> QED BY <1>21, <2>4, <3>1, <3>2
  <2> QED BY <2>3, <2>4
<1>27. ASSUME NEW m \in Loops, NEW i \in 1..Len(queue'[m]), queue'[m][i].do = "connectDestroyed"
       PROVE  i \in 1..Len(queue[m]) /\ queue'[m][i] = queue[m][i]
  BY <1>19, <1>21, <1>22, <1>23, <1>27 DEF n
<1>28. ASSUME NEW m \in Loops, NEW i \in 1..Len(queue[m])
       PROVE  i \in 1..Len(queue'[m]) /\ queue'[m][i] = queue[m][i]
  BY <1>21, <1>23, <1>28 DEF n
<1>29. ASSUME NEW d \in Conns
       PROVE  /\ Removing(d)' <=> Removing(d)
              /\ Destroying(d)' <=> Destroying(d)
              /\ OneFunctor(d) => OneFunctor(d)'
  <2>1. Removing(d)' <=> Removing(d)
    BY <1>23 DEF Removing
  <2>2. Destroying(d)' <=> Destroying(d)
    BY <1>27, <1>28 DEF Destroying
  <2>3. OneFunctor(d) => OneFunctor(d)'
    BY <1>23, <1>27 DEF OneFunctor
  <2> QED BY <2>1, <2>2, <2>3
<1>17. SendersLock'
  <2>1. ASSUME NEW d \in Conns, Ready(d) PROVE Ready(d)' /\ loopOf'[d] = loopOf[d]
    BY <1>7, <1>9, <1>10, <1>29, <2>1 DEF Ready
  <2> QED BY <1>9, <2>1, LocksKept, SparedKept
<1>30. LeaveInTurn'
  <2> SUFFICES ASSUME NEW d \in Conns PROVE Leaving(d)'
    BY DEF LeaveInTurn
  <2>1. Leaving(d)
    BY DEF LeaveInTurn
  <2> QED BY <1>4, <1>9, <1>18, <1>29, <2>1 DEF Leaving
<1>31. RemovedOnce'
  <2> SUFFICES ASSUME NEW d \in Conns PROVE Once(d)'
    BY DEF RemovedOnce
  <2>1. Once(d)
    BY DEF RemovedOnce
  <2> QED BY <1>9, <1>18, <1>29, <2>1 DEF Once
<1>32. QueuesOrdered'
  BY <1>25, <1>26 DEF QueuesOrdered
<1> QED BY <1>5, <1>11, <1>12, <1>13, <1>14, <1>16, <1>17, <1>30, <1>31, <1>32

\* poll: a hang-up is reported of one that hung up,
LEMMA PollKeeps ==
    ASSUME ServerInv, process = "running", NEW l \in Loops, Poll(l)
    PROVE  ServerInv'
<1> USE DEF ServerInv, Typed
<1> DEFINE ready == {c \in registered : loopOf[c] = l /\ Revents(c) # {} /\ Mapped}
<1>1. /\ step[l] = "poll" /\ ready \in SUBSET registered /\ registered \in SUBSET Conns
      /\ events' = [c \in Conns |-> IF c \in ready THEN Revents(c) ELSE events[c]]
      /\ active' = [active EXCEPT ![l] = ready]
      /\ step' = [step EXCEPT ![l] = "dispatch"]
      /\ UNCHANGED <<process, serverVars, state, registered, interest, OutputBuffer, queue, current,
                     chatVars, socketVars, envVars, sends, closes>>
      /\ \A c \in ready : loopOf[c] = l
  BY DEF Poll, TypeOK
<1>2. Typed'
  BY PollTyped
<1>3. ASSUME NEW c \in Conns
      PROVE  /\ "IN" \in Revents(c) => "IN" \in interest[c]
             /\ "HUP" \in Revents(c) => HungUp(c) /\ closes[c] < MaxCloses
  BY DEF Revents
<1> HIDE DEF ready
<1>4. l \in Senders /\ \A m \in Loops : m \in Senders
  BY Names
<1>5. /\ step'[l] = "dispatch" /\ active'[l] = ready
      /\ \A t \in Senders \ {l} : step'[t] = step[t]
      /\ \A m \in Loops \ {l} : active'[m] = active[m]
  BY <1>1, <1>4 DEF TypeOK
<1>6. LoopsOwn'
  <2> SUFFICES ASSUME NEW m \in Loops PROVE Owns(m)'
    BY DEF LoopsOwn
  <2>1. Owns(m)
    BY DEF LoopsOwn
  <2>2. CASE m = l
    <3>1. \A c \in ready : /\ c \in registered' /\ loopOf'[c] = l
                           /\ "HUP" \in events'[c] => HungUp(c)' /\ closes'[c] < MaxCloses
      BY <1>1, <1>3 DEF HungUp, serverVars, socketVars, envVars
    <3>2. current'[l] = None
      BY <1>1, <2>1, <2>2 DEF Owns
    <3> QED BY <1>5, <2>2, <3>1, <3>2 DEF Owns
  <2>3. CASE m # l
    <3>1. Steady(m)
      BY <1>1, <2>3 DEF Steady, HungUp, serverVars, socketVars, envVars
    <3> QED BY <1>1, <1>4, <1>5, <2>1, <2>3, <3>1, OwnsKept
  <2> QED BY <2>2, <2>3
<1>7. ClosedAreDeaf'
  <2> SUFFICES ASSUME NEW c \in Conns PROVE Deaf(c)'
    BY DEF ClosedAreDeaf
  <2>1. Deaf(c)
    BY DEF ClosedAreDeaf
  <2>2. events'[c] = Revents(c) \/ events'[c] = events[c]
    BY <1>1
  <2> QED BY <1>1, <1>3, <2>1, <2>2 DEF Deaf
<1>8. Stages' /\ Numbered' /\ CloseOnce' /\ QueuesOrdered'
  <2>1. Stages'
    BY <1>1 DEF Stages, Stage, serverVars, socketVars, envVars
  <2>2. Numbered' /\ CloseOnce'
    BY <1>1 DEF Numbered, CloseOnce, HungUp, socketVars, envVars
  <2>3. QueuesOrdered'
    BY <1>1 DEF QueuesOrdered, BaseOrdered, InTurn, Due, serverVars
  <2> QED BY <2>1, <2>2, <2>3
<1>9. SendersLock'
  <2>1. step'[Observer] = step[Observer]
    BY <1>5, Names
  <2>2. \A t \in Senders : step'[t] = "push" <=> step[t] = "push"
    BY <1>1, <1>5
  <2>3. \A c \in Conns : Ready(c) => Ready(c)'
    BY <1>1 DEF Ready, Removing, Destroying
  <2> QED BY <1>1, <2>1, <2>2, <2>3, LocksKept, SparedKept DEF chatVars, serverVars
<1>10. \A c \in Conns : /\ Erasing(c)' => Erasing(c)
                        /\ Removing(c)' <=> Removing(c)
                        /\ Destroying(c)' <=> Destroying(c)
                        /\ OneFunctor(c)' <=> OneFunctor(c)
  <2>1. queue' = queue
    BY <1>1
  <2>2. ASSUME NEW c \in Conns, Erasing(c)' PROVE Erasing(c)
    <3>1. PICK m \in Loops : step'[m] = "erase" /\ current'[m] = c
      BY <2>2 DEF Erasing
    <3>2. m # l
      BY <1>5, <3>1
    <3> QED BY <1>1, <1>4, <1>5, <3>1, <3>2 DEF Erasing
  <2> QED BY <2>1, <2>2 DEF Removing, Destroying, OneFunctor
<1>11. closes' = closes /\ registered' = registered /\ Connections' = Connections
  BY <1>1 DEF serverVars
<1>12. LeaveInTurn'
  <2> SUFFICES ASSUME NEW d \in Conns PROVE Leaving(d)'
    BY DEF LeaveInTurn
  <2>1. Leaving(d)
    BY DEF LeaveInTurn
  <2> QED BY <1>10, <1>11, <2>1 DEF Leaving
<1>13. RemovedOnce'
  <2> SUFFICES ASSUME NEW d \in Conns PROVE Once(d)'
    BY DEF RemovedOnce
  <2>1. Once(d)
    BY DEF RemovedOnce
  <2> QED BY <1>10, <1>11, <2>1 DEF Once
<1> QED BY <1>2, <1>6, <1>7, <1>8, <1>9, <1>12, <1>13

\* handleClose of a connection whose peer is gone: for the first time, or after
\* both directions are down.
LEMMA CloseKeeps ==
    ASSUME ServerInv, process = "running", NEW l \in Loops, NEW c \in active[l],
           step[l] = "dispatch", active' = [active EXCEPT ![l] = @ \ {c}], BeginClose(l, c),
           closes[c] < MaxCloses, closes[c] = 0 \/ HungUp(c), peer[c] \in {"closed", "reset"},
           UNCHANGED <<serverVars, OutputBuffer, queue, chatVars, socketVars, envVars, sends>>
    PROVE  ServerInv'
<1> USE DEF ServerInv, Typed
<1>1. /\ c \in Conns /\ c \in registered /\ loopOf[c] = l
      /\ active'[l] = active[l] \ {c}
      /\ \A m \in Loops \ {l} : active'[m] = active[m]
  BY Handled
<1>2. /\ ChannelsTyped' /\ Narrow
      /\ events'[c] = {} /\ (process' = "running" => interest'[c] = {})
      /\ state'[c] = "kDisconnected" /\ closes'[c] = closes[c] + 1 /\ closes[c] \in Nat
      /\ \A d \in Conns \ {c} : state'[d] = state[d] /\ closes'[d] = closes[d]
      /\ At(l, "erase", c)
  BY <1>1, CloseEffect
<1>3. Typed'
  <2>1. OutputTyped' /\ ChatTyped' /\ PeersTyped'
    BY DEF OutputTyped, ChatTyped, PeersTyped, TypeOK, Counted, chatVars, socketVars, envVars
  <2> QED BY <2>1, CloseTyped
<1>4. /\ step'[l] = "erase" /\ current'[l] = c
      /\ \A t \in Senders \ {l} : step'[t] = step[t]
      /\ \A m \in Loops \ {l} : current'[m] = current[m]
  BY <1>1, <1>2, AtTyped
<1>5. /\ loopOf' = loopOf /\ Connections' = Connections /\ registered' = registered
      /\ UNCHANGED <<target, ConnMutex, peer, shut, sends>>
  BY <1>2 DEF serverVars, chatVars, envVars, socketVars, Narrow
<1>6. \A d \in Conns : HungUp(d)' <=> HungUp(d)
  BY <1>5 DEF HungUp
<1>7. \A d \in registered : d \in Conns /\ state[d] \in {"kConnected", "kDisconnected"}
  BY DEF TypeOK, Stages, Stage
<1>8. LoopsOwn'
  <2> SUFFICES ASSUME NEW m \in Loops PROVE Owns(m)'
    BY DEF LoopsOwn
  <2>1. Owns(m)
    BY DEF LoopsOwn
  <2>2. CASE m = l
    <3>1. ASSUME NEW d \in active'[l]
          PROVE  /\ d \in registered' /\ loopOf'[d] = l
                 /\ "HUP" \in events'[d] => HungUp(d)' /\ closes'[d] < MaxCloses
      <4>1. d \in active[l] /\ d # c
        BY <1>1
      <4>2. d \in registered /\ loopOf[d] = l /\ ("HUP" \in events[d] => HungUp(d) /\ closes[d] < MaxCloses)
        BY <2>1, <2>2, <4>1 DEF Owns
      <4>3. d \in Conns /\ ("HUP" \in events'[d] => "HUP" \in events[d])
        BY <1>2, <1>7, <4>2 DEF Narrow
      <4> QED BY <1>2, <1>5, <1>6, <4>1, <4>2, <4>3
    <3> QED BY <1>1, <1>2, <1>4, <1>5, <2>2, <3>1 DEF Owns
  <2>3. CASE m # l
    <3>1. Steady(m)
      <4> SUFFICES ASSUME NEW d \in registered, loopOf[d] = m
                   PROVE  /\ d \in registered' /\ loopOf'[d] = m
                          /\ "HUP" \in events'[d] => "HUP" \in events[d]
                          /\ closes'[d] = closes[d]
                          /\ state[d] = "kDisconnected" => state'[d] = "kDisconnected"
                          /\ HungUp(d) => HungUp(d)'
        BY DEF Steady
      <4>1. d \in Conns /\ d # c
        BY <1>1, <1>7, <2>3
      <4>2. "HUP" \in events'[d] => "HUP" \in events[d]
        BY <1>2, <4>1 DEF Narrow
      <4> QED BY <1>2, <1>5, <1>6, <4>1, <4>2
    <3> QED BY <1>1, <1>4, <2>1, <2>3, <3>1, OwnsKept, Names
  <2> QED BY <2>2, <2>3
<1>9. ClosedAreDeaf'
  <2> SUFFICES ASSUME NEW d \in Conns PROVE Deaf(d)'
    BY DEF ClosedAreDeaf
  <2>1. Deaf(d) /\ events'[d] \subseteq events[d] \cup {"OUT"}
        /\ interest'[d] \subseteq interest[d] \cup events[d] \cup {"OUT"}
    BY <1>2 DEF ClosedAreDeaf, Narrow
  <2>2. CASE d = c
    BY <1>2, <2>2 DEF Deaf
  <2>3. CASE d # c
    BY <1>2, <2>1, <2>3 DEF Deaf
  <2> QED BY <2>2, <2>3
<1>10. Stages'
  <2> SUFFICES ASSUME NEW d \in Conns PROVE Stage(d)'
    BY DEF Stages
  <2>1. Stage(d)
    BY DEF Stages
  <2>2. CASE d = c
    BY <1>1, <1>2, <1>5, <2>1, <2>2 DEF Stage
  <2>3. CASE d # c
    BY <1>2, <1>5, <2>1, <2>3 DEF Stage
  <2> QED BY <2>2, <2>3
<1>11. Numbered'
  <2>1. \A d \in Conns : state'[d] # "none" <=> state[d] # "none"
    BY <1>1, <1>2, <1>7
  <2> QED BY <2>1 DEF Numbered
<1>12. CloseOnce'
  <2> SUFFICES ASSUME NEW d \in Conns PROVE closes'[d] <= 1 \/ HungUp(d)'
    BY DEF CloseOnce
  <2> QED BY <1>2, <1>6 DEF CloseOnce
<1>13. QueuesOrdered'
  <2>1. \A d : state[d] = "kDisconnected" /\ d \in Conns => state'[d] = "kDisconnected"
    BY <1>2
  <2>2. ASSUME NEW m \in Loops \cup {Base}, NEW i \in 1..Len(queue[m])
        PROVE  queue[m][i].conn \in Conns
    <3>1. queue[m] \in Seq(Functors)
      BY DEF TypeOK
    <3>2. queue[m][i] \in Functors
      BY <3>1
    <3> QED BY <3>2 DEF Functors
  <2>3. BaseOrdered'
    BY <2>1, <2>2 DEF QueuesOrdered, BaseOrdered
  <2>4. ASSUME NEW m \in Loops PROVE InTurn(m)' /\ \A i \in 1..Len(queue'[m]) : Due(m, queue[m][i])'
    <3>1. InTurn(m)'
      BY DEF QueuesOrdered, InTurn
    <3>2. ASSUME NEW i \in 1..Len(queue[m]) PROVE Due(m, queue[m][i])'
      <4>1. Due(m, queue[m][i])
        BY DEF QueuesOrdered
      <4>2. queue[m][i].conn \in Conns /\ state[c] # "kConnecting"
        BY <1>1, <1>7, <2>2
      <4> QED BY <1>2, <1>5, <2>1, <4>1, <4>2 DEF Due
    <3> QED BY <3>1, <3>2
  <2> QED BY <2>3, <2>4 DEF QueuesOrdered
<1>14. SendersLock'
  <2>1. step'[Observer] = step[Observer]
    BY <1>4, Names
  <2>2. \A t \in Senders : step'[t] = "push" <=> step[t] = "push"
    BY <1>4
  <2>3. \A d \in Conns : Ready(d) => Ready(d)'
    BY <1>5, SameQueue DEF SameWay, Ready
  <2> QED BY <1>5, <2>1, <2>2, <2>3, LocksKept, SparedKept
<1>15. ASSUME NEW d \in Conns, d # c, Erasing(d)' PROVE Erasing(d)
  <2>1. PICK m \in Loops : step'[m] = "erase" /\ current'[m] = d
    BY <1>15 DEF Erasing
  <2>2. m # l
    BY <1>4, <1>15, <2>1
  <2> QED BY <1>4, <2>1, <2>2, Names DEF Erasing
<1>16. \A d \in Conns : /\ Removing(d)' <=> Removing(d)
                        /\ Destroying(d)' <=> Destroying(d)
                        /\ OneFunctor(d) => OneFunctor(d)'
  BY SameQueue DEF SameWay
<1>17. LeaveInTurn'
  <2> SUFFICES ASSUME NEW d \in Conns PROVE Leaving(d)'
    BY DEF LeaveInTurn
  <2>1. Leaving(d)
    BY DEF LeaveInTurn
  <2>2. CASE d = c
    BY <1>2, <1>5, <1>16, <2>1, <2>2 DEF Leaving
  <2>3. CASE d # c
    BY <1>2, <1>5, <1>15, <1>16, <2>1, <2>3 DEF Leaving
  <2> QED BY <2>2, <2>3
<1>18. RemovedOnce'
  <2> SUFFICES ASSUME NEW d \in Conns PROVE Once(d)'
    BY DEF RemovedOnce
  <2>1. Once(d) /\ Leaving(d)
    BY DEF RemovedOnce, LeaveInTurn
  <2>2. CASE d = c
    BY <1>2, <1>16, <2>1, <2>2 DEF Once, Leaving
  <2>3. CASE d # c
    BY <1>2, <1>5, <1>15, <1>16, <2>1, <2>3 DEF Once
  <2> QED BY <2>2, <2>3
<1> QED BY <1>3, <1>8, <1>9, <1>10, <1>11, <1>12, <1>13, <1>14, <1>17, <1>18

\* HandleEvent of a hang-up,
LEMMA HangupKeeps ==
    ASSUME ServerInv, process = "running", NEW l \in Loops, HandleHangup(l)
    PROVE  ServerInv'
<1> USE DEF ServerInv, Typed
<1>1. PICK c \in active[l] :
        /\ step[l] = "dispatch"
        /\ "HUP" \in events[c]
        /\ active' = [active EXCEPT ![l] = @ \ {c}]
        /\ BeginClose(l, c)
        /\ UNCHANGED <<serverVars, OutputBuffer, queue, chatVars, socketVars, envVars, sends>>
  BY DEF HandleHangup
<1>2. HungUp(c) /\ closes[c] < MaxCloses
  BY <1>1 DEF LoopsOwn, Owns
<1>3. peer[c] \in {"closed", "reset"}
  BY <1>2 DEF HungUp
<1> QED BY <1>1, <1>2, <1>3, CloseKeeps

\* and the read callback.
LEMMA handleReadKeeps ==
    ASSUME ServerInv, process = "running", NEW l \in Loops, handleRead(l)
    PROVE  ServerInv'
<1> USE DEF ServerInv, Typed
<1>1. PICK c \in active[l] :
        /\ step[l] = "dispatch"
        /\ "IN" \in events[c]
        /\ active' = [active EXCEPT ![l] = @ \ {c}]
        /\ \/ /\ requests[c] > 0
              /\ requests' = [requests EXCEPT ![c] = @ - 1]
              /\ onMessage(l, c)
              /\ UNCHANGED <<state, closes>>
           \/ /\ requests[c] = 0 /\ error[c]
              /\ error' = [error EXCEPT ![c] = FALSE]
              /\ UNCHANGED <<process, state, channelVars, OutputBuffer, chatVars, shut, sndbuf, wire,
                             requests, sends, closes>>
              /\ EndRead(l, c)
           \/ /\ requests[c] = 0 /\ ~ error[c] /\ peer[c] # "open"
              /\ BeginClose(l, c)
              /\ UNCHANGED <<requests, chatVars, OutputBuffer, socketVars, sends>>
        /\ UNCHANGED <<serverVars, queue, peer, asked>>
  BY DEF handleRead
<1>2. c \in Conns /\ c \in registered
  BY <1>1, Handled
<1>3. CASE requests[c] > 0 /\ requests' = [requests EXCEPT ![c] = @ - 1] /\ onMessage(l, c)
           /\ UNCHANGED <<state, closes>>
  BY <1>1, <1>3, onMessageKeeps
<1>4. CASE /\ error' = [error EXCEPT ![c] = FALSE]
           /\ UNCHANGED <<process, state, channelVars, OutputBuffer, chatVars, shut, sndbuf, wire,
                          requests, sends, closes>>
           /\ EndRead(l, c)
  <2>1. ChannelsTyped' /\ OutputTyped' /\ PeersTyped' /\ ChatTyped'
    BY <1>1, <1>2, <1>4 DEF ChannelsTyped, OutputTyped, PeersTyped, ChatTyped, Counted, TypeOK, Masks,
                            channelVars, chatVars
  <2>2. Narrow
    BY <1>4, SameNarrow DEF channelVars
  <2>3. Moves(l) /\ Spared'
    BY <1>1, <1>4, Handled, EndReadMoves, SparedKept DEF chatVars
  <2> QED BY <1>1, <1>4, <2>1, <2>2, <2>3, HandledKeeps DEF chatVars
<1>5. CASE /\ peer[c] # "open"
           /\ BeginClose(l, c)
           /\ UNCHANGED <<requests, chatVars, OutputBuffer, socketVars, sends>>
  <2>1. closes[c] = 0
    BY <1>1, <1>2 DEF ClosedAreDeaf, Deaf
  <2>2. closes[c] < MaxCloses
    BY <2>1, ServerAssumption
  <2>3. peer[c] \in {"closed", "reset"}
    BY <1>2, <1>5 DEF TypeOK, Stages, Stage
  <2> QED BY <1>1, <1>5, <2>1, <2>2, <2>3, CloseKeeps DEF envVars
<1> QED BY <1>1, <1>3, <1>4, <1>5

\* A functor f leaves the head of queue l, and the others stay in their turn.
Taken(l, f) ==
    /\ f \in Functors /\ Due(l, f) /\ f.conn \in Conns
    /\ queue' \in [Loops \cup {Base} -> Seq(Functors)]
    /\ queue'[Base] = queue[Base]
    /\ \A m \in Loops : InTurn(m)'
    /\ \A m \in Loops : \A i \in 1..Len(queue'[m]) :
          /\ Due(m, queue'[m][i]) /\ queue'[m][i].conn \in Conns
          /\ queue'[m][i].conn = f.conn =>
                /\ f.do = "connectEstablished" => queue'[m][i].do # "connectEstablished"
                /\ f.do = "connectDestroyed" => queue'[m][i].do # "sendInLoop"
    /\ f.do = "connectDestroyed" => Destroying(f.conn)
    /\ \A d \in Conns :
          /\ Removing(d)' <=> Removing(d)
          /\ Destroying(d)' => Destroying(d)
          /\ Destroying(d) => Destroying(d)' \/ (f.do = "connectDestroyed" /\ f.conn = d)
          /\ OneFunctor(d) => OneFunctor(d)'
          /\ OneFunctor(d) /\ f.do = "connectDestroyed" /\ f.conn = d => ~ Destroying(d)'

\* This is what Run does to the queue.
LEMMA HeadTaken ==
    ASSUME TypeOK, QueuesOrdered, NEW l \in Loops, queue[l] # <<>>,
           queue' = [queue EXCEPT ![l] = Tail(@)]
    PROVE  Taken(l, Head(queue[l]))
<1> DEFINE f == Head(queue[l])
           n == Len(queue[l])
<1>1. queue \in [Loops \cup {Base} -> Seq(Functors)] /\ queue[l] \in Seq(Functors)
  BY DEF TypeOK
<1>2. /\ Tail(queue[l]) \in Seq(Functors) /\ n \in Nat \ {0} /\ Len(Tail(queue[l])) = n - 1
      /\ f \in Functors /\ f = queue[l][1]
      /\ \A i \in 1..n - 1 : Tail(queue[l])[i] = queue[l][i + 1]
  BY <1>1, TailFacts
<1>3. /\ queue' \in [Loops \cup {Base} -> Seq(Functors)]
      /\ queue'[l] = Tail(queue[l])
      /\ \A m \in (Loops \cup {Base}) \ {l} : queue'[m] = queue[m]
  BY <1>1, <1>2
<1> HIDE DEF f, n
<1>4. /\ Len(queue'[l]) = n - 1
      /\ \A i \in 1..n - 1 : /\ queue'[l][i] = queue[l][i + 1]
                             /\ i + 1 \in 2..n
      /\ 1 \in 1..n
      /\ \A i \in 2..n : i - 1 \in 1..n - 1 /\ i = (i - 1) + 1
  BY <1>2, <1>3
<1>5. queue'[Base] = queue[Base] /\ \A m \in Loops \ {l} : queue'[m] = queue[m]
  BY <1>3, Names
<1>6. Due(l, f) /\ f.conn \in Conns
  BY <1>2, <1>4 DEF QueuesOrdered, n, Functors
\* Where the functors come from that are left.
<1>7. ASSUME NEW m \in Loops, NEW i \in 1..Len(queue'[m])
      PROVE  \E j \in 1..Len(queue[m]) : queue'[m][i] = queue[m][j] /\ (m = l => j # 1)
  <2>1. CASE m # l
    BY <1>5, <2>1
  <2>2. CASE m = l
    <3>1. i \in 1..n - 1
      BY <1>4, <2>2
    <3>2. i + 1 \in 1..n /\ i + 1 # 1 /\ queue'[l][i] = queue[l][i + 1]
      BY <1>2, <1>4, <3>1
    <3> QED BY <2>2, <3>2 DEF n
  <2> QED BY <2>1, <2>2
<1>8. ASSUME NEW m \in Loops, NEW i \in 1..Len(queue'[m])
      PROVE  /\ Due(m, queue'[m][i]) /\ queue'[m][i].conn \in Conns
             /\ queue'[m][i].conn = f.conn =>
                   /\ f.do = "connectEstablished" => queue'[m][i].do # "connectEstablished"
                   /\ f.do = "connectDestroyed" => queue'[m][i].do # "sendInLoop"
  <2>1. PICK j \in 1..Len(queue[m]) : queue'[m][i] = queue[m][j] /\ (m = l => j # 1)
    BY <1>7
  <2>2. Due(m, queue[m][j])
    BY DEF QueuesOrdered
  <2>3. queue[m][j].conn \in Conns
    <3>1. queue[m] \in Seq(Functors)
      BY <1>1
    <3>2. queue[m][j] \in Functors
      BY <3>1
    <3> QED BY <3>2 DEF Functors
  <2>4. ASSUME queue[m][j].conn = f.conn
        PROVE  /\ f.do = "connectEstablished" => queue[m][j].do # "connectEstablished"
               /\ f.do = "connectDestroyed" => queue[m][j].do # "sendInLoop"
    <3>1. m = l
      BY <1>6, <2>2, <2>4 DEF Due
    <3>2. InTurn(l) /\ j \in 1..n /\ j # 1
      BY <2>1, <3>1 DEF QueuesOrdered, n
    <3> QED BY <1>2, <1>4, <2>4, <3>1, <3>2 DEF InTurn, n
  <2> QED BY <2>1, <2>2, <2>3, <2>4
<1>9. ASSUME NEW m \in Loops PROVE InTurn(m)'
  <2>1. InTurn(m)
    BY DEF QueuesOrdered
  <2>2. CASE m # l
    BY <1>5, <2>1, <2>2 DEF InTurn
  <2>3. CASE m = l
    <3>1. ASSUME NEW i \in 1..n - 1, NEW j \in 1..n - 1, queue'[l][i].conn = queue'[l][j].conn
          PROVE  /\ queue'[l][i].do = "connectEstablished" /\ queue'[l][j].do = "connectEstablished" => i = j
                 /\ queue'[l][i].do = "connectDestroyed" /\ queue'[l][j].do = "sendInLoop" => j < i
      <4>1. /\ queue'[l][i] = queue[l][i + 1] /\ queue'[l][j] = queue[l][j + 1]
            /\ i + 1 \in 1..n /\ j + 1 \in 1..n
        BY <1>2, <1>4
      <4>2. /\ queue[l][i + 1].do = "connectEstablished" /\ queue[l][j + 1].do = "connectEstablished" => i + 1 = j + 1
            /\ queue[l][i + 1].do = "connectDestroyed" /\ queue[l][j + 1].do = "sendInLoop" => j + 1 < i + 1
        BY <2>1, <2>3, <3>1, <4>1 DEF InTurn, n
      <4> QED BY <1>2, <4>1, <4>2
    <3>2. Len(queue'[m]) = n - 1 /\ queue'[m] = queue'[l]
      BY <1>4, <2>3
    <3>3. ASSUME NEW i \in 1..Len(queue'[m]), NEW j \in 1..Len(queue'[m]),
                 queue'[m][i].conn = queue'[m][j].conn
          PROVE  /\ queue'[m][i].do = "connectEstablished" /\ queue'[m][j].do = "connectEstablished" => i = j
                 /\ queue'[m][i].do = "connectDestroyed" /\ queue'[m][j].do = "sendInLoop" => j < i
      <4>1. i \in 1..n - 1 /\ j \in 1..n - 1 /\ queue'[l][i].conn = queue'[l][j].conn
        BY <3>2, <3>3
      <4> QED BY <2>3, <3>1, <4>1
    <3> QED BY <3>3, Zenon DEF InTurn
  <2> QED BY <2>2, <2>3
<1>10. f.do = "connectDestroyed" => Destroying(f.conn)
  BY <1>2, <1>4 DEF Destroying, n
<1>11. ASSUME NEW d \in Conns
       PROVE  /\ Removing(d)' <=> Removing(d)
              /\ Destroying(d)' => Destroying(d)
              /\ Destroying(d) => Destroying(d)' \/ (f.do = "connectDestroyed" /\ f.conn = d)
              /\ OneFunctor(d) => OneFunctor(d)'
              /\ OneFunctor(d) /\ f.do = "connectDestroyed" /\ f.conn = d => ~ Destroying(d)'
  <2>1. Removing(d)' <=> Removing(d)
    BY <1>5 DEF Removing
  <2>2. Destroying(d)' => Destroying(d)
    <3> SUFFICES ASSUME NEW m \in Loops, NEW i \in 1..Len(queue'[m]),
                        queue'[m][i].do = "connectDestroyed", queue'[m][i].conn = d
                 PROVE  Destroying(d)
      BY DEF Destroying
    <3>1. PICK j \in 1..Len(queue[m]) : queue'[m][i] = queue[m][j]
      BY <1>7
    <3>2. queue[m][j].do = "connectDestroyed" /\ queue[m][j].conn = d
      BY <3>1
    <3> QED BY <3>2 DEF Destroying
  <2>3. ASSUME Destroying(d) PROVE Destroying(d)' \/ (f.do = "connectDestroyed" /\ f.conn = d)
    <3>1. PICK m \in Loops : \E i \in 1..Len(queue[m]) :
                                queue[m][i].do = "connectDestroyed" /\ queue[m][i].conn = d
      BY <2>3 DEF Destroying
    <3>2. PICK i \in 1..Len(queue[m]) : queue[m][i].do = "connectDestroyed" /\ queue[m][i].conn = d
      BY <3>1
    <3>3. CASE m # l
      BY <1>5, <3>2, <3>3 DEF Destroying
    <3>4. CASE m = l /\ i = 1
      BY <1>2, <3>2, <3>4
    <3>5. CASE m = l /\ i # 1
      <4>1. i \in 2..n
        BY <1>2, <3>5 DEF n
      <4>2. i - 1 \in 1..Len(queue'[l]) /\ queue'[l][i - 1] = queue[l][i]
        BY <1>2, <1>4, <4>1
      <4> QED BY <3>2, <3>5, <4>2 DEF Destroying
    <3> QED BY <3>3, <3>4, <3>5
  <2>4. ASSUME OneFunctor(d), NEW i \in 1..n - 1, NEW j \in 1..n - 1,
               queue'[l][i].do = "connectDestroyed", queue'[l][j].do = "connectDestroyed",
               queue'[l][i].conn = d, queue'[l][j].conn = d
        PROVE  i = j
    <3>1. /\ queue'[l][i] = queue[l][i + 1] /\ queue'[l][j] = queue[l][j + 1]
          /\ i + 1 \in 1..n /\ j + 1 \in 1..n
      BY <1>2, <1>4
    <3>2. i + 1 = j + 1
      BY <2>4, <3>1 DEF OneFunctor, n
    <3> QED BY <1>2, <3>2
  <2>5. OneFunctor(d) => OneFunctor(d)'
    <3> SUFFICES ASSUME OneFunctor(d), NEW m \in Loops,
                        NEW i \in 1..Len(queue'[m]), NEW j \in 1..Len(queue'[m]),
                        queue'[m][i].do = "connectDestroyed", queue'[m][j].do = "connectDestroyed",
                        queue'[m][i].conn = d, queue'[m][j].conn = d
                 PROVE  i = j
      BY <1>5 DEF OneFunctor
    <3>1. CASE m # l
      BY <1>5, <3>1 DEF OneFunctor
    <3>2. CASE m = l
      BY <1>4, <2>4, <3>2
    <3> QED BY <3>1, <3>2
  <2>6. ASSUME OneFunctor(d), f.do = "connectDestroyed", f.conn = d, Destroying(d)' PROVE FALSE
    <3>1. PICK m \in Loops : \E i \in 1..Len(queue'[m]) :
                                queue'[m][i].do = "connectDestroyed" /\ queue'[m][i].conn = d
      BY <2>6 DEF Destroying
    <3>2. PICK i \in 1..Len(queue'[m]) : queue'[m][i].do = "connectDestroyed" /\ queue'[m][i].conn = d
      BY <3>1
    <3>3. PICK j \in 1..Len(queue[m]) : queue'[m][i] = queue[m][j] /\ (m = l => j # 1)
      BY <1>7
    <3>4. m = l
      BY <1>6, <1>8, <2>6, <3>2 DEF Due
    <3>5. j \in 1..n /\ queue[l][j].do = "connectDestroyed" /\ queue[l][j].conn = d /\ j # 1
      BY <3>2, <3>3, <3>4 DEF n
    <3> QED BY <1>2, <1>4, <2>6, <3>5 DEF OneFunctor, n
  <2> QED BY <2>1, <2>2, <2>3, <2>5, <2>6
<1>12. Taken(l, f)
  BY <1>2, <1>3, <1>5, <1>6, <1>8, <1>9, <1>10, <1>11 DEF Taken
<1> QED BY <1>12 DEF f

\* The text that goes out, whatever its bytes are by then.
LEMMA TextTyped ==
    ASSUME NEW send \in Sends, NEW bytes \in {"own", "freed"}
    PROVE  /\ TextOf(send, bytes) \in Texts
           /\ TextOf(send, bytes)[1] = send[1] /\ TextOf(send, bytes)[2] = send[2]
           /\ TextOf(send, bytes)[3] = bytes
BY DEF Sends, Texts, TextOf

\* A queued text is sent: quiet, but for the queue.
LEMMA RunSendKeeps ==
    ASSUME ServerInv, process = "running", NEW l \in Loops, queue[l] # <<>>,
           queue' = [queue EXCEPT ![l] = Tail(@)],
           UNCHANGED <<serverVars, step, active, current, chatVars, envVars, sends, closes>>,
           NEW f, f = Head(queue[l]), f.do = "sendInLoop", NEW bytes \in {"own", "freed"},
           sendInLoop(f.conn, TextOf(f.text, bytes)), state' = state
    PROVE  ServerInv'
<1> USE DEF ServerInv, Typed
<1>1. /\ Due(l, f) /\ f \in Functors /\ f.conn \in Conns
      /\ queue' \in [Loops \cup {Base} -> Seq(Functors)]
      /\ queue'[Base] = queue[Base]
      /\ \A m \in Loops : InTurn(m)'
      /\ \A m \in Loops : \A i \in 1..Len(queue'[m]) : Due(m, queue'[m][i]) /\ queue'[m][i].conn \in Conns
      /\ \A d \in Conns :
            /\ Removing(d)' <=> Removing(d)
            /\ Destroying(d)' => Destroying(d)
            /\ Destroying(d) => Destroying(d)' \/ (f.do = "connectDestroyed" /\ f.conn = d)
            /\ OneFunctor(d) => OneFunctor(d)'
  <2>1. Taken(l, f)
    BY HeadTaken
  <2> QED BY <2>1 DEF Taken
<1>2. f.conn \in registered /\ TextOf(f.text, bytes) \in Texts
  BY <1>1, TextTyped DEF Due, Functors
<1>3. ChannelsTyped' /\ OutputTyped' /\ Narrow /\ shut' = shut
  BY <1>2, SendEffect
<1>4. Quiet
  BY <1>3, NarrowQuiet DEF envVars
<1>5. SameWay
  BY <1>1 DEF SameWay
<1>6. QueuesOrdered'
  <2>1. BaseOrdered'
    BY <1>1 DEF QueuesOrdered, BaseOrdered
  <2>2. ASSUME NEW m \in Loops, NEW i \in 1..Len(queue'[m]) PROVE Due(m, queue[m][i])'
    <3>1. Due(m, queue'[m][i])
      BY <1>1
    <3>2. state' = state /\ loopOf' = loopOf /\ registered' = registered
      BY <1>4 DEF Quiet, Narrow
    <3> QED BY <3>1, <3>2 DEF Due
  <2> QED BY <1>1, <2>1, <2>2 DEF QueuesOrdered
<1>7. Typed'
  <2>1. LoopsTyped'
    BY <1>1 DEF LoopsTyped, TypeOK
  <2>2. ChatTyped' /\ PeersTyped' /\ ServerTyped'
    BY DEF ChatTyped, PeersTyped, Counted, ServerTyped, TypeOK, chatVars, envVars, serverVars
  <2> QED BY <1>3, <2>1, <2>2, TypesSplitNext
<1>8. LoopsOwn'
  BY <1>4, QuietSteady, LoopsOwnStay
<1>9. SendersLock'
  <2>1. \A d \in Conns : Ready(d) => Ready(d)'
    BY <1>4, <1>5, QuietReady
  <2> QED BY <2>1, LocksKept, SparedKept DEF chatVars, serverVars
<1>10. \A d \in Conns : Erasing(d)' => Erasing(d)
  BY DEF Erasing
<1>11. LeaveInTurn' /\ RemovedOnce'
  BY <1>4, <1>5, <1>10, QuietLeave DEF chatVars
<1> QED BY <1>4, <1>6, <1>7, <1>8, <1>9, <1>11, QuietStages, QuietDeaf, QuietRest

\* connectEstablished of a connection that was accepted: its channel is added.
LEMMA RunEstablishKeeps ==
    ASSUME ServerInv, process = "running", NEW l \in Loops, queue[l] # <<>>,
           queue' = [queue EXCEPT ![l] = Tail(@)],
           UNCHANGED <<serverVars, step, active, current, chatVars, envVars, sends, closes>>,
           NEW f, f = Head(queue[l]), f.do = "connectEstablished", connectEstablished(f.conn)
    PROVE  ServerInv'
<1> USE DEF ServerInv, Typed
<1>1. /\ Due(l, f) /\ f \in Functors
      /\ queue' \in [Loops \cup {Base} -> Seq(Functors)]
      /\ queue'[Base] = queue[Base]
      /\ \A m \in Loops : InTurn(m)'
      /\ \A m \in Loops : \A i \in 1..Len(queue'[m]) :
            /\ Due(m, queue'[m][i]) /\ queue'[m][i].conn \in Conns
            /\ queue'[m][i].conn = f.conn => queue'[m][i].do # "connectEstablished"
      /\ \A d \in Conns :
            /\ Removing(d)' <=> Removing(d)
            /\ Destroying(d)' => Destroying(d)
            /\ Destroying(d) => Destroying(d)' \/ (f.do = "connectDestroyed" /\ f.conn = d)
            /\ OneFunctor(d) => OneFunctor(d)'
  <2>1. Taken(l, f)
    BY HeadTaken
  <2> QED BY <2>1 DEF Taken
<1>2. PICK c \in Conns : c = f.conn
  BY <1>1 DEF Functors
<1>3. state[c] = "kConnecting" /\ c \notin registered /\ closes[c] = 0 /\ loopOf[c] = l /\ c \in Connections
  BY <1>1, <1>2 DEF Due, Stages, Stage
<1>4. /\ state' = [state EXCEPT ![c] = "kConnected"]
      /\ events' = [events EXCEPT ![c] = events[c] \cup {"IN"}]
      /\ registered' = registered \cup {c}
      /\ interest' = [interest EXCEPT ![c] = events[c] \cup {"IN"}]
      /\ UNCHANGED <<process, OutputBuffer, socketVars>>
  BY <1>2, <1>3 DEF connectEstablished, UpdateChannel
<1>5. ASSUME NEW d \in Conns, d # c
      PROVE  state'[d] = state[d] /\ events'[d] = events[d] /\ interest'[d] = interest[d]
  BY <1>4, <1>5 DEF TypeOK
<1>6. state'[c] = "kConnected" /\ events'[c] = events[c] \cup {"IN"}
  BY <1>4 DEF TypeOK
<1>7. /\ loopOf' = loopOf /\ Connections' = Connections
      /\ UNCHANGED <<target, ConnMutex, peer, shut, sends>>
  BY <1>4 DEF serverVars, chatVars, envVars, socketVars
<1>8. Typed'
  <2>1. LoopsTyped'
    BY <1>1 DEF LoopsTyped, TypeOK
  <2>2. events[c] \cup {"IN"} \in Masks
    BY DEF TypeOK, Masks
  <2>3. ChannelsTyped'
    BY <1>4, <2>2 DEF ChannelsTyped, TypeOK, Masks
  <2>4. ChatTyped' /\ PeersTyped' /\ OutputTyped'
    BY <1>4 DEF ChatTyped, PeersTyped, Counted, OutputTyped, TypeOK, chatVars, envVars, socketVars
  <2>5. ServerTyped'
    BY <1>4 DEF ServerTyped, TypeOK, serverVars
  <2> QED BY <2>1, <2>3, <2>4, <2>5, TypesSplitNext
<1>9. \A d \in registered : d \in Conns /\ d # c
  BY <1>3 DEF TypeOK
<1>10. LoopsOwn'
  <2>1. \A m \in Loops : Steady(m)
    BY <1>4, <1>5, <1>7, <1>9 DEF Steady, HungUp
  <2> QED BY <2>1, LoopsOwnStay
<1>11. ClosedAreDeaf'
  BY <1>3, <1>4, <1>5 DEF ClosedAreDeaf, Deaf
<1>12. Stages'
  <2> SUFFICES ASSUME NEW d \in Conns PROVE Stage(d)'
    BY DEF Stages
  <2>1. Stage(d)
    BY DEF Stages
  <2>2. CASE d = c
    BY <1>3, <1>4, <1>6, <1>7, <2>1, <2>2 DEF Stage
  <2>3. CASE d # c
    BY <1>4, <1>5, <1>7, <2>1, <2>3 DEF Stage
  <2> QED BY <2>2, <2>3
<1>13. Numbered' /\ CloseOnce'
  <2>1. \A d \in Conns : state'[d] # "none" <=> state[d] # "none"
    BY <1>3, <1>5, <1>6
  <2>2. CloseOnce'
    BY <1>7 DEF CloseOnce, HungUp
  <2> QED BY <2>1, <2>2 DEF Numbered
<1>14. QueuesOrdered'
  <2>1. BaseOrdered'
    <3> SUFFICES ASSUME NEW i \in 1..Len(queue[Base])
                 PROVE  queue[Base][i].do = "removeConnectionInLoop" /\ state'[queue[Base][i].conn] = "kDisconnected"
      BY <1>1 DEF BaseOrdered
    <3>1. queue[Base][i].do = "removeConnectionInLoop" /\ state[queue[Base][i].conn] = "kDisconnected"
      BY DEF QueuesOrdered, BaseOrdered
    <3>2. queue[Base][i].conn \in Conns
      <4>1. queue[Base] \in Seq(Functors)
        BY DEF TypeOK
      <4>2. queue[Base][i] \in Functors
        BY <4>1
      <4> QED BY <4>2 DEF Functors
    <3> QED BY <1>3, <1>5, <3>1, <3>2
  <2>2. ASSUME NEW m \in Loops, NEW i \in 1..Len(queue'[m]) PROVE Due(m, queue[m][i])'
    <3>1. /\ Due(m, queue'[m][i]) /\ queue'[m][i].conn \in Conns
          /\ queue'[m][i].conn = c => queue'[m][i].do # "connectEstablished"
      BY <1>1, <1>2
    <3> QED BY <1>3, <1>4, <1>5, <1>7, <3>1 DEF Due
  <2> QED BY <1>1, <2>1, <2>2 DEF QueuesOrdered
<1>15. SendersLock'
  <2>1. \A d \in Conns : Ready(d) => Ready(d)'
    BY <1>1, <1>4 DEF Ready
  <2> QED BY <1>7, <2>1, LocksKept, SparedKept
<1>16. \A d \in Conns : Erasing(d)' <=> Erasing(d)
  BY DEF Erasing
<1>17. LeaveInTurn'
  <2> SUFFICES ASSUME NEW d \in Conns PROVE Leaving(d)'
    BY DEF LeaveInTurn
  <2>1. Leaving(d)
    BY DEF LeaveInTurn
  <2> QED BY <1>1, <1>3, <1>4, <1>7, <1>16, <2>1 DEF Leaving
<1>18. RemovedOnce'
  <2> SUFFICES ASSUME NEW d \in Conns PROVE Once(d)'
    BY DEF RemovedOnce
  <2>1. Once(d)
    BY DEF RemovedOnce
  <2> QED BY <1>1, <1>4, <1>16, <2>1 DEF Once
<1> QED BY <1>8, <1>10, <1>11, <1>12, <1>13, <1>14, <1>15, <1>17, <1>18

\* connectDestroyed of a connection that was closed: its channel is removed.
LEMMA RunDestroyKeeps ==
    ASSUME ServerInv, process = "running", NEW l \in Loops, queue[l] # <<>>, step[l] = "poll",
           queue' = [queue EXCEPT ![l] = Tail(@)],
           UNCHANGED <<serverVars, step, active, current, chatVars, envVars, sends, closes>>,
           NEW f, f = Head(queue[l]), f.do = "connectDestroyed", connectDestroyed(f.conn)
    PROVE  ServerInv' /\ (process' # "running" => closes'[f.conn] > 1 /\ HungUp(f.conn)')
<1> USE DEF ServerInv, Typed
<1>1. /\ Due(l, f) /\ f \in Functors
      /\ queue' \in [Loops \cup {Base} -> Seq(Functors)]
      /\ queue'[Base] = queue[Base]
      /\ \A m \in Loops : InTurn(m)'
      /\ \A m \in Loops : \A i \in 1..Len(queue'[m]) :
            /\ Due(m, queue'[m][i])
            /\ queue'[m][i].conn = f.conn => queue'[m][i].do # "sendInLoop"
      /\ Destroying(f.conn)
      /\ \A d \in Conns :
            /\ Removing(d)' <=> Removing(d)
            /\ Destroying(d)' => Destroying(d)
            /\ Destroying(d) => Destroying(d)' \/ (f.do = "connectDestroyed" /\ f.conn = d)
            /\ OneFunctor(d) => OneFunctor(d)'
            /\ OneFunctor(d) /\ f.do = "connectDestroyed" /\ f.conn = d => ~ Destroying(d)'
  <2>1. Taken(l, f)
    BY HeadTaken
  <2> QED BY <2>1 DEF Taken
<1>2. PICK c \in Conns : c = f.conn
  BY <1>1 DEF Functors
<1>3. state[c] = "kDisconnected" /\ loopOf[c] = l /\ Destroying(c)
  BY <1>1, <1>2 DEF Due
<1>5. /\ \/ c \in registered /\ registered' = registered \ {c} /\ process' = process
         \/ c \notin registered /\ process' = "exit" /\ registered' = registered
      /\ UNCHANGED <<state, events, interest, OutputBuffer, socketVars>>
  BY <1>2 DEF connectDestroyed
<1>6. registered' = registered \ {c}
  BY <1>5
<1>7. /\ loopOf' = loopOf /\ Connections' = Connections
      /\ UNCHANGED <<target, ConnMutex, peer, shut, sends>>
  BY <1>5 DEF serverVars, chatVars, envVars, socketVars
<1>8. Typed'
  <2>1. LoopsTyped'
    BY <1>1 DEF LoopsTyped, TypeOK
  <2>2. ChannelsTyped'
    BY <1>5 DEF ChannelsTyped, TypeOK, Masks
  <2>3. ChatTyped' /\ PeersTyped' /\ OutputTyped' /\ ServerTyped'
    BY <1>5 DEF ChatTyped, PeersTyped, Counted, OutputTyped, ServerTyped, TypeOK,
                chatVars, envVars, socketVars, serverVars
  <2> QED BY <2>1, <2>2, <2>3, TypesSplitNext
<1>9. LoopsOwn'
  <2> SUFFICES ASSUME NEW m \in Loops PROVE Owns(m)'
    BY DEF LoopsOwn
  <2>1. Owns(m)
    BY DEF LoopsOwn
  <2>2. CASE m = l
    BY <2>1, <2>2 DEF Owns
  <2>3. CASE m # l
    <3>1. Steady(m)
      BY <1>3, <1>5, <1>6, <1>7, <2>3 DEF Steady, HungUp
    <3> QED BY <2>1, <3>1, OwnsKept, Names
  <2> QED BY <2>2, <2>3
<1>10. ClosedAreDeaf'
  BY <1>5 DEF ClosedAreDeaf, Deaf
<1>11. Stages'
  <2> SUFFICES ASSUME NEW d \in Conns PROVE Stage(d)'
    BY DEF Stages
  <2>1. Stage(d)
    BY DEF Stages
  <2> QED BY <1>3, <1>5, <1>6, <1>7, <2>1 DEF Stage
<1>12. Numbered' /\ CloseOnce'
  BY <1>5, <1>7 DEF Numbered, CloseOnce, HungUp
<1>13. QueuesOrdered'
  <2>1. BaseOrdered'
    BY <1>1, <1>5 DEF QueuesOrdered, BaseOrdered
  <2>2. ASSUME NEW m \in Loops, NEW i \in 1..Len(queue'[m]) PROVE Due(m, queue[m][i])'
    <3>1. /\ Due(m, queue'[m][i])
          /\ queue'[m][i].conn = c => queue'[m][i].do # "sendInLoop"
      BY <1>1, <1>2
    <3> QED BY <1>5, <1>6, <1>7, <3>1 DEF Due
  <2> QED BY <1>1, <2>1, <2>2 DEF QueuesOrdered
<1>14. SendersLock'
  <2>1. \A d \in Conns : Ready(d) => Ready(d)'
    BY <1>1, <1>3, <1>6 DEF Ready
  <2> QED BY <1>7, <2>1, LocksKept, SparedKept
<1>15. \A d \in Conns : Erasing(d)' <=> Erasing(d)
  BY DEF Erasing
<1>16. LeaveInTurn'
  <2> SUFFICES ASSUME NEW d \in Conns PROVE Leaving(d)'
    BY DEF LeaveInTurn
  <2>1. Leaving(d)
    BY DEF LeaveInTurn
  <2> QED BY <1>1, <1>2, <1>6, <1>7, <1>15, <2>1 DEF Leaving
<1>17. RemovedOnce'
  <2> SUFFICES ASSUME NEW d \in Conns PROVE Once(d)'
    BY DEF RemovedOnce
  <2>1. Once(d)
    BY DEF RemovedOnce
  <2>2. CASE d = c
    BY <1>1, <1>2, <1>3, <1>15, <2>1, <2>2 DEF Once
  <2>3. CASE d # c
    BY <1>1, <1>6, <1>15, <2>1, <2>3 DEF Once
  <2> QED BY <2>2, <2>3
<1>18. process' # "running" => closes'[f.conn] > 1 /\ HungUp(f.conn)'
  <2>1. c \notin registered => closes[c] > 1
    <3>1. closes[c] \in Nat
      BY ServerAssumption DEF TypeOK
    <3> QED BY <1>3, <3>1 DEF RemovedOnce, Once
  <2>2. closes[c] > 1 => HungUp(c)
    <3>1. closes[c] \in Nat
      BY ServerAssumption DEF TypeOK
    <3> QED BY <3>1 DEF CloseOnce
  <2> QED BY <1>2, <1>5, <1>7, <2>1, <2>2 DEF HungUp
<1> QED BY <1>8, <1>9, <1>10, <1>11, <1>12, <1>13, <1>14, <1>16, <1>17, <1>18

\* Every functor keeps the invariant.
LEMMA RunKeeps ==
    ASSUME ServerInv, process = "running", NEW l \in Loops, Run(l)
    PROVE  ServerInv'
<1>1. PICK f : f = Head(queue[l])
  OBVIOUS
<1>2. /\ step[l] = "poll" /\ queue[l] # <<>>
      /\ queue' = [queue EXCEPT ![l] = Tail(@)]
      /\ \/ f.do = "connectEstablished" /\ connectEstablished(f.conn)
         \/ /\ f.do = "sendInLoop" /\ UNCHANGED state
            /\ \E bytes \in {"own", "freed"} : sendInLoop(f.conn, TextOf(f.text, bytes))
         \/ f.do = "connectDestroyed" /\ connectDestroyed(f.conn)
      /\ UNCHANGED <<serverVars, step, active, current, chatVars, envVars, sends, closes>>
  BY <1>1 DEF Run
<1> QED BY <1>1, <1>2, RunSendKeeps, RunEstablishKeeps, RunDestroyKeeps

-----------------------------------------------------------------------------
(* The theorems.                                                            *)

LEMMA InitServerInv == Init => ServerInv
<1> SUFFICES ASSUME Init PROVE ServerInv
  OBVIOUS
<1>1. <<>> \in Seq(Functors) /\ <<>> \in Seq(Parts) /\ Len(<<>>) = 0
  OBVIOUS
<1>2. \A l \in Loops \cup {Base} : queue[l] = <<>> /\ Len(queue[l]) = 0
  BY <1>1 DEF Init
<1>3. TypeOK
  <2>1. /\ 0 \in 0..Len(IoLoops) - 1 /\ 0 \in 0..MaxRequests /\ 0 \in 0..Capacity
        /\ 0 \in 0..MaxSends /\ 0 \in 0..MaxCloses
    BY ServerAssumption
  <2>2. ChannelsTyped /\ ChatTyped
    BY DEF Init, ChannelsTyped, ChatTyped, Masks
  <2>3. OutputTyped
    BY <1>1, <2>1 DEF Init, OutputTyped
  <2>4. LoopsTyped
    BY <1>1 DEF Init, LoopsTyped
  <2>5. PeersTyped
    BY <2>1 DEF Init, PeersTyped, Counted
  <2>6. ServerTyped
    BY <2>1 DEF Init, ServerTyped
  <2> QED BY <2>2, <2>3, <2>4, <2>5, <2>6, TypesSplit DEF Typed
<1>4. Typed
  BY <1>3 DEF Init, Typed, Counted
<1>5. LoopsOwn
  BY Names DEF Init, LoopsOwn, Owns
<1>6. ClosedAreDeaf /\ CloseOnce
  BY DEF Init, ClosedAreDeaf, Deaf, CloseOnce
<1>7. Stages
  BY DEF Init, Stages, Stage
<1>8. \A c \in Conns : ~ Removing(c) /\ ~ Destroying(c) /\ ~ Erasing(c) /\ OneFunctor(c)
  <2>1. \A c \in Conns : ~ Removing(c) /\ ~ Destroying(c) /\ OneFunctor(c)
    BY <1>2 DEF Removing, Destroying, OneFunctor
  <2>2. \A c \in Conns : ~ Erasing(c)
    BY Names DEF Init, Erasing
  <2> QED BY <2>1, <2>2
<1>9. LeaveInTurn /\ RemovedOnce
  BY <1>8 DEF Init, LeaveInTurn, Leaving, RemovedOnce, Once
<1>10. Numbered
  <2>1. 0 \in 0..MaxConns /\ \A c \in Conns : ~ (c <= 0)
    BY ServerAssumption DEF Conns
  <2> QED BY <2>1 DEF Init, Numbered
<1>11. QueuesOrdered
  BY <1>2 DEF QueuesOrdered, BaseOrdered, InTurn
<1>12. SendersLock
  BY Names DEF Init, SendersLock, Locks, Spared
<1> QED BY <1>4, <1>5, <1>6, <1>7, <1>9, <1>10, <1>11, <1>12 DEF ServerInv

\* Every step keeps it.
LEMMA StutterServerInv == ServerInv /\ UNCHANGED vars => ServerInv'
<1> SUFFICES ASSUME ServerInv, UNCHANGED vars PROVE ServerInv'
  OBVIOUS
<1>1. UNCHANGED <<process, Connections, NextLoop, loopOf, state, events, registered, interest,
                  OutputBuffer, queue, step, active, current, target, UserConnMap, ConnMutex,
                  error, shut, sndbuf, wire, peer, requests, asked, sends, closes>>
  BY DEF vars, serverVars, channelVars, loopVars, chatVars, socketVars, envVars
<1>2. Typed'
  BY <1>1 DEF ServerInv, Typed, TypeOK, Counted
<1>3. LoopsOwn' /\ ClosedAreDeaf' /\ Stages' /\ Numbered' /\ CloseOnce'
  BY <1>1 DEF ServerInv, LoopsOwn, Owns, ClosedAreDeaf, Deaf, Stages, Stage, Numbered, CloseOnce, HungUp
<1>4. QueuesOrdered' /\ SendersLock'
  BY <1>1 DEF ServerInv, QueuesOrdered, BaseOrdered, InTurn, Due, SendersLock, Locks, Spared, Ready,
              Removing, Destroying
<1>5. LeaveInTurn' /\ RemovedOnce'
  BY <1>1 DEF ServerInv, LeaveInTurn, Leaving, RemovedOnce, Once, OneFunctor, Removing, Destroying, Erasing
<1> QED BY <1>2, <1>3, <1>4, <1>5 DEF ServerInv

LEMMA StepServerInv == ServerInv /\ [Next]_vars => ServerInv'
<1> SUFFICES ASSUME ServerInv, [Next]_vars PROVE ServerInv'
  OBVIOUS
<1>1. CASE UNCHANGED vars
  BY <1>1, StutterServerInv
<1>2. CASE Next
  <2>1. process = "running"
    BY <1>2 DEF Next
  <2>2. CASE NewConnection
    BY <2>1, <2>2, NewConnectionKeeps
  <2>3. CASE RemoveConnectionInLoop
    BY <2>1, <2>3, RemoveKeeps
  <2>4. ASSUME NEW l \in Loops, IoLoop(l) PROVE ServerInv'
    BY <2>1, <2>4, PollKeeps, HangupKeeps, ErrorKeeps, handleReadKeeps, SkipKeeps, WriteKeeps,
       EndCloseKeeps, RunKeeps DEF IoLoop
  <2>5. ASSUME NEW t \in Senders, Push(t) PROVE ServerInv'
    BY <2>1, <2>5, PushKeeps
  <2>6. ASSUME NEW c \in Conns, Observe(c) PROVE ServerInv'
    BY <2>1, <2>6, ObserveKeeps
  <2>7. ASSUME NEW c \in Conns, Peer(c) PROVE ServerInv'
    BY <2>1, <2>7, PeerKeeps
  <2> QED BY <1>2, <2>2, <2>3, <2>4, <2>5, <2>6, <2>7 DEF Next
<1> QED BY <1>1, <1>2

\* The invariant holds for any loops, connections and sends, whatever Poller does:
\* each connection leaves Connections and the epoll set in one order, over the queues
\* of both loops, and not while a thread that holds ConnMutex is about to send to it
\* (TcpServer.cpp:58-69, TcpConnection.cpp:143-149, chatservice.cpp:149-160, 189-194).
THEOREM ServerInvariance == Spec => []ServerInv
<1> QED BY InitServerInv, StepServerInv, PTL DEF Spec

\* The variables keep their types, whatever Poller does.
THEOREM TypeCorrect == Spec => []TypeOK
<1>1. ServerInv => TypeOK
  BY DEF ServerInv, Typed
<1> QED BY <1>1, ServerInvariance, PTL

\* No connection has handleClose called twice, but for one that hung up.
THEOREM ClosedOnce == Spec => []CloseOnce
<1>1. ServerInv => CloseOnce
  BY DEF ServerInv
<1> QED BY <1>1, ServerInvariance, PTL

\* A descriptor in the epoll set belongs to a connection that lives.
LEMMA RegisteredAlive ==
    ASSUME ServerInv, NEW c \in registered
    PROVE  c \in Conns /\ Alive(c)
<1> USE DEF ServerInv, Typed
<1>1. c \in Conns /\ state[c] # "none" /\ (c \in Connections \/ Destroying(c))
  BY DEF TypeOK, Stages, Stage, LeaveInTurn, Leaving
<1>2. ASSUME Destroying(c) PROVE \E l \in DOMAIN queue : \E i \in 1..Len(queue[l]) : Keeps(queue[l][i], c)
  <2>1. DOMAIN queue = Loops \cup {Base}
    BY DEF TypeOK
  <2> QED BY <1>2, <2>1 DEF Destroying, Keeps
<1> QED BY <1>1, <1>2 DEF Alive

\* Whoever points to a connection points to one in the epoll set, or keeps it.
LEMMA InvNoDangling == ServerInv => NoDangling
<1> SUFFICES ASSUME ServerInv PROVE NoDangling
  OBVIOUS
<1> USE DEF ServerInv, Typed
<1>1. \A c \in registered : c \in Conns /\ Alive(c)
  BY RegisteredAlive
<1>2. ASSUME NEW l \in Loops, NEW c \in active[l] PROVE Alive(c)
  BY <1>1 DEF LoopsOwn, Owns
<1>3. ASSUME NEW t \in Senders, target[t] # None PROVE Alive(target[t])
  <2>1. target[t] \in registered
    BY <1>3 DEF SendersLock, Locks, Ready
  <2> QED BY <1>1, <2>1
<1>4. ASSUME NEW l \in Loops, NEW i \in 1..Len(queue[l]) PROVE Alive(queue[l][i].conn)
  <2>1. queue[l] \in Seq(Functors) /\ DOMAIN queue = Loops \cup {Base}
    BY DEF TypeOK
  <2>2. queue[l][i] \in Functors
    BY <2>1
  <2>3. Due(l, queue[l][i])
    BY DEF QueuesOrdered
  <2>4. CASE queue[l][i].do = "sendInLoop"
    BY <1>1, <2>3, <2>4 DEF Due
  <2>5. CASE queue[l][i].do # "sendInLoop"
    <3>1. Keeps(queue[l][i], queue[l][i].conn)
      BY <2>5 DEF Keeps
    <3>2. queue[l][i].do \in {"connectEstablished", "removeConnectionInLoop", "connectDestroyed", "sendInLoop"}
      BY <2>2 DEF Functors
    <3>3. state[queue[l][i].conn] # "none"
      BY <2>3, <2>5, <3>2 DEF Due
    <3>4. \E m \in DOMAIN queue : \E j \in 1..Len(queue[m]) : Keeps(queue[m][j], queue[l][i].conn)
      BY <2>1, <3>1
    <3> QED BY <3>3, <3>4 DEF Alive
  <2> QED BY <2>4, <2>5
<1> QED BY <1>1, <1>2, <1>3, <1>4 DEF NoDangling

\* Whatever points to a connection without owning it points to one that lives.
THEOREM NothingDangles == Spec => []NoDangling
<1> QED BY InvNoDangling, ServerInvariance, PTL

-----------------------------------------------------------------------------
(* How the process ends.                                                    *)

LEMMA BrokenHungUp ==
    ASSUME ServerInv, NEW c \in Conns, Broken(c)
    PROVE  HungUp(c)
<1>1. Stage(c) /\ shut[c] \in BOOLEAN
  BY DEF ServerInv, Stages, Typed, TypeOK
<1> QED BY <1>1 DEF Broken, HungUp, Stage

\* How a step that works on a connection d of its own may end the process.
EndsBy(d) ==
    /\ process' = "exit" => ~ Modifies \/ (closes'[d] > 1 /\ HungUp(d)')
    /\ process' = "SIGPIPE" => HungUp(d)'

\* So ends a send,
LEMMA SendEnds ==
    ASSUME ServerInv, process = "running", NEW c \in registered, NEW text \in Texts,
           sendInLoop(c, text), peer' = peer
    PROVE  c \in Conns /\ EndsBy(c)
<1>1. Ends(c) /\ shut' = shut
  BY SendEffect DEF ServerInv, Typed
<1>2. c \in Conns /\ (HungUp(c)' <=> HungUp(c))
  BY <1>1 DEF ServerInv, Typed, TypeOK, HungUp
<1>3. process' = "SIGPIPE" => HungUp(c)
  BY <1>1, <1>2, BrokenHungUp DEF Ends
<1> QED BY <1>1, <1>2, <1>3 DEF Ends, EndsBy

\* and a message,
LEMMA MessageEnds ==
    ASSUME ServerInv, process = "running", NEW l \in Loops, NEW c \in active[l],
           onMessage(l, c), peer' = peer
    PROVE  process' \in {"running", "terminate"} \/ \E d \in Conns : EndsBy(d)
<1> USE DEF ServerInv, Typed
<1>1. l \in Senders /\ c \in registered
  BY Names DEF LoopsOwn, Owns
<1>2. ASSUME NEW d \in registered, CanSend, sendInLoop(d, Text(l))
      PROVE  \E e \in Conns : EndsBy(e)
  <2>1. Text(l) \in Texts
    BY <1>1, <1>2, NextText
  <2> QED BY <1>2, <2>1, SendEnds
<1>3. ASSUME NEW d \in Range(UserConnMap) \ {None}, state[d] = "kConnected", CanSend,
             sendInLoop(d, Text(l))
      PROVE  \E e \in Conns : EndsBy(e)
  <2>1. d \in registered
    BY <1>3, EntryConnected
  <2> QED BY <1>2, <1>3, <2>1
<1>4. \/ process' \in {process, "terminate"}
      \/ CanSend /\ sendInLoop(c, Text(l))
      \/ \E d \in Range(UserConnMap) \ {None} :
            state[d] = "kConnected" /\ CanSend /\ sendInLoop(d, Text(l))
  BY DEF onMessage
<1> QED BY <1>1, <1>2, <1>3, <1>4

\* and whatever a loop does.
LEMMA LoopEnds ==
    ASSUME ServerInv, process = "running", NEW l \in Loops, IoLoop(l)
    PROVE  process' \in {"running", "terminate"} \/ \E d \in Conns : EndsBy(d)
<1> USE DEF ServerInv, Typed
<1>1. CASE Poll(l) \/ handleError(l) \/ SkipRead(l) \/ EndClose(l)
  BY <1>1 DEF Poll, handleError, SkipRead, EndClose
<1>2. ASSUME NEW c \in registered, NEW mask, UpdateChannel(c, mask)
      PROVE  process' = "running" \/ \E d \in Conns : EndsBy(d)
  <2>1. c \in Conns /\ (process' = process \/ (process' = "exit" /\ ~ Modifies))
    BY <1>2 DEF UpdateChannel, TypeOK
  <2> QED BY <2>1 DEF EndsBy
<1>3. \A c \in active[l] : c \in registered
  BY DEF LoopsOwn, Owns
<1>4. CASE HandleHangup(l)
  BY <1>2, <1>3, <1>4 DEF HandleHangup, BeginClose
<1>5. CASE handleRead(l)
  <2>1. PICK c \in active[l] :
          /\ \/ onMessage(l, c)
             \/ process' = process
             \/ BeginClose(l, c)
          /\ peer' = peer
    BY <1>5 DEF handleRead
  <2> QED BY <1>2, <1>3, <2>1, MessageEnds DEF BeginClose
<1>6. CASE handleWrite(l)
  <2>1. PICK c \in registered : c = current[l]
    BY <1>6 DEF handleWrite, LoopsOwn, Owns
  <2>2. c \in Conns /\ peer' = peer
    BY <1>6, <2>1 DEF TypeOK, handleWrite, envVars
  <2>3. \/ process' = process
        \/ Broken(c) /\ shut' = shut /\ WriteFails(c)
        \/ UpdateChannel(c, events[c] \ {"OUT"})
    BY <1>6, <2>1 DEF handleWrite
  <2>4. CASE Broken(c) /\ shut' = shut /\ WriteFails(c)
    <3>1. HungUp(c)' /\ process' \in {process, "SIGPIPE"}
      BY <2>2, <2>4, BrokenHungUp DEF HungUp, WriteFails
    <3> QED BY <2>2, <3>1 DEF EndsBy
  <2> QED BY <1>2, <2>2, <2>3, <2>4
<1>7. CASE Run(l)
  <2>1. PICK f : f = Head(queue[l])
    OBVIOUS
  <2>2. /\ step[l] = "poll" /\ queue[l] # <<>>
        /\ queue' = [queue EXCEPT ![l] = Tail(@)]
        /\ \/ f.do = "connectEstablished" /\ connectEstablished(f.conn)
           \/ /\ f.do = "sendInLoop" /\ UNCHANGED state
              /\ \E bytes \in {"own", "freed"} : sendInLoop(f.conn, TextOf(f.text, bytes))
           \/ f.do = "connectDestroyed" /\ connectDestroyed(f.conn)
        /\ UNCHANGED <<serverVars, step, active, current, chatVars, envVars, sends, closes>>
    BY <1>7, <2>1 DEF Run
  <2>3. Taken(l, f)
    BY <2>1, <2>2, HeadTaken
  <2>4. f \in Functors /\ Due(l, f) /\ f.conn \in Conns
    BY <2>3 DEF Taken
  <2>5. CASE f.do = "connectEstablished" /\ connectEstablished(f.conn)
    <3>1. state[f.conn] = "kConnecting"
      BY <2>4, <2>5 DEF Due
    <3>2. f.conn \notin registered
      BY <2>4, <3>1 DEF Stages, Stage
    <3> QED BY <2>5, <3>2 DEF connectEstablished, UpdateChannel
  <2>6. ASSUME f.do = "sendInLoop",
               NEW bytes \in {"own", "freed"}, sendInLoop(f.conn, TextOf(f.text, bytes))
        PROVE  \E d \in Conns : EndsBy(d)
    <3>1. f.conn \in registered /\ TextOf(f.text, bytes) \in Texts
      BY <2>4, <2>6, TextTyped DEF Due, Functors
    <3> QED BY <2>2, <2>6, <3>1, SendEnds DEF envVars
  <2>7. CASE f.do = "connectDestroyed" /\ connectDestroyed(f.conn)
    <3>1. process' \in {"running", "exit"}
      BY <2>7 DEF connectDestroyed
    <3>2. process' # "running" => closes'[f.conn] > 1 /\ HungUp(f.conn)'
      BY <2>1, <2>2, <2>7, RunDestroyKeeps
    <3> QED BY <2>4, <3>1, <3>2 DEF EndsBy
  <2> QED BY <2>2, <2>5, <2>6, <2>7
<1> QED BY <1>1, <1>4, <1>5, <1>6, <1>7 DEF IoLoop

\* And nobody else ends the process.
LEMMA StepEnds ==
    ASSUME ServerInv, EndsForAReason, [Next]_vars
    PROVE  EndsForAReason'
<1>1. CASE UNCHANGED vars
  BY <1>1 DEF EndsForAReason, HungUp, vars, envVars, socketVars
<1>2. CASE Next
  <2>1. process = "running"
    BY <1>2 DEF Next
  <2>2. process' \in {"running", "terminate"} => EndsForAReason'
    BY DEF EndsForAReason
  <2>3. (\E d \in Conns : EndsBy(d)) => EndsForAReason'
    BY DEF EndsForAReason, EndsBy
  <2>4. CASE \E l \in Loops : IoLoop(l)
    BY <2>1, <2>2, <2>3, <2>4, LoopEnds
  <2>5. CASE NewConnection \/ RemoveConnectionInLoop
    BY <2>1, <2>2, <2>5 DEF NewConnection, RemoveConnectionInLoop
  <2>6. CASE \E t \in Senders : Push(t)
    BY <2>1, <2>2, <2>6 DEF Push
  <2>7. CASE \E c \in Conns : Observe(c) \/ Peer(c)
    BY <2>1, <2>2, <2>7 DEF Observe, Peer, Request, PeerCloses, PeerResets, PeerReads
  <2> QED BY <1>2, <2>4, <2>5, <2>6, <2>7 DEF Next
<1> QED BY <1>1, <1>2

\* The process exits over a mask that Poller cannot change, or over a connection
\* whose removal was begun twice after both its directions were down; it is killed
\* by SIGPIPE over one that was reset or down both ways.  What does not parse may
\* end it as well, and nothing else (Poller.cpp:60-79, TcpConnection.cpp:39-48).
THEOREM EndsHaveReasons == Spec => []EndsForAReason
<1>1. Init => EndsForAReason
  BY DEF Init, EndsForAReason
<1>2. ServerInv /\ EndsForAReason /\ [Next]_vars => EndsForAReason'
  BY StepEnds
<1> QED BY <1>1, <1>2, ServerInvariance, PTL DEF Spec

-----------------------------------------------------------------------------
(* What goes out.                                                           *)

\* What went out on c, with what waits in OutputBuffer.
Sent(c) == wire[c] \o OutputBuffer[c]

\* Texts in full length, those of one thread in the order of their numbers.
Ordered(out) ==
    /\ \A i \in 1..Len(out) :
          /\ out[i][2] = 2 => i > 1 /\ out[i - 1] = <<out[i][1], 1>>
          /\ out[i][2] = 1 => i < Len(out)
    /\ \A i, j \in 1..Len(out) :
          (i < j /\ out[i][1][1] = out[j][1][1] /\ out[i][2] = out[j][2])
              => out[i][1][2] < out[j][1][2]

\* Every text in out has a number up to n.
UpTo(out, n) == \A k \in 1..Len(out) : out[k][1][2] <= n

\* The text comes after those of its thread in out.
After(out, text) == \A k \in 1..Len(out) : out[k][1][1] = text[1] => out[k][1][2] < text[2]

\* Of two functors that wait in one queue, f before g.
Ahead(f, g) ==
    /\ f.do = "sendInLoop" /\ g.do = "sendInLoop"
    /\ f.conn = g.conn /\ f.text[1] = g.text[1]
    => f.text[2] < g.text[2]

\* Nobody in q waits ahead of an earlier text of its thread.
InRow(q) == \A i, j \in 1..Len(q) : i < j => Ahead(q[i], q[j])

\* A text that waits in the queue of l comes from another thread, which sends
\* nothing to the connection past the queue: it is still to come after out.
Fresh(l, f, out, n) ==
    f.do = "sendInLoop" => f.text[2] <= n /\ f.text[1] # l /\ After(out, f.text)

\* Every text that waits is fresh.
TextsFresh ==
    \A l \in Loops : \A c \in Conns : \A i \in 1..Len(queue[l]) :
        queue[l][i].conn = c => Fresh(l, queue[l][i], Sent(c), sends)

\* What went out is in order, and has the numbers given so far.
SentInOrder == \A c \in Conns : Ordered(Sent(c)) /\ UpTo(Sent(c), sends)

\* What waits is in order.
QueuedInOrder == \A l \in Loops : InRow(queue[l])

\* The invariant about the texts.
OrderInv == SentInOrder /\ QueuedInOrder /\ TextsFresh

-----------------------------------------------------------------------------
\* The parts of a part's text.
LEMMA PartFacts ==
    ASSUME NEW p \in Parts
    PROVE  /\ p[1] \in Texts /\ p[2] \in {1, 2} /\ p = <<p[1], p[2]>>
           /\ p[1][1] \in Senders /\ p[1][2] \in Nat
<1>1. p[1] \in Texts /\ p[2] \in {1, 2} /\ p = <<p[1], p[2]>>
  BY DEF Parts
<1>2. p[1][1] \in Senders /\ p[1][2] \in 1..MaxSends
  BY <1>1 DEF Texts
<1> QED BY <1>1, <1>2, ServerAssumption

\* Concatenation, of parts too, is associative.
LEMMA Associative == ASSUME NEW S PROVE \A s, t, u \in Seq(S) : (s \o t) \o u = s \o (t \o u)
BY ConcatAssociative

LEMMA PartsAssociative == \A s, t, u \in Seq(Parts) : (s \o t) \o u = s \o (t \o u)
BY Associative

\* What is left of parts follows what was taken.
LEMMA SplitConcat ==
    ASSUME NEW w \in Seq(Parts), NEW p \in Seq(Parts), NEW k \in 0..Len(p)
    PROVE  (w \o SubSeq(p, 1, k)) \o SubSeq(p, k + 1, Len(p)) = w \o p
<1>1. /\ Len(p) \in Nat /\ 1 \in 1..Len(p) + 1 /\ k \in 1 - 1..Len(p) /\ Len(p) \in k..Len(p)
  OBVIOUS
<1>2. SubSeq(p, 1, k) \o SubSeq(p, k + 1, Len(p)) = SubSeq(p, 1, Len(p))
  BY <1>1, ConcatAdjacentSubSeq
<1>3. SubSeq(p, 1, Len(p)) = p
  BY SubSeqFull
<1>4. SubSeq(p, 1, k) \in Seq(Parts) /\ SubSeq(p, k + 1, Len(p)) \in Seq(Parts)
  BY <1>1
<1> DEFINE a == SubSeq(p, 1, k)
           b == SubSeq(p, k + 1, Len(p))
<1>5. a \in Seq(Parts) /\ b \in Seq(Parts) /\ a \o b = p
  BY <1>2, <1>3, <1>4
<1> HIDE DEF a, b
<1>6. (w \o a) \o b = w \o (a \o b)
  BY <1>5, PartsAssociative
<1>7. (w \o a) \o b = w \o p
  BY <1>5, <1>6
<1> QED BY <1>7 DEF a, b

\* The two parts of a text at the end.
LEMMA TextAppended ==
    ASSUME NEW out \in Seq(Parts), NEW text \in Texts
    PROVE  /\ out \o PartsOf(text) \in Seq(Parts) /\ Len(out \o PartsOf(text)) = Len(out) + 2
           /\ \A i \in 1..Len(out) : (out \o PartsOf(text))[i] = out[i]
           /\ (out \o PartsOf(text))[Len(out) + 1] = <<text, 1>>
           /\ (out \o PartsOf(text))[Len(out) + 2] = <<text, 2>>
<1> DEFINE p == PartsOf(text)
<1>1. /\ Len(out) \in Nat /\ p \in Seq(Parts) /\ Len(p) = 2
      /\ p[1] = <<text, 1>> /\ p[2] = <<text, 2>>
  BY PartsTyped DEF PartsOf
<1> HIDE DEF p
<1>2. /\ out \o p \in Seq(Parts) /\ Len(out \o p) = Len(out) + 2
      /\ \A i \in 1..Len(out) + 2 :
            (out \o p)[i] = IF i <= Len(out) THEN out[i] ELSE p[i - Len(out)]
  <2>1. /\ out \o p \in Seq(Parts) /\ Len(out \o p) = Len(out) + Len(p)
        /\ \A i \in 1..Len(out) + Len(p) :
              (out \o p)[i] = IF i <= Len(out) THEN out[i] ELSE p[i - Len(out)]
    BY <1>1, ConcatProperties
  <2> QED BY <1>1, <2>1
<1>3. \A i \in 1..Len(out) : (out \o p)[i] = out[i]
  BY <1>1, <1>2
<1>4. (out \o p)[Len(out) + 1] = p[1] /\ (out \o p)[Len(out) + 2] = p[2]
  BY <1>1, <1>2
<1> QED BY <1>1, <1>2, <1>3, <1>4 DEF p

\* A text that comes after those of its thread may follow.
LEMMA OrderedAppend ==
    ASSUME NEW out \in Seq(Parts), NEW text \in Texts, Ordered(out), After(out, text)
    PROVE  Ordered(out \o PartsOf(text))
<1> DEFINE new == out \o PartsOf(text)
           n == Len(out)
<1>1. n \in Nat /\ PartsOf(text) \in Seq(Parts) /\ Len(PartsOf(text)) = 2
  BY PartsTyped
<1>2. /\ Len(new) = n + 2 /\ \A i \in 1..n : new[i] = out[i]
      /\ new[n + 1] = <<text, 1>> /\ new[n + 2] = <<text, 2>>
  BY <1>1, TextAppended
<1>3. new[n + 1] = <<text, 1>> /\ new[n + 2] = <<text, 2>>
  BY <1>2
<1>4. \A i \in 1..n : out[i] \in Parts
  OBVIOUS
<1>5. text[2] \in Nat /\ \A i \in 1..n : out[i][1][2] \in Nat /\ out[i][2] \in {1, 2}
  BY <1>4, PartFacts, ServerAssumption DEF Texts
<1> HIDE DEF new
<1>6. ASSUME NEW i \in 1..n + 2
      PROVE  /\ new[i][2] = 2 => i > 1 /\ new[i - 1] = <<new[i][1], 1>>
             /\ new[i][2] = 1 => i < n + 2
  <2>1. CASE i \in 1..n
    <3>1. new[i] = out[i] /\ i < n + 2
      BY <1>1, <1>2, <2>1
    <3>2. ASSUME out[i][2] = 2 PROVE i > 1 /\ new[i - 1] = <<new[i][1], 1>>
      <4>1. i > 1 /\ out[i - 1] = <<out[i][1], 1>>
        BY <2>1, <3>2 DEF Ordered
      <4>2. i - 1 \in 1..n
        BY <1>1, <2>1, <4>1
      <4> QED BY <1>2, <3>1, <4>1, <4>2
    <3> QED BY <3>1, <3>2
  <2>2. CASE i = n + 1
    BY <1>1, <1>3, <2>2
  <2>3. CASE i = n + 2
    <3>1. i - 1 = n + 1 /\ i > 1
      BY <1>1, <2>3
    <3> QED BY <1>3, <2>3, <3>1
  <2> QED BY <1>1, <2>1, <2>2, <2>3
<1>7. ASSUME NEW i \in 1..n + 2, NEW j \in 1..n + 2, i < j,
             new[i][1][1] = new[j][1][1], new[i][2] = new[j][2]
      PROVE  new[i][1][2] < new[j][1][2]
  <2>1. CASE j \in 1..n
    <3>1. i \in 1..n
      BY <1>1, <1>7, <2>1
    <3> QED BY <1>2, <1>7, <2>1, <3>1 DEF Ordered
  <2>2. CASE j \in {n + 1, n + 2} /\ i \in 1..n
    <3>1. new[j][1] = text /\ new[i] = out[i]
      BY <1>2, <1>3, <2>2
    <3> QED BY <1>7, <2>2, <3>1 DEF After
  <2>3. CASE i = n + 1 /\ j = n + 2
    BY <1>3, <1>7, <2>3
  <2> QED BY <1>1, <1>7, <2>1, <2>2, <2>3
<1>8. Ordered(new)
  BY <1>2, <1>6, <1>7 DEF Ordered
<1> QED BY <1>8 DEF new

\* The texts in what follows.
LEMMA ConcatTexts ==
    ASSUME NEW out \in Seq(Parts), NEW text \in Texts,
           NEW k \in 1..Len(out \o PartsOf(text))
    PROVE  \/ (out \o PartsOf(text))[k][1] = text
           \/ k \in 1..Len(out) /\ (out \o PartsOf(text))[k] = out[k]
<1>1. Len(out) \in Nat /\ PartsOf(text) \in Seq(Parts) /\ Len(PartsOf(text)) = 2
  BY PartsTyped
<1>2. /\ Len(out \o PartsOf(text)) = Len(out) + 2
      /\ \A i \in 1..Len(out) : (out \o PartsOf(text))[i] = out[i]
      /\ (out \o PartsOf(text))[Len(out) + 1] = <<text, 1>>
      /\ (out \o PartsOf(text))[Len(out) + 2] = <<text, 2>>
  BY <1>1, TextAppended
<1>3. k \in 1..Len(out) \/ k = Len(out) + 1 \/ k = Len(out) + 2
  BY <1>1, <1>2
<1> QED BY <1>2, <1>3

\* One more functor at the end of a queue, or one less at its head.
LEMMA InRowAppend ==
    ASSUME NEW q \in Seq(Functors), NEW f \in Functors, InRow(q),
           \A i \in 1..Len(q) : Ahead(q[i], f)
    PROVE  InRow(Append(q, f))
<1> DEFINE new == Append(q, f)
<1>1. /\ Len(q) \in Nat /\ Len(new) = Len(q) + 1
      /\ \A i \in 1..Len(q) : new[i] = q[i]
      /\ new[Len(q) + 1] = f
  BY AppendProperties
<1> HIDE DEF new
<1>2. ASSUME NEW i \in 1..Len(q) + 1, NEW j \in 1..Len(q) + 1, i < j PROVE Ahead(new[i], new[j])
  <2>1. i \in 1..Len(q) /\ new[i] = q[i]
    BY <1>1, <1>2
  <2>2. CASE j \in 1..Len(q)
    BY <1>1, <1>2, <2>1, <2>2 DEF InRow
  <2>3. CASE j = Len(q) + 1
    BY <1>1, <2>1, <2>3
  <2> QED BY <1>1, <2>2, <2>3
<1>3. InRow(new)
  BY <1>1, <1>2 DEF InRow
<1> QED BY <1>3 DEF new

LEMMA InRowTail ==
    ASSUME NEW q \in Seq(Functors), q # <<>>, InRow(q)
    PROVE  /\ InRow(Tail(q))
           /\ \A i \in 1..Len(Tail(q)) : Ahead(Head(q), Tail(q)[i])
<1>1. /\ Len(q) \in Nat \ {0} /\ Len(Tail(q)) = Len(q) - 1 /\ Head(q) = q[1]
      /\ \A i \in 1..Len(q) - 1 : Tail(q)[i] = q[i + 1]
  BY TailFacts
<1>2. ASSUME NEW i \in 1..Len(Tail(q)) PROVE i \in Nat /\ i + 1 \in 1..Len(q) /\ Tail(q)[i] = q[i + 1]
  BY <1>1
<1>3. 1 \in 1..Len(q)
  BY <1>1
<1>4. ASSUME NEW i \in 1..Len(Tail(q)) PROVE Ahead(Head(q), Tail(q)[i])
  BY <1>1, <1>2, <1>3 DEF InRow
<1>5. ASSUME NEW i \in 1..Len(Tail(q)), NEW j \in 1..Len(Tail(q)), i < j
      PROVE  Ahead(Tail(q)[i], Tail(q)[j])
  <2>1. i + 1 < j + 1
    BY <1>2, <1>5
  <2> QED BY <1>2, <2>1 DEF InRow
<1> QED BY <1>4, <1>5 DEF InRow

\* A functor that comes out of a queue was in it.
LEMMA TailFrom ==
    ASSUME NEW q \in Seq(Functors), q # <<>>, NEW i \in 1..Len(Tail(q))
    PROVE  \E j \in 1..Len(q) : Tail(q)[i] = q[j]
<1>1. /\ Len(q) \in Nat \ {0} /\ Len(Tail(q)) = Len(q) - 1
      /\ \A k \in 1..Len(q) - 1 : Tail(q)[k] = q[k + 1]
  BY TailFacts
<1>2. i + 1 \in 1..Len(q) /\ Tail(q)[i] = q[i + 1]
  BY <1>1
<1> QED BY <1>2

\* A functor in a longer queue is the new one or was in it.
LEMMA AppendFrom ==
    ASSUME NEW q \in Seq(Functors), NEW f \in Functors, NEW i \in 1..Len(Append(q, f))
    PROVE  Append(q, f)[i] = f \/ \E j \in 1..Len(q) : Append(q, f)[i] = q[j]
<1>1. /\ Len(q) \in Nat /\ Len(Append(q, f)) = Len(q) + 1
      /\ \A k \in 1..Len(q) : Append(q, f)[k] = q[k]
      /\ Append(q, f)[Len(q) + 1] = f
  BY AppendProperties
<1>2. i \in 1..Len(q) \/ i = Len(q) + 1
  BY <1>1
<1> QED BY <1>1, <1>2

\* What goes out is a sequence of parts.
LEMMA SentTyped ==
    ASSUME TypeOK, NEW c \in Conns
    PROVE  Sent(c) \in Seq(Parts) /\ wire[c] \in Seq(Parts) /\ OutputBuffer[c] \in Seq(Parts)
<1>1. wire[c] \in Seq(Parts) /\ OutputBuffer[c] \in Seq(Parts)
  BY DEF TypeOK
<1>2. wire[c] \o OutputBuffer[c] \in Seq(Parts)
  BY <1>1, ConcatProperties
<1> QED BY <1>1, <1>2 DEF Sent

\* Nothing goes out anywhere but on c, and there nothing or the whole text.
Goes(c, text) ==
    /\ \A d \in Conns \ {c} : Sent(d)' = Sent(d)
    /\ Sent(c)' \in {Sent(c), Sent(c) \o PartsOf(text)}

\* What BufferOutput, WriteNow and sendInLoop add to what goes out.
LEMMA BufferSent ==
    ASSUME TypeOK, NEW c \in Conns, NEW parts \in Seq(Parts), BufferOutput(c, parts)
    PROVE  /\ \A d \in Conns \ {c} : OutputBuffer'[d] = OutputBuffer[d]
           /\ OutputBuffer'[c] = OutputBuffer[c] \o parts
BY DEF TypeOK, BufferOutput

LEMMA WriteSent ==
    ASSUME TypeOK, NEW c \in Conns, NEW text \in Texts, OutputBuffer[c] = <<>>,
           WriteNow(c, PartsOf(text))
    PROVE  Goes(c, text)
<1> DEFINE p == PartsOf(text)
           k == Takes(c, p)
<1>1. p \in Seq(Parts) /\ k \in 0..Len(p) /\ Rest(c, p) \in Seq(Parts) /\ Rest(c, p) = SubSeq(p, k + 1, Len(p))
  BY PartsTyped, TakesTyped DEF Rest
<1>2. wire[c] \in Seq(Parts) /\ wire[c] \o <<>> = wire[c]
  BY SentTyped, ConcatEmptySeq
<1>3. Sent(c) = wire[c]
  BY <1>2 DEF Sent
<1> HIDE DEF p, k
<1>4. CASE UNCHANGED OutputBuffer /\ UNCHANGED wire
  BY <1>4 DEF Goes, Sent
<1>5. ASSUME Written(c, p), OutputBuffer' = [OutputBuffer EXCEPT ![c] = @ \o Rest(c, p)]
      PROVE  Goes(c, text)
  <2>1. /\ \A d \in Conns \ {c} : wire'[d] = wire[d] /\ OutputBuffer'[d] = OutputBuffer[d]
        /\ wire'[c] = wire[c] \o SubSeq(p, 1, k)
        /\ OutputBuffer'[c] = <<>> \o Rest(c, p)
    BY <1>5 DEF Written, TypeOK, k
  <2>2. OutputBuffer'[c] = Rest(c, p)
    BY <1>1, <2>1, ConcatEmptySeq
  <2>3. wire'[c] \o OutputBuffer'[c] = wire[c] \o p
    <3>1. wire'[c] \o OutputBuffer'[c] = (wire[c] \o SubSeq(p, 1, k)) \o SubSeq(p, k + 1, Len(p))
      BY <1>1, <2>1, <2>2
    <3> QED BY <1>1, <1>2, <3>1, SplitConcat
  <2> QED BY <1>3, <2>1, <2>3 DEF Goes, Sent, p
<1>6. ASSUME Written(c, p), Rest(c, p) = <<>>, UNCHANGED OutputBuffer PROVE Goes(c, text)
  <2>1. OutputBuffer' = [OutputBuffer EXCEPT ![c] = @ \o Rest(c, p)]
    <3>1. <<>> \o <<>> = <<>>
      BY ConcatEmptySeq
    <3> QED BY <1>6, <3>1 DEF TypeOK
  <2> QED BY <1>5, <1>6, <2>1
<1> QED BY <1>4, <1>5, <1>6 DEF WriteNow, BufferOutput, p

LEMMA SendSent ==
    ASSUME TypeOK, NEW c \in Conns, NEW text \in Texts, sendInLoop(c, text)
    PROVE  Goes(c, text)
<1>1. CASE OutputBuffer[c] = <<>> /\ WriteNow(c, PartsOf(text))
  BY <1>1, WriteSent
<1>2. CASE BufferOutput(c, PartsOf(text)) /\ UNCHANGED socketVars
  <2> DEFINE p == PartsOf(text)
  <2>1. p \in Seq(Parts) /\ wire[c] \in Seq(Parts) /\ OutputBuffer[c] \in Seq(Parts)
    BY PartsTyped, SentTyped
  <2>2. /\ \A d \in Conns \ {c} : OutputBuffer'[d] = OutputBuffer[d]
        /\ OutputBuffer'[c] = OutputBuffer[c] \o p
    BY <1>2, <2>1, BufferSent
  <2>3. wire' = wire
    BY <1>2 DEF socketVars
  <2> HIDE DEF p
  <2>4. wire'[c] \o OutputBuffer'[c] = (wire[c] \o OutputBuffer[c]) \o p
    <3>1. wire'[c] \o OutputBuffer'[c] = wire[c] \o (OutputBuffer[c] \o p)
      BY <2>2, <2>3
    <3> QED BY <2>1, <3>1, PartsAssociative
  <2> QED BY <2>2, <2>3, <2>4 DEF Goes, Sent, p
<1> QED BY <1>1, <1>2 DEF sendInLoop

\* handleWrite moves parts from OutputBuffer to the socket.
LEMMA WriteKeepsSent ==
    ASSUME ServerInv, NEW l \in Loops, handleWrite(l)
    PROVE  \A d \in Conns : Sent(d)' = Sent(d)
<1>1. PICK c \in Conns : c = current[l]
  BY DEF handleWrite, ServerInv, Typed, TypeOK, LoopsOwn, Owns
<1>2. TypeOK
  BY DEF ServerInv, Typed
<1>3. CASE UNCHANGED <<OutputBuffer, wire>>
  BY <1>3 DEF Sent
<1>4. CASE Written(c, OutputBuffer[c]) /\ OutputBuffer' = [OutputBuffer EXCEPT ![c] = Rest(c, OutputBuffer[c])]
  <2> DEFINE p == OutputBuffer[c]
             k == Takes(c, p)
  <2>1. p \in Seq(Parts) /\ wire[c] \in Seq(Parts)
    BY <1>2, SentTyped
  <2>2. k \in 0..Len(p) /\ Rest(c, p) = SubSeq(p, k + 1, Len(p))
    BY <1>2, <2>1, TakesTyped DEF Rest
  <2>3. /\ \A d \in Conns \ {c} : wire'[d] = wire[d] /\ OutputBuffer'[d] = OutputBuffer[d]
        /\ wire'[c] = wire[c] \o SubSeq(p, 1, k)
        /\ OutputBuffer'[c] = Rest(c, p)
    BY <1>2, <1>4 DEF Written, TypeOK
  <2> HIDE DEF k
  <2>4. wire'[c] \o OutputBuffer'[c] = wire[c] \o p
    <3>1. wire'[c] \o OutputBuffer'[c] = (wire[c] \o SubSeq(p, 1, k)) \o SubSeq(p, k + 1, Len(p))
      BY <2>2, <2>3
    <3> HIDE DEF p
    <3> QED BY <2>1, <2>2, <3>1, SplitConcat
  <2> QED BY <2>3, <2>4 DEF Sent
<1> QED BY <1>1, <1>3, <1>4 DEF handleWrite, socketVars

\* The functors that wait were waiting before.
StillQueued ==
    \A l \in Loops : \A i \in 1..Len(queue'[l]) :
        \E j \in 1..Len(queue[l]) : queue'[l][i] = queue[l][j]

\* Or they are no texts.
NoNewText ==
    \A l \in Loops : \A i \in 1..Len(queue'[l]) :
        queue'[l][i].do = "sendInLoop" => \E j \in 1..Len(queue[l]) : queue'[l][i] = queue[l][j]

\* Nothing goes out and no text is queued.
LEMMA SameOrder ==
    ASSUME OrderInv, \A c \in Conns : Sent(c)' = Sent(c), sends' = sends, NoNewText, QueuedInOrder'
    PROVE  OrderInv'
<1>1. SentInOrder'
  BY DEF OrderInv, SentInOrder
<1>2. ASSUME NEW l \in Loops, NEW c \in Conns, NEW i \in 1..Len(queue'[l]), queue'[l][i].conn = c,
             queue'[l][i].do = "sendInLoop"
      PROVE  Fresh(l, queue'[l][i], Sent(c)', sends')
  <2>1. PICK j \in 1..Len(queue[l]) : queue'[l][i] = queue[l][j]
    BY <1>2 DEF NoNewText
  <2>2. Fresh(l, queue[l][j], Sent(c), sends)
    BY <1>2, <2>1 DEF OrderInv, TextsFresh
  <2> QED BY <2>1, <2>2
<1>3. TextsFresh'
  BY <1>2 DEF TextsFresh, Fresh
<1> QED BY <1>1, <1>3 DEF OrderInv

\* Nor does any queue change.
LEMMA QuietOrder ==
    ASSUME OrderInv, \A c \in Conns : Sent(c)' = Sent(c), sends' = sends, queue' = queue
    PROVE  OrderInv'
<1>1. NoNewText /\ QueuedInOrder'
  BY DEF NoNewText, OrderInv, QueuedInOrder
<1> QED BY <1>1, SameOrder

\* What may follow what went out may follow it still.
LEMMA UpToMore ==
    ASSUME NEW out \in Seq(Parts), NEW n \in Nat, NEW m \in Nat, n <= m, UpTo(out, n)
    PROVE  UpTo(out, m)
<1> SUFFICES ASSUME NEW k \in 1..Len(out) PROVE out[k][1][2] <= m
  BY DEF UpTo
<1>1. out[k] \in Parts
  OBVIOUS
<1> QED BY <1>1, PartFacts DEF UpTo

\* The next text is no later than the numbers given,
LEMMA UpToText ==
    ASSUME NEW out \in Seq(Parts), NEW text \in Texts, NEW n \in Nat, UpTo(out, n), text[2] <= n
    PROVE  UpTo(out \o PartsOf(text), n)
<1> SUFFICES ASSUME NEW k \in 1..Len(out \o PartsOf(text))
             PROVE  (out \o PartsOf(text))[k][1][2] <= n
  BY DEF UpTo
<1> QED BY ConcatTexts DEF UpTo

\* and those that wait come after it if they did before and its thread is
\* another.
LEMMA AfterText ==
    ASSUME NEW out \in Seq(Parts), NEW text \in Texts, NEW late, After(out, late),
           text[1] = late[1] => text[2] < late[2]
    PROVE  After(out \o PartsOf(text), late)
<1> SUFFICES ASSUME NEW k \in 1..Len(out \o PartsOf(text)),
                    (out \o PartsOf(text))[k][1][1] = late[1]
             PROVE  (out \o PartsOf(text))[k][1][2] < late[2]
  BY DEF After
<1> QED BY ConcatTexts DEF After

\* A new number comes after all that went out.
LEMMA NewAfter ==
    ASSUME NEW out \in Seq(Parts), NEW n \in Nat, UpTo(out, n), NEW text, text[2] = n + 1
    PROVE  After(out, text)
<1> SUFFICES ASSUME NEW k \in 1..Len(out) PROVE out[k][1][2] < n + 1
  BY DEF After
<1>1. out[k] \in Parts
  OBVIOUS
<1> QED BY <1>1, PartFacts DEF UpTo

\* A text goes out on c in its turn.
LEMMA SentFollows ==
    ASSUME TypeOK, sends' \in Nat, sends <= sends', SentInOrder, NEW c \in Conns, NEW text \in Texts,
           Goes(c, text), text[2] <= sends', After(Sent(c), text)
    PROVE  SentInOrder'
<1>1. sends \in Nat
  BY DEF TypeOK
<1>2. ASSUME NEW d \in Conns PROVE Ordered(Sent(d)') /\ UpTo(Sent(d)', sends')
  <2>1. Sent(d) \in Seq(Parts) /\ Ordered(Sent(d)) /\ UpTo(Sent(d), sends')
    BY <1>1, SentTyped, UpToMore DEF SentInOrder
  <2>2. CASE Sent(d)' = Sent(d)
    BY <2>1, <2>2
  <2>3. CASE d = c /\ Sent(d)' = Sent(d) \o PartsOf(text)
    BY <2>1, <2>3, OrderedAppend, UpToText
  <2> QED BY <2>2, <2>3 DEF Goes
<1> QED BY <1>2 DEF SentInOrder

\* A text that waits in a queue is a text.
LEMMA QueuedText ==
    ASSUME TypeOK, NEW l \in Loops, NEW i \in 1..Len(queue[l]), queue[l][i].do = "sendInLoop"
    PROVE  queue[l][i].conn \in Conns /\ queue[l][i].text \in Sends /\ queue[l][i].text[2] \in Nat
<1>1. queue[l] \in Seq(Functors)
  BY DEF TypeOK
<1>2. queue[l][i] \in Functors
  BY <1>1
<1>3. queue[l][i].conn \in Conns /\ queue[l][i].text \in Sends
  BY <1>2 DEF Functors
<1>4. queue[l][i].text[2] \in 1..MaxSends
  BY <1>3 DEF Sends
<1> QED BY <1>3, <1>4, ServerAssumption

\* The connection's loop sends: nothing of its own waits in its queue.
LEMMA DirectOrder ==
    ASSUME ServerInv, OrderInv, NEW l \in Loops, NEW d \in registered, loopOf[d] = l,
           CanSend, sendInLoop(d, Text(l)), queue' = queue
    PROVE  OrderInv'
<1>1. TypeOK /\ QueuesOrdered
  BY DEF ServerInv, Typed
<1>2. d \in Conns /\ l \in Senders
  BY <1>1, Names DEF TypeOK
<1>3. Text(l) \in Texts /\ sends' = sends + 1 /\ sends \in Nat
  BY <1>1, <1>2, NextText
<1>4. /\ sends' \in Nat /\ sends <= sends'
      /\ Text(l)[1] = l /\ Text(l)[2] = sends + 1 /\ Text(l)[2] <= sends'
  BY <1>3 DEF Text
<1>5. Goes(d, Text(l))
  BY <1>1, <1>2, <1>3, SendSent
<1>6. After(Sent(d), Text(l))
  <2>1. Sent(d) \in Seq(Parts) /\ UpTo(Sent(d), sends)
    BY <1>1, <1>2, SentTyped DEF OrderInv, SentInOrder
  <2> QED BY <1>3, <1>4, <2>1, NewAfter
<1>7. SentInOrder'
  BY <1>1, <1>2, <1>3, <1>4, <1>5, <1>6, SentFollows DEF OrderInv
<1>8. ASSUME NEW m \in Loops, NEW c \in Conns, NEW i \in 1..Len(queue[m]), queue[m][i].conn = c,
             queue[m][i].do = "sendInLoop"
      PROVE  Fresh(m, queue[m][i], Sent(c)', sends')
  <2>1. Fresh(m, queue[m][i], Sent(c), sends) /\ queue[m][i].text[2] \in Nat
    BY <1>1, <1>8, QueuedText DEF OrderInv, TextsFresh
  <2>2. loopOf[c] = m
    BY <1>1, <1>8 DEF QueuesOrdered, Due
  <2>3. queue[m][i].text[2] <= sends' /\ queue[m][i].text[1] # m
    BY <1>3, <1>8, <2>1 DEF Fresh
  <2>4. After(Sent(c)', queue[m][i].text)
    <3>1. After(Sent(c), queue[m][i].text) /\ Sent(c) \in Seq(Parts)
      BY <1>1, <1>8, <2>1, SentTyped DEF Fresh
    <3>2. CASE Sent(c)' = Sent(c)
      BY <3>1, <3>2
    <3>3. CASE c = d /\ Sent(c)' = Sent(c) \o PartsOf(Text(l))
      <4>1. Text(l)[1] # queue[m][i].text[1]
        BY <1>4, <2>2, <2>3, <3>3
      <4> QED BY <1>3, <3>1, <3>3, <4>1, AfterText
    <3> QED BY <1>5, <3>2, <3>3 DEF Goes
  <2> QED BY <2>3, <2>4 DEF Fresh
<1>9. TextsFresh'
  BY <1>8 DEF TextsFresh, Fresh
<1> QED BY <1>7, <1>9 DEF OrderInv, QueuedInOrder

\* A queued text goes out: the next of its thread is further behind.
LEMMA RunOrder ==
    ASSUME ServerInv, OrderInv, NEW l \in Loops, queue[l] # <<>>,
           queue' = [queue EXCEPT ![l] = Tail(@)], sends' = sends,
           NEW f, f = Head(queue[l]), f.do = "sendInLoop", NEW bytes \in {"own", "freed"},
           sendInLoop(f.conn, TextOf(f.text, bytes))
    PROVE  OrderInv'
<1>1. TypeOK /\ QueuesOrdered
  BY DEF ServerInv, Typed
<1>2. queue[l] \in Seq(Functors) /\ queue \in [Loops \cup {Base} -> Seq(Functors)]
  BY <1>1 DEF TypeOK
<1>3. 1 \in 1..Len(queue[l]) /\ f = queue[l][1]
  <2>1. Len(queue[l]) \in Nat \ {0} /\ Head(queue[l]) = queue[l][1]
    BY <1>2, TailFacts
  <2> QED BY <2>1
<1> DEFINE text == TextOf(f.text, bytes)
<1>4. /\ f.conn \in Conns /\ f.text[2] \in Nat /\ Due(l, f)
      /\ text \in Texts /\ text[1] = f.text[1] /\ text[2] = f.text[2]
  BY <1>1, <1>3, QueuedText, TextTyped DEF QueuesOrdered
<1>5. Goes(f.conn, text)
  BY <1>1, <1>4, SendSent
<1> HIDE DEF text
<1>6. Fresh(l, f, Sent(f.conn), sends) /\ sends \in Nat
  BY <1>1, <1>3, <1>4 DEF OrderInv, TextsFresh, TypeOK
<1>7. SentInOrder'
  <2>1. text[2] <= sends' /\ After(Sent(f.conn), text)
    BY <1>4, <1>6 DEF Fresh, After
  <2> QED BY <1>1, <1>4, <1>5, <1>6, <2>1, SentFollows DEF OrderInv
<1>8. /\ queue'[l] = Tail(queue[l])
      /\ \A m \in Loops \ {l} : queue'[m] = queue[m]
  BY <1>2
<1>9. /\ InRow(Tail(queue[l]))
      /\ \A i \in 1..Len(Tail(queue[l])) : Ahead(f, Tail(queue[l])[i])
  BY <1>2, InRowTail DEF OrderInv, QueuedInOrder
<1>10. QueuedInOrder'
  BY <1>8, <1>9 DEF OrderInv, QueuedInOrder
<1>11. ASSUME NEW m \in Loops, NEW c \in Conns, NEW i \in 1..Len(queue'[m]), queue'[m][i].conn = c,
              queue'[m][i].do = "sendInLoop"
       PROVE  Fresh(m, queue'[m][i], Sent(c)', sends')
  <2>1. PICK j \in 1..Len(queue[m]) : queue'[m][i] = queue[m][j]
    <3>1. CASE m = l
      BY <1>2, <1>8, <3>1, TailFrom
    <3> QED BY <1>8, <3>1
  <2>2. Fresh(m, queue[m][j], Sent(c), sends) /\ queue[m][j].conn = c /\ queue[m][j].do = "sendInLoop"
    BY <1>11, <2>1 DEF OrderInv, TextsFresh
  <2>3. loopOf[c] = m
    BY <1>1, <2>2 DEF QueuesOrdered, Due
  <2>4. After(Sent(c)', queue[m][j].text)
    <3>1. After(Sent(c), queue[m][j].text) /\ Sent(c) \in Seq(Parts)
      BY <1>1, <2>2, SentTyped DEF Fresh
    <3>2. CASE Sent(c)' = Sent(c)
      BY <3>1, <3>2
    <3>3. CASE c = f.conn /\ Sent(c)' = Sent(c) \o PartsOf(text)
      <4>1. m = l
        BY <1>4, <2>3, <3>3 DEF Due
      <4>2. Ahead(f, queue'[m][i])
        BY <1>8, <1>9, <4>1
      <4>3. f.text[1] = queue[m][j].text[1] => f.text[2] < queue[m][j].text[2]
        BY <2>1, <2>2, <3>3, <4>2 DEF Ahead
      <4> QED BY <1>4, <3>1, <3>3, <4>3, AfterText
    <3> QED BY <1>5, <3>2, <3>3 DEF Goes
  <2> QED BY <2>1, <2>2, <2>4 DEF Fresh
<1>12. TextsFresh'
  BY <1>11 DEF TextsFresh, Fresh
<1> QED BY <1>7, <1>10, <1>12 DEF OrderInv

\* A text is queued: it is the newest, and its thread is not the connection's loop.
LEMMA PushOrder ==
    ASSUME ServerInv, OrderInv, NEW t \in Senders, Push(t)
    PROVE  OrderInv'
<1> DEFINE d == target[t]
           f == [do |-> "sendInLoop", conn |-> d, text |-> <<t, sends + 1>>]
<1>1. TypeOK /\ QueuesOrdered /\ SendersLock /\ Stages
  BY DEF ServerInv, Typed
<1>2. step[t] = "push" /\ sends' = sends + 1 /\ Queued(loopOf[d], f)
  BY DEF Push
<1>3. d # None /\ ConnMutex = t /\ Ready(d) /\ (t \in Loops => loopOf[d] # t)
  BY <1>1, <1>2 DEF SendersLock, Locks
<1>4. d \in Conns /\ loopOf[d] \in Loops /\ t # loopOf[d]
  <2>1. d \in Conns /\ d \in registered
    BY <1>1, <1>3 DEF TypeOK, Ready
  <2>2. loopOf[d] \in Loops
    BY <1>1, <2>1 DEF Stages, Stage
  <2> QED BY <1>3, <2>1, <2>2
<1>5. <<t, sends + 1>> \in Sends /\ sends' = sends + 1 /\ sends \in Nat
  BY <1>1, <1>2, <1>3, NextSend
<1>6. f \in Functors
  BY <1>4, <1>5 DEF Functors
<1>7. f.do = "sendInLoop" /\ f.conn = d /\ f.text[1] = t /\ f.text[2] = sends + 1
  OBVIOUS
<1> HIDE DEF f, d
<1>8. PICK l \in Loops : l = loopOf[d]
  BY <1>4
<1>9. queue[l] \in Seq(Functors) /\ queue \in [Loops \cup {Base} -> Seq(Functors)]
  BY <1>1 DEF TypeOK
<1>10. /\ queue'[l] = Append(queue[l], f)
       /\ \A m \in Loops \ {l} : queue'[m] = queue[m]
  BY <1>2, <1>8, <1>9 DEF Queued
<1>11. \A c \in Conns : Sent(c)' = Sent(c) /\ Sent(c) \in Seq(Parts)
  <2>1. UNCHANGED <<wire, OutputBuffer>>
    BY DEF Push, socketVars
  <2> QED BY <1>1, <2>1, SentTyped DEF Sent
<1>12. sends' \in Nat /\ sends <= sends' /\ f.text[2] <= sends'
  BY <1>5, <1>7
<1>13. SentInOrder'
  <2>1. ASSUME NEW c \in Conns PROVE Ordered(Sent(c)') /\ UpTo(Sent(c)', sends')
    BY <1>5, <1>11, <1>12, UpToMore DEF OrderInv, SentInOrder
  <2> QED BY <2>1 DEF SentInOrder
<1>14. QueuedInOrder'
  <2>1. ASSUME NEW i \in 1..Len(queue[l]), queue[l][i].do = "sendInLoop"
        PROVE  queue[l][i].text[2] < f.text[2]
    <3>1. queue[l][i].conn \in Conns /\ queue[l][i].text[2] \in Nat
      BY <1>1, <2>1, QueuedText
    <3>2. Fresh(l, queue[l][i], Sent(queue[l][i].conn), sends)
      BY <3>1 DEF OrderInv, TextsFresh
    <3>3. queue[l][i].text[2] <= sends
      BY <2>1, <3>2 DEF Fresh
    <3> QED BY <1>5, <1>7, <3>1, <3>3
  <2>2. \A i \in 1..Len(queue[l]) : Ahead(queue[l][i], f)
    BY <2>1 DEF Ahead
  <2>3. InRow(Append(queue[l], f))
    BY <1>6, <1>9, <2>2, InRowAppend DEF OrderInv, QueuedInOrder
  <2> QED BY <1>10, <2>3 DEF OrderInv, QueuedInOrder
<1>15. ASSUME NEW m \in Loops, NEW c \in Conns, NEW i \in 1..Len(queue'[m]), queue'[m][i].conn = c,
              queue'[m][i].do = "sendInLoop"
       PROVE  Fresh(m, queue'[m][i], Sent(c)', sends')
  <2>1. CASE m = l /\ queue'[m][i] = f
    <3>1. After(Sent(c), f.text)
      BY <1>5, <1>7, <1>11, NewAfter DEF OrderInv, SentInOrder
    <3>2. f.text[1] # l
      BY <1>4, <1>7, <1>8
    <3> QED BY <1>11, <1>12, <2>1, <3>1, <3>2 DEF Fresh
  <2>2. ASSUME NEW j \in 1..Len(queue[m]), queue'[m][i] = queue[m][j]
        PROVE  Fresh(m, queue'[m][i], Sent(c)', sends')
    <3>1. Fresh(m, queue[m][j], Sent(c), sends) /\ queue[m][j].text[2] \in Nat
      BY <1>1, <1>15, <2>2, QueuedText DEF OrderInv, TextsFresh
    <3>2. queue[m][j].text[2] <= sends'
      BY <1>5, <1>15, <2>2, <3>1 DEF Fresh
    <3> QED BY <1>11, <2>2, <3>1, <3>2 DEF Fresh
  <2>3. \/ m = l /\ queue'[m][i] = f
        \/ \E j \in 1..Len(queue[m]) : queue'[m][i] = queue[m][j]
    <3>1. CASE m = l
      BY <1>6, <1>9, <1>10, <3>1, AppendFrom
    <3> QED BY <1>10, <3>1
  <2> QED BY <2>1, <2>2, <2>3
<1>16. TextsFresh'
  BY <1>15 DEF TextsFresh, Fresh
<1> QED BY <1>13, <1>14, <1>16 DEF OrderInv

\* A functor that is no text is queued, or none.
LEMMA AppendNoText ==
    ASSUME TypeOK, QueuedInOrder, NEW l, NEW f \in Functors, f.do # "sendInLoop",
           \A m \in Loops : queue'[m] = IF m = l THEN Append(queue[m], f) ELSE queue[m]
    PROVE  NoNewText /\ QueuedInOrder'
<1>1. ASSUME NEW m \in Loops
      PROVE  /\ InRow(queue'[m])
             /\ \A i \in 1..Len(queue'[m]) :
                   queue'[m][i].do = "sendInLoop" => \E j \in 1..Len(queue[m]) : queue'[m][i] = queue[m][j]
  <2>1. queue[m] \in Seq(Functors) /\ InRow(queue[m])
    BY DEF TypeOK, QueuedInOrder
  <2>2. CASE m = l
    <3>1. \A i \in 1..Len(queue[m]) : Ahead(queue[m][i], f)
      BY DEF Ahead
    <3>2. InRow(Append(queue[m], f))
      BY <2>1, <3>1, InRowAppend
    <3>3. queue'[m] = Append(queue[m], f)
      BY <2>2
    <3>4. \A i \in 1..Len(Append(queue[m], f)) :
             Append(queue[m], f)[i].do = "sendInLoop" =>
                 \E j \in 1..Len(queue[m]) : Append(queue[m], f)[i] = queue[m][j]
      BY <2>1, AppendFrom
    <3> QED BY <3>2, <3>3, <3>4, Zenon
  <2>3. CASE m # l
    BY <2>1, <2>3
  <2> QED BY <2>2, <2>3
<1> QED BY <1>1 DEF NoNewText, QueuedInOrder

\* A functor is taken.
LEMMA TailNoText ==
    ASSUME TypeOK, QueuedInOrder, NEW l \in Loops, queue[l] # <<>>,
           queue' = [queue EXCEPT ![l] = Tail(@)]
    PROVE  NoNewText /\ QueuedInOrder'
<1>1. queue[l] \in Seq(Functors) /\ queue \in [Loops \cup {Base} -> Seq(Functors)]
  BY DEF TypeOK
<1>2. /\ queue'[l] = Tail(queue[l])
      /\ \A m \in Loops \ {l} : queue'[m] = queue[m]
  BY <1>1
<1>3. InRow(Tail(queue[l]))
  BY <1>1, InRowTail DEF QueuedInOrder
<1>4. QueuedInOrder'
  BY <1>2, <1>3 DEF QueuedInOrder
<1>5. NoNewText
  BY <1>1, <1>2, TailFrom DEF NoNewText
<1> QED BY <1>4, <1>5

\* The steps of the base loop and of a hang-up queue no text.
LEMMA BaseOrder ==
    ASSUME ServerInv, OrderInv, NewConnection \/ RemoveConnectionInLoop \/ \E l \in Loops : EndClose(l)
    PROVE  OrderInv'
<1>1. TypeOK /\ QueuesOrdered /\ Numbered /\ Stages
  BY DEF ServerInv, Typed
<1>2. \A c \in Conns : Sent(c)' = Sent(c)
  BY DEF NewConnection, RemoveConnectionInLoop, EndClose, socketVars, Sent
<1>3. sends' = sends
  BY DEF NewConnection, RemoveConnectionInLoop, EndClose
<1>4. queue \in [Loops \cup {Base} -> Seq(Functors)] /\ Base \notin Loops
  BY <1>1, Names DEF TypeOK
<1>5. \E l : \E f \in Functors :
         /\ f.do # "sendInLoop"
         /\ \A m \in Loops : queue'[m] = IF m = l THEN Append(queue[m], f) ELSE queue[m]
  <2>1. CASE NewConnection
    <3> DEFINE n == Cardinality({d \in Conns : state[d] # "none"}) + 1
               l == IoLoops[NextLoop + 1]
               f == [do |-> "connectEstablished", conn |-> n]
    <3>1. n \in Conns
      <4>1. n \in Nat /\ n <= MaxConns
        BY <2>1, CountIsNat DEF NewConnection
      <4> QED BY <1>1, <4>1, NextNumber
    <3>2. f \in Functors /\ f.do # "sendInLoop"
      BY <3>1 DEF Functors
    <3>3. Queued(l, f)
      BY <2>1 DEF NewConnection
    <3> HIDE DEF f, l
    <3>4. \A m \in Loops : queue'[m] = IF m = l THEN Append(queue[m], f) ELSE queue[m]
      BY <1>4, <3>3 DEF Queued
    <3> QED BY <3>2, <3>4
  <2>2. CASE RemoveConnectionInLoop
    <3>1. queue[Base] # <<>>
      BY <2>2 DEF RemoveConnectionInLoop
    <3> DEFINE c == Head(queue[Base]).conn
               f == [do |-> "connectDestroyed", conn |-> c]
               l == loopOf[c]
    <3>2. c \in Conns
      <4>1. Head(queue[Base]) \in Functors
        BY <1>4, <3>1, TailFacts
      <4> QED BY <4>1 DEF Functors
    <3>3. f \in Functors /\ f.do # "sendInLoop"
      BY <3>2 DEF Functors
    <3>4. queue' = [queue EXCEPT ![Base] = Tail(@), ![l] = Append(@, f)]
      BY <2>2 DEF RemoveConnectionInLoop
    <3> HIDE DEF f, l
    <3>5. \A m \in Loops : queue'[m] = IF m = l THEN Append(queue[m], f) ELSE queue[m]
      BY <1>4, <3>4
    <3> QED BY <3>3, <3>5
  <2>3. ASSUME NEW l \in Loops, EndClose(l)
        PROVE  \A m \in Loops : queue'[m] = queue[m]
    BY <1>4, <2>3 DEF EndClose, Queued
  <2>4. CASE \E l \in Loops : EndClose(l)
    <3>1. \A m \in Loops : queue'[m] = queue[m]
      BY <2>3, <2>4
    <3>2. PICK l \in Loops : EndClose(l)
      BY <2>4
    <3>3. current[l] \in Conns
      BY <1>1, <3>2 DEF EndClose, ServerInv, LoopsOwn, Owns, TypeOK
    <3>4. PICK f \in Functors : f.do # "sendInLoop"
      <4>1. [do |-> "connectDestroyed", conn |-> current[l]] \in Functors
        BY <3>3 DEF Functors
      <4> QED BY <4>1
    <3>5. \A m \in Loops : queue'[m] = IF m = Base THEN Append(queue[m], f) ELSE queue[m]
      BY <1>4, <3>1
    <3> QED BY <3>4, <3>5
  <2> QED BY <2>1, <2>2, <2>4
<1>6. NoNewText /\ QueuedInOrder'
  BY <1>1, <1>5, AppendNoText DEF OrderInv
<1> QED BY <1>2, <1>3, <1>6, SameOrder

\* What a loop does.
LEMMA MessageOrder ==
    ASSUME ServerInv, OrderInv, NEW l \in Loops, NEW c \in active[l], onMessage(l, c), queue' = queue
    PROVE  OrderInv'
<1>1. c \in registered /\ loopOf[c] = l
  BY DEF ServerInv, LoopsOwn, Owns
<1>2. CASE UNCHANGED <<OutputBuffer, socketVars, sends>>
  <2>1. \A d \in Conns : Sent(d)' = Sent(d)
    BY <1>2 DEF socketVars, Sent
  <2> QED BY <1>2, <2>1, QuietOrder
<1>3. ASSUME NEW d \in registered, loopOf[d] = l, CanSend, sendInLoop(d, Text(l)) PROVE OrderInv'
  BY <1>3, DirectOrder
<1>4. \A d \in Range(UserConnMap) \ {None} : state[d] = "kConnected" => d \in registered
  BY EntryConnected DEF ServerInv, Typed
<1>5. \/ UNCHANGED <<OutputBuffer, socketVars, sends>>
      \/ CanSend /\ sendInLoop(c, Text(l))
      \/ \E d \in Range(UserConnMap) \ {None} :
            state[d] = "kConnected" /\ loopOf[d] = l /\ CanSend /\ sendInLoop(d, Text(l))
  BY DEF onMessage
<1> QED BY <1>1, <1>2, <1>3, <1>4, <1>5

\* Every step of a loop keeps the order.
LEMMA LoopOrder ==
    ASSUME ServerInv, OrderInv, NEW l \in Loops, IoLoop(l)
    PROVE  OrderInv'
<1>1. CASE Poll(l) \/ HandleHangup(l) \/ handleError(l) \/ SkipRead(l)
  <2>1. UNCHANGED <<wire, OutputBuffer, sends, queue>>
    BY <1>1 DEF Poll, HandleHangup, handleError, SkipRead, socketVars, loopVars
  <2>2. \A d \in Conns : Sent(d)' = Sent(d)
    BY <2>1 DEF Sent
  <2> QED BY <2>1, <2>2, QuietOrder
<1>2. CASE handleRead(l)
  <2>1. PICK c \in active[l] :
          /\ \/ onMessage(l, c)
             \/ UNCHANGED <<wire, OutputBuffer, sends>>
          /\ queue' = queue
    BY <1>2 DEF handleRead, socketVars
  <2>2. CASE onMessage(l, c)
    BY <2>1, <2>2, MessageOrder
  <2>3. CASE UNCHANGED <<wire, OutputBuffer, sends>>
    <3>1. \A d \in Conns : Sent(d)' = Sent(d)
      BY <2>3 DEF Sent
    <3> QED BY <2>1, <2>3, <3>1, QuietOrder
  <2> QED BY <2>1, <2>2, <2>3
<1>3. CASE handleWrite(l)
  <2>1. sends' = sends /\ queue' = queue
    BY <1>3 DEF handleWrite
  <2> QED BY <1>3, <2>1, WriteKeepsSent, QuietOrder
<1>4. CASE EndClose(l)
  BY <1>4, BaseOrder
<1>5. CASE Run(l)
  <2>1. PICK f : f = Head(queue[l])
    OBVIOUS
  <2>2. /\ queue[l] # <<>> /\ queue' = [queue EXCEPT ![l] = Tail(@)] /\ sends' = sends
        /\ \/ f.do = "connectEstablished" /\ connectEstablished(f.conn)
           \/ /\ f.do = "sendInLoop" /\ UNCHANGED state
              /\ \E bytes \in {"own", "freed"} : sendInLoop(f.conn, TextOf(f.text, bytes))
           \/ f.do = "connectDestroyed" /\ connectDestroyed(f.conn)
    BY <1>5, <2>1 DEF Run
  <2>3. ASSUME f.do = "sendInLoop", NEW bytes \in {"own", "freed"},
               sendInLoop(f.conn, TextOf(f.text, bytes))
        PROVE  OrderInv'
    BY <2>1, <2>2, <2>3, RunOrder
  <2>4. CASE connectEstablished(f.conn) \/ connectDestroyed(f.conn)
    <3>1. \A d \in Conns : Sent(d)' = Sent(d)
      BY <2>4 DEF connectEstablished, connectDestroyed, socketVars, Sent
    <3>2. NoNewText /\ QueuedInOrder'
      BY <2>2, TailNoText DEF ServerInv, Typed, OrderInv
    <3> QED BY <2>2, <3>1, <3>2, SameOrder
  <2> QED BY <2>2, <2>3, <2>4
<1> QED BY <1>1, <1>2, <1>3, <1>4, <1>5 DEF IoLoop

\* Nothing went out at the start.
LEMMA InitOrder == Init => OrderInv
<1> SUFFICES ASSUME Init PROVE OrderInv
  OBVIOUS
<1>1. \A c \in Conns : Sent(c) = <<>>
  <2>1. <<>> \o <<>> = <<>>
    BY ConcatEmptySeq
  <2> QED BY <2>1 DEF Init, Sent
<1>2. Len(<<>>) = 0 /\ \A l \in Loops : queue[l] = <<>>
  BY DEF Init
<1> QED BY <1>1, <1>2 DEF OrderInv, SentInOrder, Ordered, UpTo, QueuedInOrder, InRow, TextsFresh

\* Every step keeps the order.
LEMMA StepOrder == ServerInv /\ OrderInv /\ [Next]_vars => OrderInv'
<1> SUFFICES ASSUME ServerInv, OrderInv, [Next]_vars PROVE OrderInv'
  OBVIOUS
<1>1. ASSUME UNCHANGED <<wire, OutputBuffer, sends, queue>> PROVE OrderInv'
  <2>1. \A d \in Conns : Sent(d)' = Sent(d)
    BY <1>1 DEF Sent
  <2> QED BY <1>1, <2>1, QuietOrder
<1>2. CASE UNCHANGED vars
  BY <1>1, <1>2 DEF vars, loopVars, socketVars
<1>3. CASE NewConnection \/ RemoveConnectionInLoop
  BY <1>3, BaseOrder
<1>4. CASE \E l \in Loops : IoLoop(l)
  BY <1>4, LoopOrder
<1>5. CASE \E t \in Senders : Push(t)
  BY <1>5, PushOrder
<1>6. CASE \E c \in Conns : Observe(c) \/ Peer(c)
  BY <1>1, <1>6 DEF Observe, Peer, Request, PeerCloses, PeerResets, PeerReads, loopVars, socketVars
<1> QED BY <1>2, <1>3, <1>4, <1>5, <1>6 DEF Next

-----------------------------------------------------------------------------
(* Whose bytes go out.                                                      *)

\* A part that may have lost its bytes came from a thread other than l.
Foreign(p, l) == p[1][3] = "freed" => p[1][1] # l

\* What a connection's own loop sent has its bytes; nothing goes out before there
\* is a connection.
OwnBytes(c) ==
    /\ \A i \in 1..Len(Sent(c)) : Foreign(Sent(c)[i], loopOf[c])
    /\ state[c] = "none" => Sent(c) = <<>>

BytesInv == \A c \in Conns : OwnBytes(c)

\* Nothing goes out, or one text does on one connection.
Grows ==
    \/ \A c \in Conns : Sent(c)' = Sent(c)
    \/ \E c \in registered : \E text \in Texts :
          /\ Goes(c, text)
          /\ text[3] = "freed" => text[1] # loopOf[c]

\* Connections stay on their loops, and only a new one comes to be.
Placed ==
    \A c \in Conns :
        /\ state'[c] = "none" => state[c] = "none"
        /\ state[c] # "none" => loopOf'[c] = loopOf[c]

\* A loop that handles a request sends what it made.
LEMMA MessageGrows ==
    ASSUME ServerInv, NEW l \in Loops, NEW c \in active[l], onMessage(l, c)
    PROVE  Grows
<1>1. TypeOK /\ Stages /\ c \in registered
  BY DEF ServerInv, Typed, LoopsOwn, Owns
<1>2. CASE UNCHANGED <<OutputBuffer, socketVars, sends>>
  BY <1>2 DEF Grows, Sent, socketVars
<1>3. ASSUME NEW d \in registered, CanSend, sendInLoop(d, Text(l)) PROVE Grows
  <2>1. d \in Conns /\ Text(l) \in Texts
    BY <1>1, <1>3, Names, NextText DEF TypeOK
  <2>2. Goes(d, Text(l))
    BY <1>1, <1>3, <2>1, SendSent
  <2>3. Text(l)[3] # "freed"
    BY DEF Text
  <2> QED BY <2>1, <2>2, <2>3 DEF Grows
<1>4. \A d \in Range(UserConnMap) \ {None} : state[d] = "kConnected" => d \in registered
  BY <1>1, EntryConnected
<1>5. \/ UNCHANGED <<OutputBuffer, socketVars, sends>>
      \/ CanSend /\ sendInLoop(c, Text(l))
      \/ \E d \in Range(UserConnMap) \ {None} :
            state[d] = "kConnected" /\ CanSend /\ sendInLoop(d, Text(l))
  BY DEF onMessage
<1> QED BY <1>1, <1>2, <1>3, <1>4, <1>5

\* What comes over the queue comes from another thread.
LEMMA RunGrows ==
    ASSUME ServerInv, OrderInv, NEW l \in Loops, Run(l)
    PROVE  Grows
<1>1. TypeOK /\ QueuesOrdered
  BY DEF ServerInv, Typed
<1>2. PICK f : f = Head(queue[l])
  OBVIOUS
<1>3. /\ queue[l] # <<>>
      /\ \/ connectEstablished(f.conn) \/ connectDestroyed(f.conn)
         \/ /\ f.do = "sendInLoop"
            /\ \E bytes \in {"own", "freed"} : sendInLoop(f.conn, TextOf(f.text, bytes))
  BY <1>2 DEF Run
<1>4. CASE connectEstablished(f.conn) \/ connectDestroyed(f.conn)
  BY <1>4 DEF connectEstablished, connectDestroyed, socketVars, Grows, Sent
<1>5. ASSUME f.do = "sendInLoop", NEW bytes \in {"own", "freed"},
             sendInLoop(f.conn, TextOf(f.text, bytes))
      PROVE  Grows
  <2> DEFINE text == TextOf(f.text, bytes)
  <2>1. 1 \in 1..Len(queue[l]) /\ f = queue[l][1]
    <3>1. queue[l] \in Seq(Functors)
      BY <1>1 DEF TypeOK
    <3>2. Len(queue[l]) \in Nat \ {0} /\ Head(queue[l]) = queue[l][1]
      BY <1>3, <3>1, TailFacts
    <3> QED BY <1>2, <3>2
  <2>2. f.conn \in Conns /\ text \in Texts /\ text[1] = f.text[1] /\ Due(l, f)
    BY <1>1, <1>5, <2>1, QueuedText, TextTyped DEF QueuesOrdered
  <2>3. Goes(f.conn, text)
    BY <1>1, <1>5, <2>2, SendSent
  <2>4. f.text[1] # l
    BY <1>5, <2>1, <2>2 DEF OrderInv, TextsFresh, Fresh
  <2>5. f.conn \in registered /\ loopOf[f.conn] = l
    BY <1>5, <2>2 DEF Due
  <2> HIDE DEF text
  <2> QED BY <2>2, <2>3, <2>4, <2>5 DEF Grows
<1> QED BY <1>3, <1>4, <1>5

LEMMA LoopGrows ==
    ASSUME ServerInv, OrderInv, NEW l \in Loops, IoLoop(l)
    PROVE  Grows
<1>1. CASE Poll(l) \/ HandleHangup(l) \/ handleError(l) \/ SkipRead(l) \/ EndClose(l)
  BY <1>1 DEF Poll, HandleHangup, handleError, SkipRead, EndClose, socketVars, Grows, Sent
<1>2. CASE handleRead(l)
  <2>1. PICK c \in active[l] : onMessage(l, c) \/ UNCHANGED <<wire, OutputBuffer>>
    BY <1>2 DEF handleRead, socketVars
  <2> QED BY <2>1, MessageGrows DEF Grows, Sent
<1>3. CASE handleWrite(l)
  BY <1>3, WriteKeepsSent DEF Grows
<1>4. CASE Run(l)
  BY <1>4, RunGrows
<1> QED BY <1>1, <1>2, <1>3, <1>4 DEF IoLoop

\* Every step sends as it should,
LEMMA StepGrows == ServerInv /\ OrderInv /\ [Next]_vars => Grows
<1> SUFFICES ASSUME ServerInv, OrderInv, [Next]_vars PROVE Grows
  OBVIOUS
<1>1. CASE UNCHANGED <<wire, OutputBuffer>>
  BY <1>1 DEF Grows, Sent
<1>2. ASSUME NEW l \in Loops, IoLoop(l) PROVE Grows
  BY <1>2, LoopGrows
<1>3. \/ UNCHANGED <<wire, OutputBuffer>>
      \/ \E l \in Loops : IoLoop(l)
  BY DEF Next, vars, NewConnection, RemoveConnectionInLoop, Push, Observe, Peer, Request,
         PeerCloses, PeerResets, PeerReads, socketVars
<1> QED BY <1>1, <1>2, <1>3

\* and moves no connection.
LEMMA StepPlaces == ServerInv /\ [Next]_vars => Placed
<1> SUFFICES ASSUME ServerInv, [Next]_vars PROVE Placed
  OBVIOUS
<1>1. TypeOK /\ Numbered
  BY DEF ServerInv, Typed
<1>2. CASE NewConnection
  <2> DEFINE n == Cardinality({d \in Conns : state[d] # "none"}) + 1
  <2>1. n \in Nat /\ n <= MaxConns
    BY <1>2, CountIsNat DEF NewConnection
  <2>2. n \in Conns /\ \A d \in Conns : state[d] # "none" <=> d < n
    BY <1>1, <2>1, NextNumber
  <2>3. \E l : /\ loopOf' = [loopOf EXCEPT ![n] = l]
               /\ state' = [state EXCEPT ![n] = "kConnecting"]
    BY <1>2 DEF NewConnection
  <2>4. state[n] = "none"
    BY <2>1, <2>2
  <2> HIDE DEF n
  <2> QED BY <1>1, <2>2, <2>3, <2>4 DEF TypeOK, Placed
<1>3. CASE UNCHANGED <<loopOf, state>>
  BY <1>3 DEF Placed
<1>4. ASSUME NEW l \in Loops, IoLoop(l) PROVE Placed
  <2>1. loopOf' = loopOf
    BY <1>4 DEF IoLoop, Poll, HandleHangup, handleError, handleRead, SkipRead, handleWrite,
                EndClose, Run, serverVars
  <2>2. \/ state' = state
        \/ \E c : state' = [state EXCEPT ![c] = "kConnected"]
        \/ \E c : state' = [state EXCEPT ![c] = "kDisconnected"]
    BY <1>4 DEF IoLoop, Poll, HandleHangup, handleError, handleRead, SkipRead, handleWrite,
                EndClose, Run, BeginClose, connectEstablished, connectDestroyed
  <2> QED BY <1>1, <2>1, <2>2 DEF TypeOK, Placed
<1>5. \/ NewConnection \/ UNCHANGED <<loopOf, state>>
      \/ \E l \in Loops : IoLoop(l)
  BY DEF Next, vars, RemoveConnectionInLoop, Push, Observe, Peer, Request,
         PeerCloses, PeerResets, PeerReads, serverVars
<1> QED BY <1>2, <1>3, <1>4, <1>5

\* So every step keeps whose bytes go out.
LEMMA StepBytes == ServerInv /\ OrderInv /\ BytesInv /\ [Next]_vars => BytesInv'
<1> SUFFICES ASSUME ServerInv, OrderInv, BytesInv, [Next]_vars, NEW c \in Conns PROVE OwnBytes(c)'
  BY DEF BytesInv
<1>1. Grows /\ Placed
  BY StepGrows, StepPlaces
<1>2. OwnBytes(c) /\ TypeOK /\ Stages
  BY DEF BytesInv, ServerInv, Typed
<1>3. CASE Sent(c)' = Sent(c)
  <2>1. CASE state[c] = "none"
    <3>1. Sent(c)' = <<>>
      BY <1>2, <1>3, <2>1 DEF OwnBytes
    <3> QED BY <3>1 DEF OwnBytes
  <2>2. CASE state[c] # "none"
    <3>1. loopOf'[c] = loopOf[c] /\ state'[c] # "none"
      BY <1>1, <2>2 DEF Placed
    <3> QED BY <1>2, <1>3, <3>1 DEF OwnBytes
  <2> QED BY <2>1, <2>2
<1>4. ASSUME c \in registered, NEW text \in Texts, Sent(c)' = Sent(c) \o PartsOf(text),
             text[3] = "freed" => text[1] # loopOf[c]
      PROVE  OwnBytes(c)'
  <2>1. loopOf'[c] = loopOf[c] /\ state'[c] # "none"
    BY <1>1, <1>2, <1>4 DEF Placed, Stages, Stage
  <2>2. Sent(c) \in Seq(Parts)
    BY <1>2, SentTyped
  <2>3. ASSUME NEW i \in 1..Len(Sent(c) \o PartsOf(text))
        PROVE  Foreign((Sent(c) \o PartsOf(text))[i], loopOf[c])
    BY <1>2, <1>4, <2>2, ConcatTexts DEF OwnBytes, Foreign
  <2> QED BY <1>4, <2>1, <2>3 DEF OwnBytes
<1> QED BY <1>1, <1>3, <1>4 DEF Grows, Goes

\* What goes out on a connection is as many bytes as each text has, one text after
\* the other, those of one thread in the order in which it sent them, and only texts
\* of other threads than the connection's loop may have lost their bytes
\* (sendInLoop, handleWrite and the queue that send uses, TcpConnection.cpp).
THEOREM TextsGoInOrder == Spec => []InOrder
<1>1. ServerInv /\ OrderInv /\ [Next]_vars => OrderInv'
  BY StepOrder
<1>2. ServerInv /\ OrderInv /\ BytesInv /\ [Next]_vars => BytesInv'
  BY StepBytes
<1>3. Init => BytesInv
  <2>1. <<>> \o <<>> = <<>> /\ Len(<<>>) = 0
    BY ConcatEmptySeq
  <2> QED BY <2>1 DEF Init, BytesInv, OwnBytes, Sent
<1>4. OrderInv /\ BytesInv => InOrder
  <2> SUFFICES ASSUME OrderInv, BytesInv, NEW c \in Conns
               PROVE  /\ Ordered(Sent(c))
                      /\ \A i \in 1..Len(Sent(c)) : Foreign(Sent(c)[i], loopOf[c])
    BY DEF Ordered, InOrder, Sent, Foreign
  <2> QED BY DEF OrderInv, SentInOrder, BytesInv, OwnBytes
<1> QED BY <1>1, <1>2, <1>3, <1>4, InitOrder, ServerInvariance, PTL DEF Spec
=============================================================================
