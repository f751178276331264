------------------------------ MODULE ChatService ------------------------------
(****************************************************************************)
(* Sessions, presence and message routing of the chat server: the request   *)
(* handlers of chatservice.cpp, run concurrently by the I/O threads of one  *)
(* or more server processes that share the MySQL tables `user' and          *)
(* `offlinemessage' and one Redis broker (utils/redis.cpp).                 *)
(*                                                                          *)
(* A thread is a connection or a server: a connection's handlers run one at *)
(* a time on its I/O loop (at most four connections per server, so each has *)
(* a loop of its own), and a server stands for its Redis observer thread.   *)
(* A step is one critical section under ConnMutex, one SQL statement or one *)
(* Redis command; between two steps any other thread may run.               *)
(*                                                                          *)
(* Clients follow client.cpp: a client sends nothing between LOGIN_MSG and  *)
(* its ack, chats only while signed in, and signs out the user it signed in *)
(* as.  Message texts, names, friend and group lists are abstracted.        *)
(****************************************************************************)
EXTENDS Integers, Sequences

CONSTANTS
    Users,          \* rows of the table user, by id
    Servers,        \* server processes
    Conns,          \* connections accepted during a behaviour
    Home,           \* Home[c]: the server that accepts connection c
    Msgs,           \* message payloads, each posted once
    None,           \* no user, no connection, no thread, no message
    SerialLogins,   \* a user's client starts a login only when no server
                    \* thread is still working on an earlier login of the user
    MaxCmds,        \* bound: SUBSCRIBE/UNSUBSCRIBE commands waiting in a
                    \* server's socket when a handler that writes one begins
    MaxFaults,      \* bound: failing MySQL and Redis calls
    MaxRestarts     \* bound: server restarts

ASSUME ChatAssumption ==
    /\ Home \in [Conns -> Servers]
    /\ Conns \cap Servers = {}
    /\ None \notin Users \cup Conns \cup Servers \cup Msgs
    /\ SerialLogins \in BOOLEAN
    /\ MaxCmds \in Nat \ {0}
    /\ MaxFaults \in Nat
    /\ MaxRestarts \in Nat

VARIABLES
    conn,           \* conn[c]: TcpConnection state as the handlers see it
    session,        \* session[c]: the user signed in on c (g_currentUser)
    pc,             \* pc[t]: where thread t is
    user,           \* user[t]: local id / toid / user.getId() of t
    msg,            \* msg[t]: the message t is routing
    todo,           \* todo[t]: the rest of groupChat's useridVec
    UserConnMap,    \* UserConnMap[s][u]
    ConnMutex,      \* ConnMutex[s]: the thread holding it across steps
    state,          \* column user.state
    offlinemessage, \* offlinemessage[u][m]: number of rows
    subs,           \* Redis: subs[u], the servers subscribed to channel u
    cmds,           \* cmds[s]: commands written to SubcribeContext, not yet
                    \* executed by Redis
    inbox,          \* inbox[s]: published messages on their way to s
    posted,         \* history: <<u, m>> such that m was addressed to u
    received,       \* history: times m was handed to the send of an open
                    \* connection of u
    lost,           \* history: times a copy of m for u was dropped
    faults,         \* failing calls so far
    restarts        \* server restarts so far

clientVars  == <<conn, session>>
localVars   == <<user, msg, todo>>
mapVars     == <<UserConnMap, ConnMutex>>
dbVars      == <<state, offlinemessage>>
redisVars   == <<subs, cmds, inbox>>
historyVars == <<posted, received, lost>>
boundVars   == <<faults, restarts>>
vars == <<clientVars, pc, localVars, mapVars, dbVars, redisVars, historyVars,
          boundVars>>

Threads == Conns \cup Servers

LoginSteps  == {"insert", "subscribe", "setOnline", "ack"}
LeaveSteps  == {"unsubscribe", "setOffline"}
GroupSteps  == {"groupLoop", "groupQuery", "groupPublish", "groupStore"}
ConnSteps   == {"idle", "closeErase", "chatQuery", "chatPublish", "chatStore",
                "groupLock"} \cup LoginSteps \cup LeaveSteps \cup GroupSteps
ObserverSteps == {"idle", "store"}

\* What the server processes and their clients hold.
ProcessTypes ==
    /\ conn \in [Conns -> {"new", "open", "closed"}]
    /\ session \in [Conns -> Users \cup {None}]
    /\ pc \in [Threads -> ConnSteps \cup ObserverSteps]
    /\ \A c \in Conns : pc[c] \in ConnSteps
    /\ \A s \in Servers : pc[s] \in ObserverSteps
    /\ user \in [Threads -> Users \cup {None}]
    /\ msg \in [Threads -> Msgs \cup {None}]
    /\ todo \in [Threads -> SUBSET Users]
    /\ UserConnMap \in [Servers -> [Users -> Conns \cup {None}]]
    /\ ConnMutex \in [Servers -> Threads \cup {None}]

\* What MySQL and Redis hold.
StoreTypes ==
    /\ state \in [Users -> {"online", "offline"}]
    /\ offlinemessage \in [Users -> [Msgs -> Nat]]
    /\ subs \in [Users -> SUBSET Servers]
    /\ cmds \in [Servers -> Seq([op : {"sub", "unsub"}, user : Users])]
    /\ inbox \in [Servers -> Seq([user : Users, msg : Msgs])]

HistoryTypes ==
    /\ posted \in SUBSET (Users \X Msgs)
    /\ received \in [Users -> [Msgs -> Nat]]
    /\ lost \in [Users -> [Msgs -> Nat]]
    /\ faults \in 0..MaxFaults
    /\ restarts \in 0..MaxRestarts

TypeOK == ProcessTypes /\ StoreTypes /\ HistoryTypes

Init ==
    /\ conn = [c \in Conns |-> "new"]
    /\ session = [c \in Conns |-> None]
    /\ pc = [t \in Threads |-> "idle"]
    /\ user = [t \in Threads |-> None]
    /\ msg = [t \in Threads |-> None]
    /\ todo = [t \in Threads |-> {}]
    /\ UserConnMap = [s \in Servers |-> [u \in Users |-> None]]
    /\ ConnMutex = [s \in Servers |-> None]
    /\ state = [u \in Users |-> "offline"]
    /\ offlinemessage = [u \in Users |-> [m \in Msgs |-> 0]]
    /\ subs = [u \in Users |-> {}]
    /\ cmds = [s \in Servers |-> <<>>]
    /\ inbox = [s \in Servers |-> <<>>]
    /\ posted = {}
    /\ received = [u \in Users |-> [m \in Msgs |-> 0]]
    /\ lost = [u \in Users |-> [m \in Msgs |-> 0]]
    /\ faults = 0
    /\ restarts = 0

-----------------------------------------------------------------------------
(* Helpers: the calls the handlers are made of.                             *)

ServerOf(t) == IF t \in Conns THEN Home[t] ELSE t

Free(s) == ConnMutex[s] = None

Idle(c) == conn[c] = "open" /\ pc[c] = "idle"

\* The bound on cmds: a handler that writes a command begins only below it.
Room(c) == Len(cmds[Home[c]]) < MaxCmds

Goto(t, step) == pc' = [pc EXCEPT ![t] = step]

\* A MySQL call fails when getConnection times out or the statement is
\* rejected, a Redis call when hiredis reports an error; every caller ignores
\* the result or takes the default value.
Fails == faults < MaxFaults /\ faults' = faults + 1 /\ UNCHANGED restarts

Works == UNCHANGED boundVars

Bump(count, u, m) == [count EXCEPT ![u][m] = @ + 1]

\* it->second->send(...): TcpConnection::send drops the text unless the
\* connection is in state kConnected; what becomes of a text it takes is not a
\* matter of the chat service.
SendTo(c, u, m) ==
    IF conn[c] = "open"
    THEN received' = Bump(received, u, m) /\ UNCHANGED lost
    ELSE lost' = Bump(lost, u, m) /\ UNCHANGED received

\* Redis::subscribe and Redis::unsubscribe write a command and do not wait for
\* the broker to execute it.
WriteCommand(s, op, u) ==
    \/ /\ cmds' = [cmds EXCEPT ![s] = Append(@, [op |-> op, user |-> u])]
       /\ Works
    \/ Fails /\ UNCHANGED cmds

Forget(t) ==
    /\ user' = [user EXCEPT ![t] = None]
    /\ msg' = [msg EXCEPT ![t] = None]
    /\ UNCHANGED todo

-----------------------------------------------------------------------------
(* Connections.                                                             *)

\* A new connection: onConnection does nothing for a connected one.
Accept(c) ==
    /\ conn[c] = "new"
    /\ conn' = [conn EXCEPT ![c] = "open"]
    /\ UNCHANGED <<session, pc, localVars, mapVars, dbVars, redisVars,
                   historyVars, boundVars>>

\* The peer is gone: handleClose leaves the connection kDisconnected before it
\* calls onConnection.
Close(c) ==
    /\ Idle(c)
    /\ Room(c)
    /\ conn' = [conn EXCEPT ![c] = "closed"]
    /\ Goto(c, "closeErase")
    /\ UNCHANGED <<session, localVars, mapVars, dbVars, redisVars,
                   historyVars, boundVars>>

\* Mutant: the entry of a lost connection is found but not erased.
CloseEraseKeepsEntry(c) ==
    \E u \in Users :
        /\ pc[c] = "closeErase"
        /\ UserConnMap[Home[c]][u] = c
        /\ user' = [user EXCEPT ![c] = u]
        /\ session' = [session EXCEPT ![c] = None]
        /\ Goto(c, "unsubscribe")
        /\ UNCHANGED <<conn, msg, todo, mapVars, dbVars, redisVars, historyVars, boundVars>>

\* clientCloseException: the first entry that holds this connection is erased,
\* whichever the iteration meets first; without one, unsubscribe(-1) touches
\* no channel of a user.
CloseErase(c) ==
    LET s == Home[c] IN
    /\ pc[c] = "closeErase"
    /\ Free(s)
    /\ session' = [session EXCEPT ![c] = None]
    /\ \/ \E u \in Users :
            /\ UserConnMap[s][u] = c
            /\ UserConnMap' = [UserConnMap EXCEPT ![s][u] = None]
            /\ user' = [user EXCEPT ![c] = u]
            /\ Goto(c, "unsubscribe")
       \/ /\ \A u \in Users : UserConnMap[s][u] # c
          /\ Goto(c, "idle")
          /\ UNCHANGED <<UserConnMap, user>>
    /\ UNCHANGED <<conn, msg, todo, ConnMutex, dbVars, redisVars,
                   historyVars, boundVars>>

-----------------------------------------------------------------------------
(* login                                                                    *)

SigningIn(c, u) == pc[c] \in LoginSteps /\ user[c] = u

\* Mutant: the state of the row is not looked at.
LoginQueryAnyState(c, u) ==
    /\ Idle(c)
    /\ Room(c)
    /\ session[c] = None
    /\ SerialLogins => \A d \in Conns \ {c} : ~ SigningIn(d, u)
    /\ user' = [user EXCEPT ![c] = u]
    /\ Goto(c, "insert")
    /\ UNCHANGED <<conn, session, msg, todo, mapVars, dbVars, redisVars,
                   historyVars, boundVars>>

\* userModel.query finds the row, the password is right and the state is not
\* "online".  The other two answers, errno 1 (also after a failed query, which
\* yields a default User) and errno 2, change nothing on either side.
LoginQuery(c, u) ==
    /\ Idle(c)
    /\ Room(c)
    /\ session[c] = None
    /\ SerialLogins => \A d \in Conns \ {c} : ~ SigningIn(d, u)
    /\ state[u] # "online"
    /\ user' = [user EXCEPT ![c] = u]
    /\ Goto(c, "insert")
    /\ UNCHANGED <<conn, session, msg, todo, mapVars, dbVars, redisVars,
                   historyVars, boundVars>>

\* Mutant: the connection is not entered in the map.
LoginWithoutInsert(c) ==
    /\ pc[c] = "insert"
    /\ Goto(c, "subscribe")
    /\ UNCHANGED <<clientVars, localVars, mapVars, dbVars, redisVars, historyVars,
                   boundVars>>

\* unordered_map::insert keeps an entry that is already there.
LoginInsert(c) ==
    LET s == Home[c] IN
    /\ pc[c] = "insert"
    /\ Free(s)
    /\ UserConnMap' = [UserConnMap EXCEPT ![s][user[c]] = IF @ = None THEN c ELSE @]
    /\ Goto(c, "subscribe")
    /\ UNCHANGED <<clientVars, localVars, ConnMutex, dbVars, redisVars,
                   historyVars, boundVars>>

\* Mutant: the channel of the user is not subscribed.
LoginWithoutSubscribe(c) ==
    /\ pc[c] = "subscribe"
    /\ Goto(c, "setOnline")
    /\ UNCHANGED <<clientVars, localVars, mapVars, dbVars, redisVars, historyVars,
                   boundVars>>

LoginSubscribe(c) ==
    /\ pc[c] = "subscribe"
    /\ WriteCommand(Home[c], "sub", user[c])
    /\ Goto(c, "setOnline")
    /\ UNCHANGED <<clientVars, localVars, mapVars, dbVars, subs, inbox,
                   historyVars>>

LoginSetOnline(c) ==
    /\ pc[c] = "setOnline"
    /\ \/ state' = [state EXCEPT ![user[c]] = "online"] /\ Works
       \/ Fails /\ UNCHANGED state
    /\ Goto(c, "ack")
    /\ UNCHANGED <<clientVars, localVars, mapVars, offlinemessage, redisVars,
                   historyVars>>

\* OfflineMsgModel::query sends "... where id = %d)": MySQL rejects the
\* unbalanced parenthesis, Connection::query returns NULL and the caller gets
\* an empty vector, so nothing is attached to the ack and remove is not called.
OfflineQuery(u) == [m \in Msgs |-> 0]

\* The offline and friend queries, then the ack with errno 0.
LoginAck(c) ==
    LET u == user[c] IN
    /\ pc[c] = "ack"
    /\ session' = [session EXCEPT ![c] = u]
    /\ received' = [received EXCEPT ![u] = [m \in Msgs |-> @[m] + OfflineQuery(u)[m]]]
    /\ Forget(c)
    /\ Goto(c, "idle")
    /\ UNCHANGED <<conn, mapVars, dbVars, redisVars, posted, lost, boundVars>>

-----------------------------------------------------------------------------
(* loginout, and the end of clientCloseException                            *)

\* The entry is erased by user id, whichever connection it holds.
Logout(c) ==
    LET u == session[c]
        s == Home[c] IN
    /\ Idle(c)
    /\ Room(c)
    /\ u # None
    /\ Free(s)
    /\ UserConnMap' = [UserConnMap EXCEPT ![s][u] = None]
    /\ session' = [session EXCEPT ![c] = None]
    /\ user' = [user EXCEPT ![c] = u]
    /\ Goto(c, "unsubscribe")
    /\ UNCHANGED <<conn, msg, todo, ConnMutex, dbVars, redisVars,
                   historyVars, boundVars>>

\* Mutant: the channel stays subscribed.
StaysSubscribed(c) ==
    /\ pc[c] = "unsubscribe"
    /\ Goto(c, "setOffline")
    /\ UNCHANGED <<clientVars, localVars, mapVars, dbVars, redisVars, historyVars,
                   boundVars>>

Unsubscribe(c) ==
    /\ pc[c] = "unsubscribe"
    /\ WriteCommand(Home[c], "unsub", user[c])
    /\ Goto(c, "setOffline")
    /\ UNCHANGED <<clientVars, localVars, mapVars, dbVars, subs, inbox,
                   historyVars>>

\* Mutant: the row of the user is left as it is.
StaysOnline(c) ==
    /\ pc[c] = "setOffline"
    /\ Forget(c)
    /\ Goto(c, "idle")
    /\ UNCHANGED <<clientVars, mapVars, dbVars, redisVars, historyVars, boundVars>>

SetOffline(c) ==
    /\ pc[c] = "setOffline"
    /\ \/ state' = [state EXCEPT ![user[c]] = "offline"] /\ Works
       \/ Fails /\ UNCHANGED state
    /\ Forget(c)
    /\ Goto(c, "idle")
    /\ UNCHANGED <<clientVars, mapVars, offlinemessage, redisVars, historyVars>>

-----------------------------------------------------------------------------
(* Routing one message: oneChat, and the body of groupChat's loop           *)

Fresh(m) == \A u \in Users : <<u, m>> \notin posted

\* userModel.query(toid): a failed query yields a default User, who is offline.
QueryState(t, online, offline) ==
    /\ \/ state[user[t]] = "online" /\ Goto(t, online) /\ Works
       \/ state[user[t]] = "offline" /\ Goto(t, offline) /\ Works
       \/ Fails /\ Goto(t, offline)
    /\ UNCHANGED <<clientVars, localVars, mapVars, dbVars, redisVars, historyVars>>

\* redis.publish: Redis hands the message to every subscriber of the channel
\* at that moment, and to nobody when there is none.
Publish(t, next) ==
    LET u == user[t]
        m == msg[t] IN
    /\ \/ /\ subs[u] # {}
          /\ inbox' = [s \in Servers |->
                          IF s \in subs[u]
                          THEN Append(inbox[s], [user |-> u, msg |-> m])
                          ELSE inbox[s]]
          /\ Works
          /\ UNCHANGED lost
       \/ /\ \/ subs[u] = {} /\ Works
             \/ Fails
          /\ lost' = Bump(lost, u, m)
          /\ UNCHANGED inbox
    /\ Goto(t, next)
    /\ UNCHANGED <<clientVars, mapVars, dbVars, subs, cmds, posted, received>>

\* offlineMsgModel.insert
Store(t, next) ==
    LET u == user[t]
        m == msg[t] IN
    /\ \/ /\ offlinemessage' = Bump(offlinemessage, u, m)
          /\ Works
          /\ UNCHANGED lost
       \/ /\ Fails
          /\ lost' = Bump(lost, u, m)
          /\ UNCHANGED offlinemessage
    /\ Goto(t, next)
    /\ UNCHANGED <<clientVars, state, redisVars, posted, received>>

\* Mutant: no return after the message was sent to a connection of this server.
OneChatFallsThrough(c, to, m) ==
    LET d == UserConnMap[Home[c]][to] IN
    /\ Idle(c)
    /\ session[c] # None
    /\ Fresh(m)
    /\ Free(Home[c])
    /\ posted' = posted \cup {<<to, m>>}
    /\ IF d = None THEN UNCHANGED <<received, lost>> ELSE SendTo(d, to, m)
    /\ user' = [user EXCEPT ![c] = to]
    /\ msg' = [msg EXCEPT ![c] = m]
    /\ Goto(c, "chatQuery")
    /\ UNCHANGED <<clientVars, todo, mapVars, dbVars, redisVars, boundVars>>

OneChat(c, to, m) ==
    LET d == UserConnMap[Home[c]][to] IN
    /\ Idle(c)
    /\ session[c] # None
    /\ Fresh(m)
    /\ Free(Home[c])
    /\ posted' = posted \cup {<<to, m>>}
    /\ \/ /\ d # None
          /\ SendTo(d, to, m)
          /\ UNCHANGED <<pc, user, msg>>
       \/ /\ d = None
          /\ user' = [user EXCEPT ![c] = to]
          /\ msg' = [msg EXCEPT ![c] = m]
          /\ Goto(c, "chatQuery")
          /\ UNCHANGED <<received, lost>>
    /\ UNCHANGED <<clientVars, todo, mapVars, dbVars, redisVars, boundVars>>

ChatQuery(c) == pc[c] = "chatQuery" /\ QueryState(c, "chatPublish", "chatStore")

ChatPublish(c) ==
    /\ pc[c] = "chatPublish"
    /\ Publish(c, "idle")
    /\ Forget(c)

ChatStore(c) ==
    /\ pc[c] = "chatStore"
    /\ Store(c, "idle")
    /\ Forget(c)
    /\ UNCHANGED mapVars

-----------------------------------------------------------------------------
(* groupChat: ConnMutex is held over the whole loop                         *)

\* queryGroupUsers: any set of other users may be the members.  A failed query
\* returns no member at all.
GroupQueryUsers(c, members, m) ==
    /\ Idle(c)
    /\ session[c] # None
    /\ members # {}
    /\ session[c] \notin members
    /\ Fresh(m)
    /\ posted' = posted \cup (members \X {m})
    /\ \/ /\ msg' = [msg EXCEPT ![c] = m]
          /\ todo' = [todo EXCEPT ![c] = members]
          /\ Goto(c, "groupLock")
          /\ Works
          /\ UNCHANGED lost
       \/ /\ Fails
          /\ lost' = [u \in Users |-> IF u \in members
                                      THEN [lost[u] EXCEPT ![m] = @ + 1]
                                      ELSE lost[u]]
          /\ UNCHANGED <<pc, msg, todo>>
    /\ UNCHANGED <<clientVars, user, mapVars, dbVars, redisVars, received>>

GroupLock(c) ==
    /\ pc[c] = "groupLock"
    /\ Free(Home[c])
    /\ ConnMutex' = [ConnMutex EXCEPT ![Home[c]] = c]
    /\ Goto(c, "groupLoop")
    /\ UNCHANGED <<clientVars, localVars, UserConnMap, dbVars, redisVars,
                   historyVars, boundVars>>

GroupMember(c, u) ==
    LET d == UserConnMap[Home[c]][u] IN
    /\ pc[c] = "groupLoop"
    /\ u \in todo[c]
    /\ todo' = [todo EXCEPT ![c] = @ \ {u}]
    /\ \/ /\ d # None
          /\ SendTo(d, u, msg[c])
          /\ UNCHANGED <<pc, user>>
       \/ /\ d = None
          /\ user' = [user EXCEPT ![c] = u]
          /\ Goto(c, "groupQuery")
          /\ UNCHANGED <<received, lost>>
    /\ UNCHANGED <<clientVars, msg, mapVars, dbVars, redisVars, posted, boundVars>>

GroupQuery(c) == pc[c] = "groupQuery" /\ QueryState(c, "groupPublish", "groupStore")

NextMember(c) == user' = [user EXCEPT ![c] = None] /\ UNCHANGED <<msg, todo>>

GroupPublish(c) ==
    /\ pc[c] = "groupPublish"
    /\ Publish(c, "groupLoop")
    /\ NextMember(c)

GroupStore(c) ==
    /\ pc[c] = "groupStore"
    /\ Store(c, "groupLoop")
    /\ NextMember(c)
    /\ UNCHANGED mapVars

\* Mutant: the lock is never released.
GroupKeepsLock(c) ==
    /\ pc[c] = "groupLoop"
    /\ todo[c] = {}
    /\ Forget(c)
    /\ Goto(c, "idle")
    /\ UNCHANGED <<clientVars, mapVars, dbVars, redisVars, historyVars, boundVars>>

GroupUnlock(c) ==
    /\ pc[c] = "groupLoop"
    /\ todo[c] = {}
    /\ ConnMutex' = [ConnMutex EXCEPT ![Home[c]] = None]
    /\ Forget(c)
    /\ Goto(c, "idle")
    /\ UNCHANGED <<clientVars, UserConnMap, dbVars, redisVars, historyVars,
                   boundVars>>

-----------------------------------------------------------------------------
(* Redis, and the observer thread of each server                            *)

\* The broker executes the next command of a server's subscription socket.
BrokerExecute(s) ==
    /\ cmds[s] # <<>>
    /\ LET cmd == Head(cmds[s]) IN
       subs' = [subs EXCEPT ![cmd.user] = IF cmd.op = "sub" THEN @ \cup {s}
                                                            ELSE @ \ {s}]
    /\ cmds' = [cmds EXCEPT ![s] = Tail(@)]
    /\ UNCHANGED <<clientVars, pc, localVars, mapVars, dbVars, inbox,
                   historyVars, boundVars>>

\* Mutant: a message whose user has no route any more is not stored.
NotifyDropsStrays(s) ==
    /\ inbox[s] # <<>>
    /\ pc[s] = "idle"
    /\ Free(s)
    /\ inbox' = [inbox EXCEPT ![s] = Tail(@)]
    /\ LET n == Head(inbox[s])
           d == UserConnMap[s][n.user] IN
       IF d = None THEN UNCHANGED <<received, lost>> ELSE SendTo(d, n.user, n.msg)
    /\ UNCHANGED <<clientVars, pc, localVars, mapVars, dbVars, subs, cmds, posted, boundVars>>

\* observer_channel_message takes a reply; handleRedisSubscribeMessage locks
\* ConnMutex and sends, or keeps the lock to store the message.
Notify(s) ==
    /\ inbox[s] # <<>>
    /\ pc[s] = "idle"
    /\ Free(s)
    /\ inbox' = [inbox EXCEPT ![s] = Tail(@)]
    /\ LET n == Head(inbox[s])
           d == UserConnMap[s][n.user] IN
       \/ /\ d # None
          /\ SendTo(d, n.user, n.msg)
          /\ UNCHANGED <<pc, user, msg, ConnMutex>>
       \/ /\ d = None
          /\ user' = [user EXCEPT ![s] = n.user]
          /\ msg' = [msg EXCEPT ![s] = n.msg]
          /\ ConnMutex' = [ConnMutex EXCEPT ![s] = s]
          /\ Goto(s, "store")
          /\ UNCHANGED <<received, lost>>
    /\ UNCHANGED <<clientVars, todo, UserConnMap, dbVars, subs, cmds, posted,
                   boundVars>>

\* Mutant: the lock is not released after the insert.
NotifyStoreKeepsLock(s) ==
    /\ pc[s] = "store"
    /\ Store(s, "idle")
    /\ Forget(s)
    /\ UNCHANGED mapVars

NotifyStore(s) ==
    /\ pc[s] = "store"
    /\ Store(s, "idle")
    /\ Forget(s)
    /\ ConnMutex' = [ConnMutex EXCEPT ![s] = None]
    /\ UNCHANGED UserConnMap

-----------------------------------------------------------------------------
(* Restart of a server: SIGINT runs reset() and exits.                      *)

\* "update user set state = 'offline' where id = 'online'": the integer id is
\* compared with the number the text 'online' converts to, 0, and AUTO_INCREMENT
\* ids start at 1: no row is selected.
IdIsOnline(u) == FALSE

ResetState == [u \in Users |-> IF IdIsOnline(u) THEN "offline" ELSE state[u]]

Carries(t, u, m) == msg[t] = m /\ (user[t] = u \/ u \in todo[t])

OnServer(s, u, m) ==
    \/ \E t \in Threads : ServerOf(t) = s /\ Carries(t, u, m)
    \/ \E i \in 1..Len(inbox[s]) : inbox[s][i] = [user |-> u, msg |-> m]

\* The process ends with its connections, its threads, its map and what the
\* broker still had for it; a new one starts with an empty map.
Restart(s) ==
    LET On(f, reset) == [t \in DOMAIN f |-> IF ServerOf(t) = s THEN reset ELSE f[t]] IN
    /\ restarts < MaxRestarts
    /\ restarts' = restarts + 1
    /\ conn' = [c \in Conns |-> IF Home[c] = s /\ conn[c] # "new" THEN "closed"
                                                                  ELSE conn[c]]
    /\ session' = On(session, None)
    /\ pc' = On(pc, "idle")
    /\ user' = On(user, None)
    /\ msg' = On(msg, None)
    /\ todo' = On(todo, {})
    /\ UserConnMap' = [UserConnMap EXCEPT ![s] = [u \in Users |-> None]]
    /\ ConnMutex' = [ConnMutex EXCEPT ![s] = None]
    /\ subs' = [u \in Users |-> subs[u] \ {s}]
    /\ cmds' = [cmds EXCEPT ![s] = <<>>]
    /\ inbox' = [inbox EXCEPT ![s] = <<>>]
    /\ state' = ResetState
    /\ lost' = [u \in Users |-> [m \in Msgs |->
                   lost[u][m] + (IF OnServer(s, u, m) THEN 1 ELSE 0)]]
    /\ UNCHANGED <<offlinemessage, posted, received, faults>>

-----------------------------------------------------------------------------

\* What a thread does once a handler has begun.
Continue(c) ==
    \/ CloseErase(c) \/ LoginInsert(c) \/ LoginSubscribe(c) \/ LoginSetOnline(c)
    \/ LoginAck(c) \/ Unsubscribe(c) \/ SetOffline(c)
    \/ ChatQuery(c) \/ ChatPublish(c) \/ ChatStore(c)
    \/ GroupLock(c) \/ GroupQuery(c) \/ GroupPublish(c) \/ GroupStore(c)
    \/ GroupUnlock(c)
    \/ \E u \in Users : GroupMember(c, u)

\* What the peer causes: nothing obliges it to.
Begin(c) ==
    \/ Accept(c) \/ Close(c) \/ Logout(c)
    \/ \E u \in Users : LoginQuery(c, u)
    \/ \E u \in Users, m \in Msgs : OneChat(c, u, m)
    \/ \E members \in SUBSET Users, m \in Msgs : GroupQueryUsers(c, members, m)

Server(s) == BrokerExecute(s) \/ Notify(s) \/ NotifyStore(s)

Next ==
    \/ \E c \in Conns : Begin(c) \/ Continue(c)
    \/ \E s \in Servers : Server(s) \/ Restart(s)

Spec == Init /\ [][Next]_vars

\* Handlers run to completion, the broker and the observer keep serving.
Fairness ==
    /\ \A c \in Conns : WF_vars(Continue(c))
    /\ \A s \in Servers : WF_vars(BrokerExecute(s)) /\ WF_vars(Notify(s) \/ NotifyStore(s))

FairSpec == Spec /\ Fairness

-----------------------------------------------------------------------------
(* Properties.                                                              *)

\* Client c is connected and signed in as u.
SignedIn(c, u) == conn[c] = "open" /\ session[c] = u

Leaving(c, u) == pc[c] \in LeaveSteps /\ user[c] = u

\* A route leads to a connection of the same server on which its own user, and
\* nobody else, is signed in or signing in, and which clientCloseException has
\* not finished with: oneChat, groupChat and handleRedisSubscribeMessage never
\* write a message to somebody else's connection (chatservice.cpp:176, 218, 237).
RoutesMatchSessions ==
    \A s \in Servers, u \in Users :
        LET c == UserConnMap[s][u] IN
        c # None => /\ Home[c] = s
                    /\ session[c] = u \/ SigningIn(c, u)
                    /\ conn[c] = "open" \/ pc[c] = "closeErase"

\* The lock is held exactly by the threads inside groupChat's loop or storing a
\* message for the observer.
LockMatchesSteps ==
    \A t \in Threads :
        pc[t] \in GroupSteps \cup {"store"} <=> ConnMutex[ServerOf(t)] = t

\* login answers errno 2, "user already login in", exactly because somebody is:
\* no two clients are ever signed in as the same user (chatservice.cpp:42-47).
SingleSession ==
    \A u \in Users, c, d \in Conns : SignedIn(c, u) /\ SignedIn(d, u) => c = d

\* A row that says online belongs to a client that is connected, or to one whose
\* connection a handler is still taking down (chatservice.cpp:42, 124, 164).
OnlineMeansConnected ==
    \A u \in Users : state[u] = "online" =>
        \E c \in Conns : \/ session[c] = u
                         \/ SigningIn(c, u)
                         \/ Leaving(c, u)

\* Between handlers the table and the maps agree: a user is online exactly when
\* one server, and only one, has a route to him (chatservice.cpp:50-56, 115-124).
PresenceAgrees ==
    \A u \in Users :
        LET routed == {s \in Servers : UserConnMap[s][u] # None} IN
        /\ \A s, r \in routed : s = r
        /\ (\A c \in Conns : ~ SigningIn(c, u) /\ ~ Leaving(c, u)) =>
               (state[u] = "online" <=> routed # {})

\* What the subscription of s to u will be once the broker has executed the
\* commands already written.
Subscribed(s, u) ==
    LET mine == {i \in 1..Len(cmds[s]) : cmds[s][i].user = u} IN
    IF mine = {} THEN s \in subs[u]
    ELSE LET last == CHOOSE i \in mine : \A j \in mine : j <= i
         IN  cmds[s][last].op = "sub"

\* A signed-in user's channel is subscribed, or will be, on the server that has
\* the route to him, and on no other once his handlers are done: a published
\* message has one place to go (chatservice.cpp:54, 122, 161).
SubscriptionsFollowRoutes ==
    \A s \in Servers, u \in Users :
        (\A c \in Conns : Home[c] = s => ~ SigningIn(c, u) /\ ~ Leaving(c, u)) =>
            (Subscribed(s, u) <=> UserConnMap[s][u] # None)

\* Once a client has its ack with errno 0 and the broker has caught up with its
\* server, no step of anybody drops a message for its user, not even of a handler
\* that looked the user up before (chatservice.cpp:176-187, 218-229, 237-242).
NoLossOnceSignedIn ==
    [][\A c \in Conns, u \in Users :
          SignedIn(c, u) /\ cmds[Home[c]] = <<>> => lost'[u] = lost[u]]_vars

\* Where message m for user u is, as the abstract specification sees it.
Fate(u, m) ==
    CASE received[u][m] + offlinemessage[u][m] + lost[u][m] > 1 -> "duplicated"
      [] received[u][m] = 1       -> "received"
      [] offlinemessage[u][m] = 1 -> "stored"
      [] lost[u][m] = 1           -> "lost"
      [] OTHER -> IF <<u, m>> \in posted THEN "pending" ELSE "none"

Promise == INSTANCE Delivery WITH fate <- [p \in Users \X Msgs |-> Fate(p[1], p[2])]

\* oneChat, groupChat and the observer together implement Delivery: on one server
\* a message is never both delivered and stored, nor delivered twice, even when
\* its user signs in or out while it is being routed (chatservice.cpp:172-243).
ImplementsDelivery == Promise!Spec

\* Every message whose handler began is received, stored or lost in the end
\* (chatservice.cpp:172-243).
MessagesSettle == Promise!Settles

\* A message posted while its user is signed in and the broker has caught up is
\* not put aside or lost as long as he stays (chatservice.cpp:176-186, 237-241).
ReachesWhoStays ==
    \A c \in Conns, u \in Users, m \in Msgs :
        [](SignedIn(c, u) /\ cmds[Home[c]] = <<>> /\ Fate(u, m) = "none" =>
              \/ <>(~ SignedIn(c, u))
              \/ [](Fate(u, m) \notin {"stored", "lost"}))

\* Every handler that begins ends: no thread waits for ConnMutex or for the
\* broker for ever (chatservice.cpp:50-57, 113-125, 149-166, 212-232).
HandlersFinish == \A c \in Conns : pc[c] # "idle" ~> pc[c] = "idle"
=============================================================================
