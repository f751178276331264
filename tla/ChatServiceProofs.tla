--------------------------- MODULE ChatServiceProofs ---------------------------
(****************************************************************************)
(* Proofs about ChatService for any number of users, servers, connections   *)
(* and messages, with concurrent logins, failing calls and restarts: the    *)
(* type invariant, that a route always leads to the session of its user,    *)
(* that ConnMutex is held by exactly the threads inside groupChat's loop or *)
(* the observer's insert, and that one server process implements Delivery.  *)
(****************************************************************************)
EXTENDS ChatService, SequenceTheorems, TLAPS

\* Where a thread holds ConnMutex across steps.
HoldSteps == GroupSteps \cup {"store"}

\* Where a thread works for the user in its local variable.
UserSteps == LoginSteps \cup LeaveSteps \cup
             {"chatQuery", "chatPublish", "chatStore",
              "groupQuery", "groupPublish", "groupStore", "store"}

\* Where a thread works on the message in its local variable.
MsgSteps == {"chatQuery", "chatPublish", "chatStore", "groupLock"} \cup HoldSteps

\* The local variables a step reads have been set.
LocalsSet ==
    \A t \in Threads : /\ pc[t] \in UserSteps => user[t] \in Users
                       /\ pc[t] \in MsgSteps => msg[t] \in Msgs

\* A login runs on an open connection that has no session; only an open
\* connection, or one whose clientCloseException has not begun, has a session.
LoginsFresh ==
    \A c \in Conns :
        /\ pc[c] \in LoginSteps => session[c] = None /\ conn[c] = "open"
        /\ pc[c] = "closeErase" => conn[c] = "closed"
        /\ session[c] # None => conn[c] = "open" \/ pc[c] = "closeErase"

\* The invariant on which everything else rests.
Inv == TypeOK /\ LocalsSet /\ LoginsFresh /\ RoutesMatchSessions /\ LockMatchesSteps

-----------------------------------------------------------------------------
(* What the helpers preserve.                                               *)

LEMMA ThreadFacts ==
    /\ None \notin Users /\ None \notin Threads /\ None \notin Msgs
    /\ \A c \in Conns : c \notin Servers /\ c \in Threads /\ ServerOf(c) = Home[c] /\ Home[c] \in Servers
    /\ \A s \in Servers : s \notin Conns /\ s \in Threads /\ ServerOf(s) = s
BY ChatAssumption DEF Threads, ServerOf

\* The empty sequence is a sequence.
LEMMA EmptyTyped == ASSUME NEW S PROVE <<>> \in Seq(S)
OBVIOUS

\* The operations that the steps are made of keep the types: a count goes up by
\* one,
LEMMA BumpTyped ==
    ASSUME NEW count \in [Users -> [Msgs -> Nat]], NEW u \in Users, NEW m \in Msgs
    PROVE  Bump(count, u, m) \in [Users -> [Msgs -> Nat]]
BY DEF Bump

\* a call fails or works,
LEMMA CallsTyped ==
    ASSUME TypeOK, Fails \/ Works
    PROVE  faults' \in 0..MaxFaults /\ restarts' \in 0..MaxRestarts
BY ChatAssumption DEF TypeOK, HistoryTypes, Fails, Works, boundVars

\* a message goes to a connection,
LEMMA SendToTyped ==
    ASSUME TypeOK, NEW c, NEW u \in Users, NEW m \in Msgs, SendTo(c, u, m)
    PROVE  received' \in [Users -> [Msgs -> Nat]] /\ lost' \in [Users -> [Msgs -> Nat]]
<1>1. Bump(received, u, m) \in [Users -> [Msgs -> Nat]]
  BY BumpTyped DEF TypeOK, HistoryTypes
<1>2. Bump(lost, u, m) \in [Users -> [Msgs -> Nat]]
  BY BumpTyped DEF TypeOK, HistoryTypes
<1> QED BY <1>1, <1>2 DEF SendTo, TypeOK, HistoryTypes

\* a command goes to Redis,
LEMMA WriteCommandTyped ==
    ASSUME TypeOK, NEW s \in Servers, NEW op \in {"sub", "unsub"}, NEW u \in Users,
           WriteCommand(s, op, u)
    PROVE  /\ cmds' \in [Servers -> Seq([op : {"sub", "unsub"}, user : Users])]
           /\ faults' \in 0..MaxFaults /\ restarts' \in 0..MaxRestarts
<1> DEFINE n == [op |-> op, user |-> u]
           Cmds == [op : {"sub", "unsub"}, user : Users]
<1>1. cmds \in [Servers -> Seq(Cmds)]
  BY DEF TypeOK, StoreTypes
<1>2. n \in Cmds
  OBVIOUS
<1>3. Append(cmds[s], n) \in Seq(Cmds)
  <2> HIDE DEF n, Cmds
  <2> QED BY <1>1, <1>2, AppendProperties
<1>4. cmds' = cmds \/ cmds' = [cmds EXCEPT ![s] = Append(@, n)]
  BY DEF WriteCommand
<1>5. cmds' \in [Servers -> Seq(Cmds)]
  <2> HIDE DEF n, Cmds
  <2> QED BY <1>1, <1>3, <1>4
<1> QED BY <1>5, CallsTyped DEF WriteCommand

\* a message is published,
LEMMA PublishTyped ==
    ASSUME TypeOK, NEW t \in Threads, user[t] \in Users, msg[t] \in Msgs,
           NEW next, Publish(t, next)
    PROVE  StoreTypes' /\ HistoryTypes'
<1> DEFINE n == [user |-> user[t], msg |-> msg[t]]
           Notes == Seq([user : Users, msg : Msgs])
           sent == [s \in Servers |-> IF s \in subs[user[t]] THEN Append(inbox[s], n)
                                                            ELSE inbox[s]]
<1>1. inbox' \in [Servers -> Notes]
  <2>1. inbox \in [Servers -> Notes]
    BY DEF TypeOK, StoreTypes
  <2>2. n \in [user : Users, msg : Msgs]
    OBVIOUS
  <2>3. \A s \in Servers : Append(inbox[s], n) \in Notes
    <3> HIDE DEF n
    <3> QED BY <2>1, <2>2, AppendProperties
  <2>4. sent \in [Servers -> Notes]
    <3> HIDE DEF n, Notes
    <3> QED BY <2>1, <2>3
  <2>5. inbox' = inbox \/ inbox' = sent
    BY DEF Publish
  <2> QED BY <2>1, <2>4, <2>5
<1>2. lost' \in [Users -> [Msgs -> Nat]]
  <2>1. Bump(lost, user[t], msg[t]) \in [Users -> [Msgs -> Nat]]
    BY BumpTyped DEF TypeOK, HistoryTypes
  <2> QED BY <2>1 DEF Publish, TypeOK, HistoryTypes
<1>3. UNCHANGED <<state, offlinemessage, subs, cmds, posted, received>>
  BY DEF Publish, dbVars
<1> QED BY <1>1, <1>2, <1>3, CallsTyped DEF Publish, TypeOK, StoreTypes, HistoryTypes

\* or stored.
LEMMA StoreTyped ==
    ASSUME TypeOK, NEW t \in Threads, user[t] \in Users, msg[t] \in Msgs,
           NEW next, Store(t, next)
    PROVE  StoreTypes' /\ HistoryTypes'
<1>1. offlinemessage' \in [Users -> [Msgs -> Nat]]
  <2>1. Bump(offlinemessage, user[t], msg[t]) \in [Users -> [Msgs -> Nat]]
    BY BumpTyped DEF TypeOK, StoreTypes
  <2> QED BY <2>1 DEF Store, TypeOK, StoreTypes
<1>2. lost' \in [Users -> [Msgs -> Nat]]
  <2>1. Bump(lost, user[t], msg[t]) \in [Users -> [Msgs -> Nat]]
    BY BumpTyped DEF TypeOK, HistoryTypes
  <2> QED BY <2>1 DEF Store, TypeOK, HistoryTypes
<1>3. UNCHANGED <<state, subs, cmds, inbox, posted, received>>
  BY DEF Store, redisVars
<1> QED BY <1>1, <1>2, <1>3, CallsTyped DEF Store, TypeOK, StoreTypes, HistoryTypes

-----------------------------------------------------------------------------
(* One step of any thread preserves each part of the invariant.              *)

LEMMA ProcessStep ==
    ASSUME Inv, [Next]_vars
    PROVE  ProcessTypes' /\ LocalsSet'
<1> USE DEF Inv, TypeOK, ProcessTypes, LocalsSet, Threads, Goto, ConnSteps, ObserverSteps, LoginSteps, LeaveSteps, GroupSteps, HoldSteps, UserSteps, MsgSteps, clientVars, localVars, mapVars, dbVars, redisVars, historyVars, boundVars
<1>1. ASSUME NEW c \in Conns, Accept(c)
      PROVE  ProcessTypes' /\ LocalsSet'
  BY <1>1, ThreadFacts DEF Accept
<1>2. ASSUME NEW c \in Conns, Close(c)
      PROVE  ProcessTypes' /\ LocalsSet'
  BY <1>2, ThreadFacts DEF Close, Idle
<1>3. ASSUME NEW c \in Conns, CloseErase(c)
      PROVE  ProcessTypes' /\ LocalsSet'
  <2>1. CASE \E u \in Users : /\ UserConnMap' = [UserConnMap EXCEPT ![Home[c]][u] = None]
                          /\ user' = [user EXCEPT ![c] = u]
                          /\ Goto(c, "unsubscribe")
    BY <1>3, <2>1, ThreadFacts DEF CloseErase, Free
  <2>2. CASE Goto(c, "idle") /\ UNCHANGED <<UserConnMap, user>>
    BY <1>3, <2>2, ThreadFacts DEF CloseErase, Free
  <2> QED BY <1>3, <2>1, <2>2 DEF CloseErase, Free
<1>4. ASSUME NEW c \in Conns, NEW u \in Users, LoginQuery(c, u)
      PROVE  ProcessTypes' /\ LocalsSet'
  BY <1>4, ThreadFacts DEF LoginQuery, Idle
<1>5. ASSUME NEW c \in Conns, LoginInsert(c)
      PROVE  ProcessTypes' /\ LocalsSet'
  BY <1>5, ThreadFacts DEF LoginInsert, Free
<1>6. ASSUME NEW c \in Conns, LoginSubscribe(c)
      PROVE  ProcessTypes' /\ LocalsSet'
  BY <1>6, ThreadFacts DEF LoginSubscribe, WriteCommand, Fails
<1>7. ASSUME NEW c \in Conns, LoginSetOnline(c)
      PROVE  ProcessTypes' /\ LocalsSet'
  BY <1>7, ThreadFacts DEF LoginSetOnline
<1>8. ASSUME NEW c \in Conns, LoginAck(c)
      PROVE  ProcessTypes' /\ LocalsSet'
  BY <1>8, ThreadFacts DEF LoginAck, Forget
<1>9. ASSUME NEW c \in Conns, Logout(c)
      PROVE  ProcessTypes' /\ LocalsSet'
  BY <1>9, ThreadFacts DEF Logout, Idle
<1>10. ASSUME NEW c \in Conns, Unsubscribe(c)
      PROVE  ProcessTypes' /\ LocalsSet'
  BY <1>10, ThreadFacts DEF Unsubscribe, WriteCommand, Fails
<1>11. ASSUME NEW c \in Conns, SetOffline(c)
      PROVE  ProcessTypes' /\ LocalsSet'
  BY <1>11, ThreadFacts DEF SetOffline, Forget
<1>12. ASSUME NEW c \in Conns, NEW u \in Users, NEW m \in Msgs, OneChat(c, u, m)
      PROVE  ProcessTypes' /\ LocalsSet'
  <2>1. CASE UNCHANGED <<pc, user, msg>>
    BY <1>12, <2>1, ThreadFacts DEF OneChat, Idle
  <2>2. CASE /\ user' = [user EXCEPT ![c] = u]
             /\ msg' = [msg EXCEPT ![c] = m]
             /\ Goto(c, "chatQuery")
    BY <1>12, <2>2, ThreadFacts DEF OneChat, Idle
  <2> QED BY <1>12, <2>1, <2>2 DEF OneChat, Idle
<1>13. ASSUME NEW c \in Conns, ChatQuery(c)
      PROVE  ProcessTypes' /\ LocalsSet'
  <2>1. CASE Goto(c, "chatPublish")
    BY <1>13, <2>1, ThreadFacts DEF ChatQuery, QueryState
  <2>2. CASE Goto(c, "chatStore")
    BY <1>13, <2>2, ThreadFacts DEF ChatQuery, QueryState
  <2> QED BY <1>13, <2>1, <2>2 DEF ChatQuery, QueryState
<1>14. ASSUME NEW c \in Conns, ChatPublish(c)
      PROVE  ProcessTypes' /\ LocalsSet'
  BY <1>14, ThreadFacts DEF ChatPublish, Publish, Forget
<1>15. ASSUME NEW c \in Conns, ChatStore(c)
      PROVE  ProcessTypes' /\ LocalsSet'
  BY <1>15, ThreadFacts DEF ChatStore, Store, Forget
<1>16. ASSUME NEW c \in Conns, NEW members \in SUBSET Users, NEW m \in Msgs, GroupQueryUsers(c, members, m)
      PROVE  ProcessTypes' /\ LocalsSet'
  <2>1. CASE /\ msg' = [msg EXCEPT ![c] = m]
             /\ todo' = [todo EXCEPT ![c] = members]
             /\ Goto(c, "groupLock")
    BY <1>16, <2>1, ThreadFacts DEF GroupQueryUsers, Idle
  <2>2. CASE UNCHANGED <<pc, msg, todo>>
    BY <1>16, <2>2, ThreadFacts DEF GroupQueryUsers, Idle
  <2> QED BY <1>16, <2>1, <2>2 DEF GroupQueryUsers, Idle
<1>17. ASSUME NEW c \in Conns, GroupLock(c)
      PROVE  ProcessTypes' /\ LocalsSet'
  BY <1>17, ThreadFacts DEF GroupLock, Free
<1>18. ASSUME NEW c \in Conns, NEW u \in Users, GroupMember(c, u)
      PROVE  ProcessTypes' /\ LocalsSet'
  <2>1. CASE UNCHANGED <<pc, user>>
    BY <1>18, <2>1, ThreadFacts DEF GroupMember
  <2>2. CASE user' = [user EXCEPT ![c] = u] /\ Goto(c, "groupQuery")
    BY <1>18, <2>2, ThreadFacts DEF GroupMember
  <2> QED BY <1>18, <2>1, <2>2 DEF GroupMember
<1>19. ASSUME NEW c \in Conns, GroupQuery(c)
      PROVE  ProcessTypes' /\ LocalsSet'
  <2>1. CASE Goto(c, "groupPublish")
    BY <1>19, <2>1, ThreadFacts DEF GroupQuery, QueryState
  <2>2. CASE Goto(c, "groupStore")
    BY <1>19, <2>2, ThreadFacts DEF GroupQuery, QueryState
  <2> QED BY <1>19, <2>1, <2>2 DEF GroupQuery, QueryState
<1>20. ASSUME NEW c \in Conns, GroupPublish(c)
      PROVE  ProcessTypes' /\ LocalsSet'
  BY <1>20, ThreadFacts DEF GroupPublish, Publish, NextMember
<1>21. ASSUME NEW c \in Conns, GroupStore(c)
      PROVE  ProcessTypes' /\ LocalsSet'
  BY <1>21, ThreadFacts DEF GroupStore, Store, NextMember
<1>22. ASSUME NEW c \in Conns, GroupUnlock(c)
      PROVE  ProcessTypes' /\ LocalsSet'
  BY <1>22, ThreadFacts DEF GroupUnlock, Forget
<1>23. ASSUME NEW s \in Servers, BrokerExecute(s)
      PROVE  ProcessTypes' /\ LocalsSet'
  BY <1>23, ThreadFacts DEF BrokerExecute
<1>24. ASSUME NEW s \in Servers, Notify(s)
      PROVE  ProcessTypes' /\ LocalsSet'
  <2>1. Head(inbox[s]) \in [user : Users, msg : Msgs]
    BY <1>24, HeadTailProperties DEF Notify, StoreTypes
  <2>2. CASE UNCHANGED <<pc, user, msg, ConnMutex>>
    BY <1>24, <2>2, ThreadFacts DEF Notify
  <2>3. CASE /\ Goto(s, "store")
             /\ ConnMutex' = [ConnMutex EXCEPT ![s] = s]
             /\ user' = [user EXCEPT ![s] = Head(inbox[s]).user]
             /\ msg' = [msg EXCEPT ![s] = Head(inbox[s]).msg]
    BY <1>24, <2>1, <2>3, ThreadFacts DEF Notify
  <2> QED BY <1>24, <2>2, <2>3 DEF Notify
<1>25. ASSUME NEW s \in Servers, NotifyStore(s)
      PROVE  ProcessTypes' /\ LocalsSet'
  BY <1>25, ThreadFacts DEF NotifyStore, Store, Forget
<1>26. ASSUME NEW s \in Servers, Restart(s)
      PROVE  ProcessTypes' /\ LocalsSet'
  BY <1>26, ThreadFacts DEF Restart, ServerOf, Threads
<1>27. CASE UNCHANGED vars
  BY <1>27 DEF vars
<1> QED BY <1>1, <1>2, <1>3, <1>4, <1>5, <1>6, <1>7, <1>8, <1>9, <1>10, <1>11, <1>12, <1>13, <1>14, <1>15, <1>16, <1>17, <1>18, <1>19, <1>20, <1>21, <1>22, <1>23, <1>24, <1>25, <1>26, <1>27 DEF Next, Begin, Continue, Server

\* Every step keeps the types of the stores and of the history.
LEMMA DataStep ==
    ASSUME Inv, [Next]_vars
    PROVE  StoreTypes' /\ HistoryTypes'
<1> USE DEF Inv, TypeOK, StoreTypes, HistoryTypes, LocalsSet, LoginSteps, LeaveSteps, GroupSteps, HoldSteps, UserSteps, MsgSteps, clientVars, localVars, mapVars, dbVars, redisVars, historyVars, boundVars
<1>1. ASSUME NEW c \in Conns, Accept(c)
      PROVE  StoreTypes' /\ HistoryTypes'
  BY <1>1, ThreadFacts DEF Accept
<1>2. ASSUME NEW c \in Conns, Close(c)
      PROVE  StoreTypes' /\ HistoryTypes'
  BY <1>2, ThreadFacts DEF Close, Idle
<1>3. ASSUME NEW c \in Conns, CloseErase(c)
      PROVE  StoreTypes' /\ HistoryTypes'
  BY <1>3, ThreadFacts DEF CloseErase, Free
<1>4. ASSUME NEW c \in Conns, NEW u \in Users, LoginQuery(c, u)
      PROVE  StoreTypes' /\ HistoryTypes'
  BY <1>4, ThreadFacts DEF LoginQuery, Idle
<1>5. ASSUME NEW c \in Conns, LoginInsert(c)
      PROVE  StoreTypes' /\ HistoryTypes'
  BY <1>5, ThreadFacts DEF LoginInsert, Free
<1>6. ASSUME NEW c \in Conns, LoginSubscribe(c)
      PROVE  StoreTypes' /\ HistoryTypes'
  <2>1. user[c] \in Users /\ WriteCommand(Home[c], "sub", user[c])
    BY <1>6, ThreadFacts DEF LoginSubscribe
  <2> QED BY <1>6, <2>1, ThreadFacts, WriteCommandTyped DEF LoginSubscribe
<1>7. ASSUME NEW c \in Conns, LoginSetOnline(c)
      PROVE  StoreTypes' /\ HistoryTypes'
  BY <1>7, ThreadFacts, CallsTyped DEF LoginSetOnline
<1>8. ASSUME NEW c \in Conns, LoginAck(c)
      PROVE  StoreTypes' /\ HistoryTypes'
  <2> DEFINE got == [m \in Msgs |-> received[user[c]][m] + OfflineQuery(user[c])[m]]
  <2>1. user[c] \in Users
    BY <1>8, ThreadFacts DEF LoginAck
  <2>2. got \in [Msgs -> Nat]
    BY <2>1 DEF OfflineQuery
  <2>3. received' = [received EXCEPT ![user[c]] = got]
    BY <1>8 DEF LoginAck
  <2>4. received' \in [Users -> [Msgs -> Nat]]
    <3> HIDE DEF got
    <3> QED BY <2>1, <2>2, <2>3
  <2> QED BY <1>8, <2>4 DEF LoginAck
<1>9. ASSUME NEW c \in Conns, Logout(c)
      PROVE  StoreTypes' /\ HistoryTypes'
  BY <1>9, ThreadFacts DEF Logout, Idle
<1>10. ASSUME NEW c \in Conns, Unsubscribe(c)
      PROVE  StoreTypes' /\ HistoryTypes'
  <2>1. user[c] \in Users /\ WriteCommand(Home[c], "unsub", user[c])
    BY <1>10, ThreadFacts DEF Unsubscribe
  <2> QED BY <1>10, <2>1, ThreadFacts, WriteCommandTyped DEF Unsubscribe
<1>11. ASSUME NEW c \in Conns, SetOffline(c)
      PROVE  StoreTypes' /\ HistoryTypes'
  BY <1>11, ThreadFacts, CallsTyped DEF SetOffline, Forget
<1>12. ASSUME NEW c \in Conns, NEW u \in Users, NEW m \in Msgs, OneChat(c, u, m)
      PROVE  StoreTypes' /\ HistoryTypes'
  <2>1. received' \in [Users -> [Msgs -> Nat]] /\ lost' \in [Users -> [Msgs -> Nat]]
    BY <1>12, SendToTyped DEF OneChat
  <2>2. posted' \in SUBSET (Users \X Msgs)
    BY <1>12 DEF OneChat
  <2> QED BY <1>12, <2>1, <2>2 DEF OneChat
<1>13. ASSUME NEW c \in Conns, ChatQuery(c)
      PROVE  StoreTypes' /\ HistoryTypes'
  BY <1>13, ThreadFacts, CallsTyped DEF ChatQuery, QueryState
<1>14. ASSUME NEW c \in Conns, ChatPublish(c)
      PROVE  StoreTypes' /\ HistoryTypes'
  <2>1. user[c] \in Users /\ msg[c] \in Msgs
    BY <1>14, ThreadFacts DEF ChatPublish
  <2>2. Publish(c, "idle")
    BY <1>14 DEF ChatPublish
  <2> QED BY <2>1, <2>2, ThreadFacts, PublishTyped
<1>15. ASSUME NEW c \in Conns, ChatStore(c)
      PROVE  StoreTypes' /\ HistoryTypes'
  <2>1. user[c] \in Users /\ msg[c] \in Msgs
    BY <1>15, ThreadFacts DEF ChatStore
  <2>2. Store(c, "idle")
    BY <1>15 DEF ChatStore
  <2> QED BY <2>1, <2>2, ThreadFacts, StoreTyped
<1>16. ASSUME NEW c \in Conns, NEW members \in SUBSET Users, NEW m \in Msgs, GroupQueryUsers(c, members, m)
      PROVE  StoreTypes' /\ HistoryTypes'
  <2>1. posted' \in SUBSET (Users \X Msgs)
    BY <1>16 DEF GroupQueryUsers
  <2>2. CASE Works /\ UNCHANGED lost
    BY <1>16, <2>1, <2>2, CallsTyped DEF GroupQueryUsers
  <2>3. CASE /\ Fails
             /\ lost' = [v \in Users |-> IF v \in members
                                        THEN [lost[v] EXCEPT ![m] = @ + 1]
                                        ELSE lost[v]]
    <3>1. \A v \in Users : [lost[v] EXCEPT ![m] = @ + 1] \in [Msgs -> Nat]
      OBVIOUS
    <3>2. lost' \in [Users -> [Msgs -> Nat]]
      BY <2>3, <3>1
    <3> QED BY <1>16, <2>1, <2>3, <3>2, CallsTyped DEF GroupQueryUsers
  <2> QED BY <1>16, <2>2, <2>3 DEF GroupQueryUsers
<1>17. ASSUME NEW c \in Conns, GroupLock(c)
      PROVE  StoreTypes' /\ HistoryTypes'
  BY <1>17, ThreadFacts DEF GroupLock, Free
<1>18. ASSUME NEW c \in Conns, NEW u \in Users, GroupMember(c, u)
      PROVE  StoreTypes' /\ HistoryTypes'
  <2>1. msg[c] \in Msgs
    BY <1>18, ThreadFacts DEF GroupMember
  <2>2. received' \in [Users -> [Msgs -> Nat]] /\ lost' \in [Users -> [Msgs -> Nat]]
    BY <1>18, <2>1, SendToTyped DEF GroupMember
  <2> QED BY <1>18, <2>2 DEF GroupMember
<1>19. ASSUME NEW c \in Conns, GroupQuery(c)
      PROVE  StoreTypes' /\ HistoryTypes'
  BY <1>19, ThreadFacts, CallsTyped DEF GroupQuery, QueryState
<1>20. ASSUME NEW c \in Conns, GroupPublish(c)
      PROVE  StoreTypes' /\ HistoryTypes'
  <2>1. user[c] \in Users /\ msg[c] \in Msgs
    BY <1>20, ThreadFacts DEF GroupPublish
  <2>2. Publish(c, "groupLoop")
    BY <1>20 DEF GroupPublish
  <2> QED BY <2>1, <2>2, ThreadFacts, PublishTyped
<1>21. ASSUME NEW c \in Conns, GroupStore(c)
      PROVE  StoreTypes' /\ HistoryTypes'
  <2>1. user[c] \in Users /\ msg[c] \in Msgs
    BY <1>21, ThreadFacts DEF GroupStore
  <2>2. Store(c, "groupLoop")
    BY <1>21 DEF GroupStore
  <2> QED BY <2>1, <2>2, ThreadFacts, StoreTyped
<1>22. ASSUME NEW c \in Conns, GroupUnlock(c)
      PROVE  StoreTypes' /\ HistoryTypes'
  BY <1>22, ThreadFacts DEF GroupUnlock, Forget
<1>23. ASSUME NEW s \in Servers, BrokerExecute(s)
      PROVE  StoreTypes' /\ HistoryTypes'
  <2> DEFINE Cmds == [op : {"sub", "unsub"}, user : Users]
  <2>1. cmds[s] \in Seq(Cmds) /\ cmds[s] # <<>>
    BY <1>23 DEF BrokerExecute
  <2>2. Tail(cmds[s]) \in Seq(Cmds)
    <3> HIDE DEF Cmds
    <3> QED BY <2>1, HeadTailProperties
  <2>3. cmds' \in [Servers -> Seq(Cmds)]
    BY <1>23, <2>2 DEF BrokerExecute
  <2>4. subs' \in [Users -> SUBSET Servers]
    BY <1>23 DEF BrokerExecute
  <2> QED BY <1>23, <2>3, <2>4 DEF BrokerExecute
<1>24. ASSUME NEW s \in Servers, Notify(s)
      PROVE  StoreTypes' /\ HistoryTypes'
  <2> DEFINE Notes == [user : Users, msg : Msgs]
  <2>1. inbox[s] \in Seq(Notes) /\ inbox[s] # <<>>
    BY <1>24 DEF Notify
  <2>2. Head(inbox[s]) \in Notes /\ Tail(inbox[s]) \in Seq(Notes)
    <3> HIDE DEF Notes
    <3> QED BY <2>1, HeadTailProperties
  <2>3. inbox' \in [Servers -> Seq(Notes)]
    BY <1>24, <2>2 DEF Notify
  <2>4. received' \in [Users -> [Msgs -> Nat]] /\ lost' \in [Users -> [Msgs -> Nat]]
    <3>1. CASE SendTo(UserConnMap[s][Head(inbox[s]).user], Head(inbox[s]).user, Head(inbox[s]).msg)
      BY <2>2, <3>1, SendToTyped
    <3>2. CASE UNCHANGED <<received, lost>>
      BY <3>2
    <3> QED BY <1>24, <3>1, <3>2 DEF Notify
  <2> QED BY <1>24, <2>3, <2>4 DEF Notify
<1>25. ASSUME NEW s \in Servers, NotifyStore(s)
      PROVE  StoreTypes' /\ HistoryTypes'
  <2>1. user[s] \in Users /\ msg[s] \in Msgs
    BY <1>25, ThreadFacts DEF NotifyStore
  <2>2. Store(s, "idle")
    BY <1>25 DEF NotifyStore
  <2> QED BY <2>1, <2>2, ThreadFacts, StoreTyped
<1>26. ASSUME NEW s \in Servers, Restart(s)
      PROVE  StoreTypes' /\ HistoryTypes'
  <2>1. subs' \in [Users -> SUBSET Servers] /\ state' = state
    BY <1>26 DEF Restart, ResetState, IdIsOnline
  <2> DEFINE Cmds == Seq([op : {"sub", "unsub"}, user : Users])
             Notes == Seq([user : Users, msg : Msgs])
  <2>2. cmds' \in [Servers -> Cmds]
    <3>1. cmds \in [Servers -> Cmds]
      OBVIOUS
    <3>2. <<>> \in Cmds
      BY EmptyTyped
    <3> HIDE DEF Cmds
    <3> QED BY <1>26, <3>1, <3>2 DEF Restart
  <2>3. inbox' \in [Servers -> Notes]
    <3>1. inbox \in [Servers -> Notes]
      OBVIOUS
    <3>2. <<>> \in Notes
      BY EmptyTyped
    <3> HIDE DEF Notes
    <3> QED BY <1>26, <3>1, <3>2 DEF Restart
  <2>4. lost' \in [Users -> [Msgs -> Nat]]
    BY <1>26 DEF Restart
  <2>5. restarts' \in 0..MaxRestarts
    BY <1>26, ChatAssumption DEF Restart
  <2> QED BY <1>26, <2>1, <2>2, <2>3, <2>4, <2>5 DEF Restart
<1>27. CASE UNCHANGED vars
  BY <1>27 DEF vars
<1> QED BY <1>1, <1>2, <1>3, <1>4, <1>5, <1>6, <1>7, <1>8, <1>9, <1>10, <1>11, <1>12, <1>13, <1>14, <1>15, <1>16, <1>17, <1>18, <1>19, <1>20, <1>21, <1>22, <1>23, <1>24, <1>25, <1>26, <1>27 DEF Next, Begin, Continue, Server

\* A step outside login and clientCloseException leaves routes and sessions as
\* they match.
LEMMA QuietStep ==
    ASSUME Inv, NEW t \in Threads,
           UNCHANGED <<conn, session, UserConnMap>>,
           \A d \in Conns \ {t} : pc'[d] = pc[d] /\ user'[d] = user[d],
           pc[t] \notin LoginSteps \cup {"closeErase"},
           pc'[t] \notin LoginSteps \cup {"closeErase"}
    PROVE  LoginsFresh' /\ RoutesMatchSessions'
BY ThreadFacts DEF Inv, TypeOK, ProcessTypes, LoginsFresh, RoutesMatchSessions, SigningIn

\* Every step keeps routes and sessions matched.
LEMMA RouteStep ==
    ASSUME Inv, [Next]_vars
    PROVE  LoginsFresh' /\ RoutesMatchSessions'
<1> USE DEF Inv, TypeOK, ProcessTypes, LoginsFresh, LocalsSet, Goto, LoginSteps, LeaveSteps, GroupSteps, UserSteps, clientVars, localVars, mapVars, dbVars, redisVars, historyVars, boundVars
<1>1. ASSUME NEW c \in Conns, Accept(c)
      PROVE  LoginsFresh' /\ RoutesMatchSessions'
  BY <1>1, ThreadFacts DEF Accept, RoutesMatchSessions, SigningIn
<1>2. ASSUME NEW c \in Conns, Close(c)
      PROVE  LoginsFresh' /\ RoutesMatchSessions'
  BY <1>2, ThreadFacts DEF Close, Idle, RoutesMatchSessions, SigningIn
<1>3. ASSUME NEW c \in Conns, CloseErase(c)
      PROVE  LoginsFresh' /\ RoutesMatchSessions'
  <2>1. ASSUME NEW u \in Users, UserConnMap[Home[c]][u] = c
        PROVE  session[c] = u
    BY <1>3, <2>1, ThreadFacts DEF CloseErase, RoutesMatchSessions, SigningIn
  <2>2. \A s \in Servers, u \in Users : /\ UserConnMap'[s][u] # c
                                       /\ UserConnMap'[s][u] \in {None, UserConnMap[s][u]}
    <3>1. CASE \A u \in Users : UserConnMap[Home[c]][u] # c
      <4>1. UNCHANGED UserConnMap
        BY <1>3, <3>1 DEF CloseErase
      <4> QED BY <3>1, <4>1, ThreadFacts DEF RoutesMatchSessions
    <3>2. ASSUME NEW u \in Users, UserConnMap[Home[c]][u] = c,
                 UserConnMap' = [UserConnMap EXCEPT ![Home[c]][u] = None]
          PROVE  \A s \in Servers, v \in Users :
                     /\ UserConnMap'[s][v] # c
                     /\ UserConnMap'[s][v] \in {None, UserConnMap[s][v]}
      <4> SUFFICES ASSUME NEW s \in Servers, NEW v \in Users
                   PROVE  /\ UserConnMap'[s][v] # c
                          /\ UserConnMap'[s][v] \in {None, UserConnMap[s][v]}
        OBVIOUS
      <4>1. CASE s = Home[c] /\ v = u
        BY <3>2, <4>1, ThreadFacts
      <4>2. CASE s # Home[c] \/ v # u
        <5>1. UserConnMap'[s][v] = UserConnMap[s][v]
          BY <3>2, <4>2, ThreadFacts
        <5> QED BY <2>1, <3>2, <4>2, <5>1, ThreadFacts DEF RoutesMatchSessions
      <4> QED BY <4>1, <4>2
    <3> QED BY <1>3, <3>1, <3>2 DEF CloseErase
  <2>3. \A d \in Conns \ {c} : pc'[d] = pc[d] /\ user'[d] = user[d] /\ session'[d] = session[d]
    BY <1>3, ThreadFacts DEF CloseErase
  <2>4. pc'[c] \in {"unsubscribe", "idle"} /\ session'[c] = None /\ UNCHANGED conn
    BY <1>3, ThreadFacts DEF CloseErase
  <2>5. LoginsFresh'
    BY <2>3, <2>4, ThreadFacts
  <2>6. RoutesMatchSessions'
    BY <2>2, <2>3, <2>4, ThreadFacts DEF RoutesMatchSessions, SigningIn
  <2> QED BY <2>5, <2>6
<1>4. ASSUME NEW c \in Conns, NEW u \in Users, LoginQuery(c, u)
      PROVE  LoginsFresh' /\ RoutesMatchSessions'
  BY <1>4, ThreadFacts DEF LoginQuery, Idle, RoutesMatchSessions, SigningIn
<1>5. ASSUME NEW c \in Conns, LoginInsert(c)
      PROVE  LoginsFresh' /\ RoutesMatchSessions'
  BY <1>5, ThreadFacts DEF LoginInsert, Free, RoutesMatchSessions, SigningIn
<1>6. ASSUME NEW c \in Conns, LoginSubscribe(c)
      PROVE  LoginsFresh' /\ RoutesMatchSessions'
  BY <1>6, ThreadFacts DEF LoginSubscribe, WriteCommand, Fails, RoutesMatchSessions, SigningIn
<1>7. ASSUME NEW c \in Conns, LoginSetOnline(c)
      PROVE  LoginsFresh' /\ RoutesMatchSessions'
  BY <1>7, ThreadFacts DEF LoginSetOnline, RoutesMatchSessions, SigningIn
<1>8. ASSUME NEW c \in Conns, LoginAck(c)
      PROVE  LoginsFresh' /\ RoutesMatchSessions'
  BY <1>8, ThreadFacts DEF LoginAck, Forget, RoutesMatchSessions, SigningIn
<1>9. ASSUME NEW c \in Conns, Logout(c)
      PROVE  LoginsFresh' /\ RoutesMatchSessions'
  BY <1>9, ThreadFacts DEF Logout, Idle, RoutesMatchSessions, SigningIn
<1>10. ASSUME NEW c \in Conns, Unsubscribe(c)
      PROVE  LoginsFresh' /\ RoutesMatchSessions'
  BY <1>10, ThreadFacts, QuietStep DEF Unsubscribe, WriteCommand, Fails
<1>11. ASSUME NEW c \in Conns, SetOffline(c)
      PROVE  LoginsFresh' /\ RoutesMatchSessions'
  BY <1>11, ThreadFacts, QuietStep DEF SetOffline, Forget
<1>12. ASSUME NEW c \in Conns, NEW u \in Users, NEW m \in Msgs, OneChat(c, u, m)
      PROVE  LoginsFresh' /\ RoutesMatchSessions'
  BY <1>12, ThreadFacts, QuietStep DEF OneChat, Idle
<1>13. ASSUME NEW c \in Conns, ChatQuery(c)
      PROVE  LoginsFresh' /\ RoutesMatchSessions'
  BY <1>13, ThreadFacts, QuietStep DEF ChatQuery, QueryState
<1>14. ASSUME NEW c \in Conns, ChatPublish(c)
      PROVE  LoginsFresh' /\ RoutesMatchSessions'
  BY <1>14, ThreadFacts, QuietStep DEF ChatPublish, Publish, Forget
<1>15. ASSUME NEW c \in Conns, ChatStore(c)
      PROVE  LoginsFresh' /\ RoutesMatchSessions'
  BY <1>15, ThreadFacts, QuietStep DEF ChatStore, Store, Forget
<1>16. ASSUME NEW c \in Conns, NEW members \in SUBSET Users, NEW m \in Msgs, GroupQueryUsers(c, members, m)
      PROVE  LoginsFresh' /\ RoutesMatchSessions'
  BY <1>16, ThreadFacts, QuietStep DEF GroupQueryUsers, Idle
<1>17. ASSUME NEW c \in Conns, GroupLock(c)
      PROVE  LoginsFresh' /\ RoutesMatchSessions'
  BY <1>17, ThreadFacts, QuietStep DEF GroupLock, Free
<1>18. ASSUME NEW c \in Conns, NEW u \in Users, GroupMember(c, u)
      PROVE  LoginsFresh' /\ RoutesMatchSessions'
  BY <1>18, ThreadFacts, QuietStep DEF GroupMember
<1>19. ASSUME NEW c \in Conns, GroupQuery(c)
      PROVE  LoginsFresh' /\ RoutesMatchSessions'
  BY <1>19, ThreadFacts, QuietStep DEF GroupQuery, QueryState
<1>20. ASSUME NEW c \in Conns, GroupPublish(c)
      PROVE  LoginsFresh' /\ RoutesMatchSessions'
  BY <1>20, ThreadFacts, QuietStep DEF GroupPublish, Publish, NextMember
<1>21. ASSUME NEW c \in Conns, GroupStore(c)
      PROVE  LoginsFresh' /\ RoutesMatchSessions'
  BY <1>21, ThreadFacts, QuietStep DEF GroupStore, Store, NextMember
<1>22. ASSUME NEW c \in Conns, GroupUnlock(c)
      PROVE  LoginsFresh' /\ RoutesMatchSessions'
  BY <1>22, ThreadFacts, QuietStep DEF GroupUnlock, Forget
<1>23. ASSUME NEW s \in Servers, BrokerExecute(s)
      PROVE  LoginsFresh' /\ RoutesMatchSessions'
  BY <1>23 DEF BrokerExecute, RoutesMatchSessions, SigningIn
<1>24. ASSUME NEW s \in Servers, Notify(s)
      PROVE  LoginsFresh' /\ RoutesMatchSessions'
  <2>1. CASE UNCHANGED <<pc, user>>
    BY <1>24, <2>1 DEF Notify, RoutesMatchSessions, SigningIn
  <2>2. CASE Goto(s, "store") /\ \A d \in Conns : user'[d] = user[d]
    BY <1>24, <2>2, ThreadFacts, QuietStep DEF Notify
  <2> QED BY <1>24, <2>1, <2>2, ThreadFacts DEF Notify
<1>25. ASSUME NEW s \in Servers, NotifyStore(s)
      PROVE  LoginsFresh' /\ RoutesMatchSessions'
  BY <1>25, ThreadFacts, QuietStep DEF NotifyStore, Store, Forget
<1>26. ASSUME NEW s \in Servers, Restart(s)
      PROVE  LoginsFresh' /\ RoutesMatchSessions'
  BY <1>26, ThreadFacts DEF Restart, ServerOf, Threads, RoutesMatchSessions, SigningIn
<1>27. CASE UNCHANGED vars
  BY <1>27 DEF vars, RoutesMatchSessions, SigningIn
<1> QED BY <1>1, <1>2, <1>3, <1>4, <1>5, <1>6, <1>7, <1>8, <1>9, <1>10, <1>11, <1>12, <1>13, <1>14, <1>15, <1>16, <1>17, <1>18, <1>19, <1>20, <1>21, <1>22, <1>23, <1>24, <1>25, <1>26, <1>27 DEF Next, Begin, Continue, Server

\* A thread that neither locks nor unlocks keeps LockMatchesSteps.
LEMMA LockFree ==
    ASSUME Inv, NEW t \in Threads, UNCHANGED ConnMutex,
           \A d \in Threads \ {t} : pc'[d] = pc[d],
           pc[t] \in HoldSteps <=> pc'[t] \in HoldSteps
    PROVE  LockMatchesSteps'
BY DEF Inv, LockMatchesSteps, HoldSteps

\* Every step keeps LockMatchesSteps.
LEMMA LockStep ==
    ASSUME Inv, [Next]_vars
    PROVE  LockMatchesSteps'
<1> USE DEF Inv, TypeOK, ProcessTypes, LockMatchesSteps, Goto, LoginSteps, LeaveSteps, GroupSteps, HoldSteps, clientVars, localVars, mapVars, dbVars, redisVars, historyVars, boundVars
<1>1. ASSUME NEW c \in Conns, Accept(c)
      PROVE  LockMatchesSteps'
  BY <1>1 DEF Accept
<1>2. ASSUME NEW c \in Conns, Close(c)
      PROVE  LockMatchesSteps'
  BY <1>2, ThreadFacts, LockFree DEF Close, Idle
<1>3. ASSUME NEW c \in Conns, CloseErase(c)
      PROVE  LockMatchesSteps'
  <2>1. pc[c] = "closeErase" /\ pc'[c] \in {"unsubscribe", "idle"}
    BY <1>3, ThreadFacts DEF CloseErase
  <2>2. UNCHANGED ConnMutex /\ \A d \in Threads \ {c} : pc'[d] = pc[d]
    BY <1>3, ThreadFacts DEF CloseErase
  <2> QED BY <2>1, <2>2, ThreadFacts, LockFree
<1>4. ASSUME NEW c \in Conns, NEW u \in Users, LoginQuery(c, u)
      PROVE  LockMatchesSteps'
  BY <1>4, ThreadFacts, LockFree DEF LoginQuery, Idle
<1>5. ASSUME NEW c \in Conns, LoginInsert(c)
      PROVE  LockMatchesSteps'
  BY <1>5, ThreadFacts, LockFree DEF LoginInsert, Free
<1>6. ASSUME NEW c \in Conns, LoginSubscribe(c)
      PROVE  LockMatchesSteps'
  BY <1>6, ThreadFacts, LockFree DEF LoginSubscribe, WriteCommand, Fails
<1>7. ASSUME NEW c \in Conns, LoginSetOnline(c)
      PROVE  LockMatchesSteps'
  BY <1>7, ThreadFacts, LockFree DEF LoginSetOnline
<1>8. ASSUME NEW c \in Conns, LoginAck(c)
      PROVE  LockMatchesSteps'
  BY <1>8, ThreadFacts, LockFree DEF LoginAck, Forget
<1>9. ASSUME NEW c \in Conns, Logout(c)
      PROVE  LockMatchesSteps'
  BY <1>9, ThreadFacts, LockFree DEF Logout, Idle
<1>10. ASSUME NEW c \in Conns, Unsubscribe(c)
      PROVE  LockMatchesSteps'
  BY <1>10, ThreadFacts, LockFree DEF Unsubscribe, WriteCommand, Fails
<1>11. ASSUME NEW c \in Conns, SetOffline(c)
      PROVE  LockMatchesSteps'
  BY <1>11, ThreadFacts, LockFree DEF SetOffline, Forget
<1>12. ASSUME NEW c \in Conns, NEW u \in Users, NEW m \in Msgs, OneChat(c, u, m)
      PROVE  LockMatchesSteps'
  BY <1>12, ThreadFacts, LockFree DEF OneChat, Idle
<1>13. ASSUME NEW c \in Conns, ChatQuery(c)
      PROVE  LockMatchesSteps'
  BY <1>13, ThreadFacts, LockFree DEF ChatQuery, QueryState
<1>14. ASSUME NEW c \in Conns, ChatPublish(c)
      PROVE  LockMatchesSteps'
  BY <1>14, ThreadFacts, LockFree DEF ChatPublish, Publish, Forget
<1>15. ASSUME NEW c \in Conns, ChatStore(c)
      PROVE  LockMatchesSteps'
  BY <1>15, ThreadFacts, LockFree DEF ChatStore, Store, Forget
<1>16. ASSUME NEW c \in Conns, NEW members \in SUBSET Users, NEW m \in Msgs, GroupQueryUsers(c, members, m)
      PROVE  LockMatchesSteps'
  BY <1>16, ThreadFacts, LockFree DEF GroupQueryUsers, Idle
<1>17. ASSUME NEW c \in Conns, GroupLock(c)
      PROVE  LockMatchesSteps'
  BY <1>17, ThreadFacts DEF GroupLock, Free
<1>18. ASSUME NEW c \in Conns, NEW u \in Users, GroupMember(c, u)
      PROVE  LockMatchesSteps'
  BY <1>18, ThreadFacts, LockFree DEF GroupMember
<1>19. ASSUME NEW c \in Conns, GroupQuery(c)
      PROVE  LockMatchesSteps'
  BY <1>19, ThreadFacts, LockFree DEF GroupQuery, QueryState
<1>20. ASSUME NEW c \in Conns, GroupPublish(c)
      PROVE  LockMatchesSteps'
  BY <1>20, ThreadFacts, LockFree DEF GroupPublish, Publish, NextMember
<1>21. ASSUME NEW c \in Conns, GroupStore(c)
      PROVE  LockMatchesSteps'
  BY <1>21, ThreadFacts, LockFree DEF GroupStore, Store, NextMember
<1>22. ASSUME NEW c \in Conns, GroupUnlock(c)
      PROVE  LockMatchesSteps'
  BY <1>22, ThreadFacts DEF GroupUnlock, Forget
<1>23. ASSUME NEW s \in Servers, BrokerExecute(s)
      PROVE  LockMatchesSteps'
  BY <1>23 DEF BrokerExecute
<1>24. ASSUME NEW s \in Servers, Notify(s)
      PROVE  LockMatchesSteps'
  <2>1. CASE UNCHANGED <<pc, ConnMutex>>
    BY <2>1
  <2>2. CASE Goto(s, "store") /\ ConnMutex' = [ConnMutex EXCEPT ![s] = s]
    BY <1>24, <2>2, ThreadFacts DEF Notify, Free
  <2> QED BY <1>24, <2>1, <2>2 DEF Notify
<1>25. ASSUME NEW s \in Servers, NotifyStore(s)
      PROVE  LockMatchesSteps'
  BY <1>25, ThreadFacts DEF NotifyStore, Store, Forget
<1>26. ASSUME NEW s \in Servers, Restart(s)
      PROVE  LockMatchesSteps'
  BY <1>26, ThreadFacts DEF Restart, ServerOf, Threads
<1>27. CASE UNCHANGED vars
  BY <1>27 DEF vars
<1> QED BY <1>1, <1>2, <1>3, <1>4, <1>5, <1>6, <1>7, <1>8, <1>9, <1>10, <1>11, <1>12, <1>13, <1>14, <1>15, <1>16, <1>17, <1>18, <1>19, <1>20, <1>21, <1>22, <1>23, <1>24, <1>25, <1>26, <1>27 DEF Next, Begin, Continue, Server

-----------------------------------------------------------------------------
(* The theorems.                                                            *)

LEMMA InitInv == Init => Inv
<1> SUFFICES ASSUME Init PROVE Inv
  OBVIOUS
<1>1. TypeOK
  BY ChatAssumption DEF Init, TypeOK, ProcessTypes, StoreTypes, HistoryTypes, Threads,
                       ConnSteps, ObserverSteps
<1>2. LocalsSet
  BY DEF Init, LocalsSet, UserSteps, MsgSteps, HoldSteps, LoginSteps, LeaveSteps, GroupSteps
<1>3. LoginsFresh
  BY ThreadFacts DEF Init, LoginsFresh, LoginSteps
<1>4. RoutesMatchSessions
  BY DEF Init, RoutesMatchSessions
<1>5. LockMatchesSteps
  BY ThreadFacts DEF Init, LockMatchesSteps, GroupSteps, Threads
<1> QED BY <1>1, <1>2, <1>3, <1>4, <1>5 DEF Inv

\* Every step keeps the invariant.
LEMMA StepInv == Inv /\ [Next]_vars => Inv'
BY ProcessStep, DataStep, RouteStep, LockStep DEF Inv, TypeOK

\* The invariant the theorems below rest on is inductive.
THEOREM Invariance == Spec => []Inv
BY InitInv, StepInv, PTL DEF Spec

\* The values of every variable stay in their types, whatever the threads do.
THEOREM TypeCorrect == Spec => []TypeOK
<1>1. Inv => TypeOK
  BY DEF Inv
<1> QED BY <1>1, Invariance, PTL

\* A message is only ever written to a connection of its own user: a route never
\* survives the session it was made for, even when logins of the same user run
\* concurrently, calls fail and servers restart (chatservice.cpp:176, 218, 237).
THEOREM NoForeignRoute == Spec => []RoutesMatchSessions
<1>1. Inv => RoutesMatchSessions
  BY DEF Inv
<1> QED BY <1>1, Invariance, PTL

\* ConnMutex is never leaked nor held by a thread outside the two places that
\* keep it across calls: groupChat's loop and the observer's insert.
THEOREM LockDiscipline == Spec => []LockMatchesSteps
<1>1. Inv => LockMatchesSteps
  BY DEF Inv
<1> QED BY <1>1, Invariance, PTL

-----------------------------------------------------------------------------
(* One copy of every message.                                               *)

\* A thread forgets what it has finished with.
LocalsForgotten ==
    \A t \in Threads :
        /\ pc[t] \notin UserSteps => user[t] = None
        /\ pc[t] \notin MsgSteps => msg[t] = None
        /\ pc[t] \notin GroupSteps \cup {"groupLock"} => todo[t] = {}
        /\ user[t] \notin todo[t]

\* x waits in the queue q.
InQueue(q, x) == \E i \in 1..Len(q) : q[i] = x

\* Nothing waits twice in q.
Distinct(q) == \A i, j \in 1..Len(q) : q[i] = q[j] => i = j

\* Redis has message m for u, and some server has not taken it yet.
OnItsWay(u, m) == \E s \in Servers : InQueue(inbox[s], [user |-> u, msg |-> m])

\* Copies of m that u has got, that are stored, or that are lost.
Settled(u, m) == received[u][m] + offlinemessage[u][m] + lost[u][m]

\* No copy of m is under way to u.
Gone(u, m) == ~ OnItsWay(u, m) /\ \A t \in Threads : ~ Carries(t, u, m)

\* At most one copy of m is under way to u: one thread carries it or the inboxes
\* have it.
AtMostOne(u, m) ==
    /\ \A t, r \in Threads : Carries(t, u, m) /\ Carries(r, u, m) => t = r
    /\ OnItsWay(u, m) => \A t \in Threads : ~ Carries(t, u, m)

\* At most one thread, or Redis, has a copy of m for u, and none has once the
\* message was received, stored or lost.
OneCopy(u, m) ==
    /\ AtMostOne(u, m)
    /\ ~ Gone(u, m) => Settled(u, m) = 0 /\ <<u, m>> \in posted
    /\ Settled(u, m) \in {0, 1}
    /\ Settled(u, m) = 1 => <<u, m>> \in posted

\* Of every message there is one copy for each of those it was sent to.
OneCopyEach ==
    /\ LocalsForgotten
    /\ \A s \in Servers : Distinct(inbox[s])
    /\ \A u \in Users, m \in Msgs : OneCopy(u, m)

-----------------------------------------------------------------------------
\* Facts about a queue without duplicates: what is appended,
LEMMA InQueueAppend ==
    ASSUME NEW S, NEW q \in Seq(S), NEW x \in S, NEW y
    PROVE  InQueue(Append(q, x), y) <=> InQueue(q, y) \/ y = x
<1>1. /\ Len(Append(q, x)) = Len(q) + 1 /\ Append(q, x)[Len(q) + 1] = x
      /\ \A i \in 1..Len(q) : Append(q, x)[i] = q[i]
      /\ Len(q) \in Nat
  BY AppendProperties, LenProperties
<1>2. InQueue(q, y) => InQueue(Append(q, x), y)
  <2> SUFFICES ASSUME NEW i \in 1..Len(q), q[i] = y PROVE InQueue(Append(q, x), y)
    BY DEF InQueue
  <2>1. i \in 1..Len(Append(q, x)) /\ Append(q, x)[i] = y
    BY <1>1
  <2> QED BY <2>1 DEF InQueue
<1>3. y = x => InQueue(Append(q, x), y)
  <2>1. Len(q) + 1 \in 1..Len(Append(q, x))
    BY <1>1
  <2> QED BY <1>1, <2>1 DEF InQueue
<1>4. ASSUME NEW i \in 1..Len(Append(q, x)), Append(q, x)[i] = y
      PROVE  InQueue(q, y) \/ y = x
  <2>1. CASE i = Len(q) + 1
    BY <1>1, <1>4, <2>1
  <2>2. CASE i # Len(q) + 1
    <3>1. i \in 1..Len(q)
      BY <1>1, <2>2
    <3> QED BY <1>1, <1>4, <3>1 DEF InQueue
  <2> QED BY <2>1, <2>2
<1> QED BY <1>2, <1>3, <1>4 DEF InQueue

\* that it stays without,
LEMMA DistinctAppend ==
    ASSUME NEW S, NEW q \in Seq(S), NEW x \in S, Distinct(q), ~ InQueue(q, x)
    PROVE  Distinct(Append(q, x))
<1>1. /\ Len(Append(q, x)) = Len(q) + 1 /\ Append(q, x)[Len(q) + 1] = x
      /\ \A i \in 1..Len(q) : Append(q, x)[i] = q[i]
      /\ Len(q) \in Nat
  BY AppendProperties, LenProperties
<1> SUFFICES ASSUME NEW i \in 1..Len(Append(q, x)), NEW j \in 1..Len(Append(q, x)),
                    Append(q, x)[i] = Append(q, x)[j]
             PROVE  i = j
  BY DEF Distinct
<1>2. \A k \in 1..Len(Append(q, x)) : k # Len(q) + 1 => k \in 1..Len(q)
  BY <1>1
<1>3. CASE i = Len(q) + 1
  BY <1>1, <1>2, <1>3 DEF InQueue
<1>4. CASE j = Len(q) + 1
  BY <1>1, <1>2, <1>4 DEF InQueue
<1>5. CASE i # Len(q) + 1 /\ j # Len(q) + 1
  BY <1>1, <1>2, <1>5 DEF Distinct
<1> QED BY <1>3, <1>4, <1>5

\* and what is left when its head is taken.
LEMMA DistinctTail ==
    ASSUME NEW S, NEW q \in Seq(S), q # <<>>, Distinct(q)
    PROVE  /\ Distinct(Tail(q))
           /\ \A y : InQueue(Tail(q), y) <=> InQueue(q, y) /\ y # Head(q)
           /\ InQueue(q, Head(q))
<1>1. /\ Len(q) \in Nat /\ Len(q) > 0 /\ Len(Tail(q)) = Len(q) - 1
      /\ \A i \in 1..Len(Tail(q)) : Tail(q)[i] = q[i + 1]
      /\ Head(q) = q[1]
  BY HeadTailProperties, EmptySeq, LenProperties
<1>2. \A i \in 1..Len(Tail(q)) : i + 1 \in 1..Len(q) /\ i + 1 # 1
  BY <1>1
<1>3. \A i \in 1..Len(q) : i # 1 => i - 1 \in 1..Len(Tail(q)) /\ (i - 1) + 1 = i
  BY <1>1
<1>4. Distinct(Tail(q))
  <2> SUFFICES ASSUME NEW i \in 1..Len(Tail(q)), NEW j \in 1..Len(Tail(q)), Tail(q)[i] = Tail(q)[j]
               PROVE  i = j
    BY DEF Distinct
  <2>1. i + 1 = j + 1
    BY <1>1, <1>2 DEF Distinct
  <2> QED BY <1>1, <2>1
<1>5. 1 \in 1..Len(q)
  BY <1>1
<1>6. ASSUME NEW y PROVE InQueue(Tail(q), y) <=> InQueue(q, y) /\ y # Head(q)
  <2>1. ASSUME NEW i \in 1..Len(Tail(q)), Tail(q)[i] = y PROVE InQueue(q, y) /\ y # Head(q)
    <3>1. q[i + 1] = y
      BY <1>1, <2>1
    <3> QED BY <1>1, <1>2, <1>5, <3>1 DEF Distinct, InQueue
  <2>2. ASSUME NEW i \in 1..Len(q), q[i] = y, y # Head(q) PROVE InQueue(Tail(q), y)
    <3>1. i # 1
      BY <1>1, <2>2
    <3>2. Tail(q)[i - 1] = y
      BY <1>1, <1>3, <2>2, <3>1
    <3> QED BY <1>3, <3>1, <3>2 DEF InQueue
  <2> QED BY <2>1, <2>2 DEF InQueue
<1>7. InQueue(q, Head(q))
  BY <1>1, <1>5 DEF InQueue
<1> QED BY <1>4, <1>6, <1>7

\* A count goes up for u and m, and for no other.
LEMMA BumpValues ==
    ASSUME NEW count \in [Users -> [Msgs -> Nat]], NEW u \in Users, NEW m \in Msgs
    PROVE  /\ Bump(count, u, m)[u][m] = count[u][m] + 1
           /\ \A v \in Users, n \in Msgs :
                  v # u \/ n # m => Bump(count, u, m)[v][n] = count[v][n]
BY DEF Bump

\* The same of a variable after the step.
LEMMA Bumped ==
    ASSUME NEW count \in [Users -> [Msgs -> Nat]], NEW u \in Users, NEW m \in Msgs,
           NEW new, new = Bump(count, u, m)
    PROVE  /\ new[u][m] = count[u][m] + 1
           /\ \A v \in Users, n \in Msgs : (v # u \/ n # m) => new[v][n] = count[v][n]
BY BumpValues

\* A thread that is done has forgotten its user and message.
LEMMA ForgottenStep ==
    ASSUME Inv, LocalsForgotten, [Next]_vars
    PROVE  LocalsForgotten'
<1> USE DEF Inv, TypeOK, ProcessTypes, LocalsForgotten, Threads, Goto, LoginSteps, LeaveSteps, GroupSteps, HoldSteps, UserSteps, MsgSteps, clientVars, localVars, mapVars, dbVars, redisVars, historyVars, boundVars
<1>1. ASSUME NEW c \in Conns, Accept(c)
      PROVE  LocalsForgotten'
  BY <1>1, ThreadFacts DEF Accept
<1>2. ASSUME NEW c \in Conns, Close(c)
      PROVE  LocalsForgotten'
  BY <1>2, ThreadFacts DEF Close, Idle
<1>3. ASSUME NEW c \in Conns, CloseErase(c)
      PROVE  LocalsForgotten'
  <2>1. CASE UserConnMap' = UserConnMap /\ user' = user /\ Goto(c, "idle")
    BY <1>3, <2>1, ThreadFacts DEF CloseErase
  <2>2. CASE \E u \in Users : user' = [user EXCEPT ![c] = u] /\ Goto(c, "unsubscribe")
    BY <1>3, <2>2, ThreadFacts DEF CloseErase
  <2> QED BY <1>3, <2>1, <2>2 DEF CloseErase
<1>4. ASSUME NEW c \in Conns, NEW u \in Users, LoginQuery(c, u)
      PROVE  LocalsForgotten'
  BY <1>4, ThreadFacts DEF LoginQuery, Idle
<1>5. ASSUME NEW c \in Conns, LoginInsert(c)
      PROVE  LocalsForgotten'
  BY <1>5, ThreadFacts DEF LoginInsert
<1>6. ASSUME NEW c \in Conns, LoginSubscribe(c)
      PROVE  LocalsForgotten'
  BY <1>6, ThreadFacts DEF LoginSubscribe, WriteCommand, Fails
<1>7. ASSUME NEW c \in Conns, LoginSetOnline(c)
      PROVE  LocalsForgotten'
  BY <1>7, ThreadFacts DEF LoginSetOnline
<1>8. ASSUME NEW c \in Conns, LoginAck(c)
      PROVE  LocalsForgotten'
  BY <1>8, ThreadFacts DEF LoginAck, Forget
<1>9. ASSUME NEW c \in Conns, Logout(c)
      PROVE  LocalsForgotten'
  BY <1>9, ThreadFacts DEF Logout, Idle
<1>10. ASSUME NEW c \in Conns, Unsubscribe(c)
      PROVE  LocalsForgotten'
  BY <1>10, ThreadFacts DEF Unsubscribe, WriteCommand, Fails
<1>11. ASSUME NEW c \in Conns, SetOffline(c)
      PROVE  LocalsForgotten'
  BY <1>11, ThreadFacts DEF SetOffline, Forget
<1>12. ASSUME NEW c \in Conns, NEW u \in Users, NEW m \in Msgs, OneChat(c, u, m)
      PROVE  LocalsForgotten'
  <2>1. CASE UNCHANGED <<pc, user, msg>>
    BY <1>12, <2>1, ThreadFacts DEF OneChat, Idle
  <2>2. CASE user' = [user EXCEPT ![c] = u] /\ msg' = [msg EXCEPT ![c] = m] /\ Goto(c, "chatQuery")
    BY <1>12, <2>2, ThreadFacts DEF OneChat, Idle
  <2> QED BY <1>12, <2>1, <2>2 DEF OneChat, Idle
<1>13. ASSUME NEW c \in Conns, ChatQuery(c)
      PROVE  LocalsForgotten'
  <2>1. CASE Goto(c, "chatPublish")
    BY <1>13, <2>1, ThreadFacts DEF ChatQuery, QueryState
  <2>2. CASE Goto(c, "chatStore")
    BY <1>13, <2>2, ThreadFacts DEF ChatQuery, QueryState
  <2> QED BY <1>13, <2>1, <2>2 DEF ChatQuery, QueryState
<1>14. ASSUME NEW c \in Conns, ChatPublish(c)
      PROVE  LocalsForgotten'
  BY <1>14, ThreadFacts DEF ChatPublish, Publish, Forget
<1>15. ASSUME NEW c \in Conns, ChatStore(c)
      PROVE  LocalsForgotten'
  BY <1>15, ThreadFacts DEF ChatStore, Store, Forget
<1>16. ASSUME NEW c \in Conns, NEW members \in SUBSET Users, NEW m \in Msgs, GroupQueryUsers(c, members, m)
      PROVE  LocalsForgotten'
  <2>1. CASE UNCHANGED <<pc, msg, todo>>
    BY <1>16, <2>1, ThreadFacts DEF GroupQueryUsers, Idle
  <2>2. CASE msg' = [msg EXCEPT ![c] = m] /\ todo' = [todo EXCEPT ![c] = members] /\ Goto(c, "groupLock")
    BY <1>16, <2>2, ThreadFacts DEF GroupQueryUsers, Idle
  <2> QED BY <1>16, <2>1, <2>2 DEF GroupQueryUsers, Idle
<1>17. ASSUME NEW c \in Conns, GroupLock(c)
      PROVE  LocalsForgotten'
  BY <1>17, ThreadFacts DEF GroupLock
<1>18. ASSUME NEW c \in Conns, NEW u \in Users, GroupMember(c, u)
      PROVE  LocalsForgotten'
  <2>1. CASE UNCHANGED <<pc, user>>
    BY <1>18, <2>1, ThreadFacts DEF GroupMember
  <2>2. CASE user' = [user EXCEPT ![c] = u] /\ Goto(c, "groupQuery")
    BY <1>18, <2>2, ThreadFacts DEF GroupMember
  <2> QED BY <1>18, <2>1, <2>2 DEF GroupMember
<1>19. ASSUME NEW c \in Conns, GroupQuery(c)
      PROVE  LocalsForgotten'
  <2>1. CASE Goto(c, "groupPublish")
    BY <1>19, <2>1, ThreadFacts DEF GroupQuery, QueryState
  <2>2. CASE Goto(c, "groupStore")
    BY <1>19, <2>2, ThreadFacts DEF GroupQuery, QueryState
  <2> QED BY <1>19, <2>1, <2>2 DEF GroupQuery, QueryState
<1>20. ASSUME NEW c \in Conns, GroupPublish(c)
      PROVE  LocalsForgotten'
  BY <1>20, ThreadFacts DEF GroupPublish, Publish, NextMember
<1>21. ASSUME NEW c \in Conns, GroupStore(c)
      PROVE  LocalsForgotten'
  BY <1>21, ThreadFacts DEF GroupStore, Store, NextMember
<1>22. ASSUME NEW c \in Conns, GroupUnlock(c)
      PROVE  LocalsForgotten'
  BY <1>22, ThreadFacts DEF GroupUnlock, Forget
<1>23. ASSUME NEW s \in Servers, BrokerExecute(s)
      PROVE  LocalsForgotten'
  BY <1>23, ThreadFacts DEF BrokerExecute
<1>24. ASSUME NEW s \in Servers, Notify(s)
      PROVE  LocalsForgotten'
  <2>1. CASE UNCHANGED <<pc, user, msg>>
    BY <1>24, <2>1, ThreadFacts DEF Notify
  <2>2. CASE user' = [user EXCEPT ![s] = Head(inbox[s]).user] /\ msg' = [msg EXCEPT ![s] = Head(inbox[s]).msg] /\ Goto(s, "store")
    BY <1>24, <2>2, ThreadFacts DEF Notify
  <2> QED BY <1>24, <2>1, <2>2 DEF Notify
<1>25. ASSUME NEW s \in Servers, NotifyStore(s)
      PROVE  LocalsForgotten'
  BY <1>25, ThreadFacts DEF NotifyStore, Store, Forget
<1>26. ASSUME NEW s \in Servers, Restart(s)
      PROVE  LocalsForgotten'
  BY <1>26, ThreadFacts DEF Restart, ServerOf
<1>27. CASE UNCHANGED vars
  BY <1>27 DEF vars
<1> QED BY <1>1, <1>2, <1>3, <1>4, <1>5, <1>6, <1>7, <1>8, <1>9, <1>10, <1>11, <1>12, <1>13, <1>14, <1>15, <1>16, <1>17, <1>18, <1>19, <1>20, <1>21, <1>22, <1>23, <1>24, <1>25, <1>26, <1>27 DEF Next, Begin, Continue, Server

-----------------------------------------------------------------------------
(* What a step may do with m for u: leave it where it is, hand the one copy  *)
(* on or make it, or end it.                                                 *)

Open(u, m) == <<u, m>> \notin posted \/ ~ Gone(u, m)

\* A step does nothing to the copy of m for u,
Stays(u, m) ==
    /\ OnItsWay(u, m)' <=> OnItsWay(u, m)
    /\ \A t \in Threads : Carries(t, u, m)' <=> Carries(t, u, m)
    /\ received'[u][m] = received[u][m]
    /\ offlinemessage'[u][m] = offlinemessage[u][m]
    /\ lost'[u][m] = lost[u][m]
    /\ <<u, m>> \in posted' <=> <<u, m>> \in posted

\* or hands it on, on its way,
MovesOn(u, m) ==
    /\ Open(u, m)
    /\ AtMostOne(u, m)'
    /\ received'[u][m] = received[u][m]
    /\ offlinemessage'[u][m] = offlinemessage[u][m]
    /\ lost'[u][m] = lost[u][m]
    /\ <<u, m>> \in posted'

\* or settles it: it is received, lost or stored.
Settles(u, m) ==
    /\ Open(u, m)
    /\ Gone(u, m)'
    /\ <<u, m>> \in posted'
    /\ \/ /\ received'[u][m] = received[u][m] + 1
          /\ offlinemessage'[u][m] = offlinemessage[u][m]
          /\ lost'[u][m] = lost[u][m]
       \/ /\ received'[u][m] = received[u][m]
          /\ offlinemessage'[u][m] = offlinemessage[u][m]
          /\ lost'[u][m] = lost[u][m] + 1
       \/ /\ received'[u][m] = received[u][m]
          /\ offlinemessage'[u][m] = offlinemessage[u][m] + 1
          /\ lost'[u][m] = lost[u][m]
          /\ <<u, m>> \in posted

\* These are the three things a step may do to a copy.
Routed(u, m) == Stays(u, m) \/ MovesOn(u, m) \/ Settles(u, m)

\* The counts are natural numbers.
LEMMA CountsTyped ==
    ASSUME TypeOK, NEW u \in Users, NEW m \in Msgs
    PROVE  received[u][m] \in Nat /\ offlinemessage[u][m] \in Nat /\ lost[u][m] \in Nat
BY DEF TypeOK, StoreTypes, HistoryTypes

\* Where a message goes, there is one copy of it.
LEMMA RoutedOneCopy ==
    ASSUME TypeOK, NEW u \in Users, NEW m \in Msgs, OneCopy(u, m), Routed(u, m)
    PROVE  OneCopy(u, m)'
<1> USE CountsTyped
<1>1. CASE Stays(u, m)
  <2>1. AtMostOne(u, m)' /\ (Gone(u, m)' <=> Gone(u, m)) /\ (Settled(u, m)' = Settled(u, m))
    BY <1>1 DEF Stays, OneCopy, AtMostOne, Gone, Settled
  <2> QED BY <1>1, <2>1 DEF Stays, OneCopy
<1>2. CASE MovesOn(u, m)
  <2>1. Settled(u, m) = 0
    BY <1>2 DEF MovesOn, Open, OneCopy
  <2>2. Settled(u, m)' = 0
    BY <1>2, <2>1 DEF MovesOn, Settled
  <2> QED BY <1>2, <2>2 DEF MovesOn, OneCopy
<1>3. CASE Settles(u, m)
  <2>1. Settled(u, m) = 0
    BY <1>3 DEF Settles, Open, OneCopy
  <2>2. Settled(u, m)' = 1
    BY <1>3, <2>1 DEF Settles, Settled
  <2>3. AtMostOne(u, m)'
    BY <1>3 DEF Settles, Gone, AtMostOne
  <2> QED BY <1>3, <2>2, <2>3 DEF Settles, OneCopy
<1> QED BY <1>1, <1>2, <1>3 DEF Routed

\* Where a message goes, Delivery lets it.
LEMMA RoutedFate ==
    ASSUME TypeOK, NEW u \in Users, NEW m \in Msgs, OneCopy(u, m), Routed(u, m)
    PROVE  Fate(u, m)' # Fate(u, m) => Fate(u, m)' \in Promise!After(Fate(u, m))
<1> USE CountsTyped
<1>1. CASE Stays(u, m)
  BY <1>1 DEF Stays, Fate
<1>2. CASE MovesOn(u, m)
  <2>1. Settled(u, m) = 0
    BY <1>2 DEF MovesOn, Open, OneCopy
  <2>2. Fate(u, m) \in {"none", "pending"} /\ Fate(u, m)' = "pending"
    BY <1>2, <2>1 DEF MovesOn, Settled, Fate
  <2> QED BY <2>2 DEF Promise!After
<1>3. CASE Settles(u, m)
  <2>1. Settled(u, m) = 0
    BY <1>3 DEF Settles, Open, OneCopy
  <2>2. received[u][m] = 0 /\ offlinemessage[u][m] = 0 /\ lost[u][m] = 0
    <3>1. \A i, j, k \in Nat : i + j + k = 0 => i = 0 /\ j = 0 /\ k = 0
      OBVIOUS
    <3> QED BY <2>1, <3>1 DEF Settled
  <2>3. \/ Fate(u, m)' \in {"received", "lost"} /\ Fate(u, m) \in {"none", "pending"}
        \/ Fate(u, m)' = "stored" /\ Fate(u, m) = "pending"
    BY <1>3, <2>2 DEF Settles, Fate
  <2> QED BY <2>3 DEF Promise!After, Promise!Outcomes
<1> QED BY <1>1, <1>2, <1>3 DEF Routed

\* The invariant for one server.
InOneCopy == Inv /\ OneCopyEach

\* A step treats every copy well, and no inbox holds one twice.
AllRouted == /\ \A s \in Servers : Distinct(inbox[s])'
             /\ \A u \in Users, m \in Msgs : Routed(u, m)

\* Threads in other steps carry nothing.
LEMMA CarriersFacts ==
    ASSUME InOneCopy, NEW t \in Threads, NEW u \in Users, NEW m \in Msgs, Carries(t, u, m)
    PROVE  /\ pc[t] \in MsgSteps /\ msg[t] = m
           /\ <<u, m>> \in posted /\ ~ Gone(u, m)
           /\ ~ OnItsWay(u, m)
           /\ \A r \in Threads : Carries(r, u, m) => r = t
BY ThreadFacts DEF InOneCopy, OneCopyEach, LocalsForgotten, OneCopy, AtMostOne, Gone, Carries

\* A step after which every thread carries what it carried, and Redis has what
\* it had.
LEMMA NothingMoves ==
    ASSUME InOneCopy,
           UNCHANGED <<inbox, offlinemessage, posted, received, lost>>,
           \A t \in Threads, u \in Users, m \in Msgs : Carries(t, u, m)' <=> Carries(t, u, m)
    PROVE  AllRouted
BY DEF InOneCopy, OneCopyEach, AllRouted, Routed, Stays, OnItsWay

\* send on a connection settles one copy, and touches no other.
LEMMA SentOnce ==
    ASSUME HistoryTypes, NEW d, NEW w \in Users, NEW m \in Msgs, SendTo(d, w, m)
    PROVE  /\ \A u \in Users, n \in Msgs :
                 (u # w \/ n # m) => received'[u][n] = received[u][n] /\ lost'[u][n] = lost[u][n]
           /\ \/ received'[w][m] = received[w][m] + 1 /\ lost'[w][m] = lost[w][m]
              \/ received'[w][m] = received[w][m] /\ lost'[w][m] = lost[w][m] + 1
<1>1. received \in [Users -> [Msgs -> Nat]] /\ lost \in [Users -> [Msgs -> Nat]]
  BY DEF HistoryTypes
<1>2. CASE received' = Bump(received, w, m) /\ UNCHANGED lost
  <2>1. /\ received'[w][m] = received[w][m] + 1
        /\ \A u \in Users, n \in Msgs : (u # w \/ n # m) => received'[u][n] = received[u][n]
    BY <1>1, <1>2, Bumped
  <2> QED BY <1>2, <2>1
<1>3. CASE lost' = Bump(lost, w, m) /\ UNCHANGED received
  <2>1. /\ lost'[w][m] = lost[w][m] + 1
        /\ \A u \in Users, n \in Msgs : (u # w \/ n # m) => lost'[u][n] = lost[u][n]
    BY <1>1, <1>3, Bumped
  <2> QED BY <1>3, <2>1
<1> QED BY <1>2, <1>3 DEF SendTo

\* oneChat sends the message, or carries it on to look the user up.
LEMMA OneChatRouted ==
    ASSUME InOneCopy, NEW c \in Conns, NEW to \in Users, NEW m \in Msgs, OneChat(c, to, m)
    PROVE  AllRouted
<1> USE ThreadFacts DEF Goto, dbVars, redisVars, clientVars, localVars, mapVars, boundVars
<1>1. /\ pc[c] = "idle" /\ msg[c] = None /\ user[c] = None /\ todo[c] = {}
      /\ \A u \in Users : <<u, m>> \notin posted
      /\ posted' = posted \cup {<<to, m>>}
      /\ UNCHANGED <<inbox, offlinemessage, todo>>
  BY DEF OneChat, Idle, Fresh, InOneCopy, OneCopyEach, LocalsForgotten, UserSteps, MsgSteps, HoldSteps,
         GroupSteps, LoginSteps, LeaveSteps
<1>2. \A t \in Threads : ~ Carries(t, to, m)
  BY <1>1, CarriersFacts
<1>3. ~ OnItsWay(to, m) /\ Open(to, m)
  BY <1>1, <1>2 DEF InOneCopy, OneCopyEach, OneCopy, Gone, Open
<1>4. \A s \in Servers : Distinct(inbox[s])'
  BY <1>1 DEF InOneCopy, OneCopyEach
<1>5. /\ received \in [Users -> [Msgs -> Nat]] /\ lost \in [Users -> [Msgs -> Nat]]
      /\ user \in [Threads -> Users \cup {None}] /\ msg \in [Threads -> Msgs \cup {None}]
  BY DEF InOneCopy, Inv, TypeOK, ProcessTypes, HistoryTypes
<1>6. CASE UNCHANGED <<user, msg>> /\ SendTo(UserConnMap[Home[c]][to], to, m)
  <2>1. /\ \A u \in Users, n \in Msgs :
               (u # to \/ n # m) => received'[u][n] = received[u][n] /\ lost'[u][n] = lost[u][n]
        /\ \/ received'[to][m] = received[to][m] + 1 /\ lost'[to][m] = lost[to][m]
           \/ received'[to][m] = received[to][m] /\ lost'[to][m] = lost[to][m] + 1
    BY <1>6, SentOnce DEF InOneCopy, Inv, TypeOK
  <2>2. /\ \A u \in Users, n \in Msgs : OnItsWay(u, n)' <=> OnItsWay(u, n)
        /\ \A t \in Threads, u \in Users, n \in Msgs : Carries(t, u, n)' <=> Carries(t, u, n)
    BY <1>1, <1>6 DEF OnItsWay, Carries
  <2>3. \A u \in Users, n \in Msgs : (u # to \/ n # m) => Stays(u, n)
    BY <1>1, <2>1, <2>2 DEF Stays
  <2>4. Settles(to, m)
    BY <1>1, <1>2, <1>3, <2>1, <2>2 DEF Settles, Gone
  <2> QED BY <1>4, <2>3, <2>4 DEF AllRouted, Routed
<1>7. CASE /\ user' = [user EXCEPT ![c] = to] /\ msg' = [msg EXCEPT ![c] = m]
           /\ UNCHANGED <<received, lost>>
  <2>1. \A u \in Users, n \in Msgs : (u # to \/ n # m) => Stays(u, n)
    BY <1>1, <1>5, <1>7 DEF Stays, OnItsWay, Carries
  <2>2. MovesOn(to, m)
    BY <1>1, <1>2, <1>3, <1>5, <1>7 DEF MovesOn, AtMostOne, OnItsWay, Carries
  <2> QED BY <1>4, <2>1, <2>2 DEF AllRouted, Routed
<1> QED BY <1>6, <1>7 DEF OneChat

\* groupChat takes the members out of the table: it carries a copy for each.
LEMMA GroupQueryUsersRouted ==
    ASSUME InOneCopy, NEW c \in Conns, NEW members \in SUBSET Users, NEW m \in Msgs,
           GroupQueryUsers(c, members, m)
    PROVE  AllRouted
<1> USE ThreadFacts DEF Goto, dbVars, redisVars, clientVars, localVars, mapVars, boundVars
<1>1. /\ pc[c] = "idle" /\ msg[c] = None /\ user[c] = None /\ todo[c] = {}
      /\ \A u \in Users : <<u, m>> \notin posted
      /\ posted' = posted \cup (members \X {m})
      /\ UNCHANGED <<inbox, offlinemessage, user, received>>
  BY DEF GroupQueryUsers, Idle, Fresh, InOneCopy, OneCopyEach, LocalsForgotten, UserSteps, MsgSteps, HoldSteps,
         GroupSteps, LoginSteps, LeaveSteps
<1>2. \A t \in Threads, u \in Users : ~ Carries(t, u, m)
  BY <1>1, CarriersFacts
<1>3. \A u \in Users : ~ OnItsWay(u, m) /\ Open(u, m)
  BY <1>1, <1>2 DEF InOneCopy, OneCopyEach, OneCopy, Gone, Open
<1>4. \A s \in Servers : Distinct(inbox[s])'
  BY <1>1 DEF InOneCopy, OneCopyEach
<1>5. /\ lost \in [Users -> [Msgs -> Nat]]
      /\ msg \in [Threads -> Msgs \cup {None}] /\ todo \in [Threads -> SUBSET Users]
  BY DEF InOneCopy, Inv, TypeOK, ProcessTypes, HistoryTypes
<1>6. \A u \in Users, n \in Msgs : (<<u, n>> \in posted' <=> <<u, n>> \in posted \/ (u \in members /\ n = m))
  BY <1>1
<1>7. CASE /\ msg' = [msg EXCEPT ![c] = m] /\ todo' = [todo EXCEPT ![c] = members]
           /\ UNCHANGED lost
  <2>1. \A u \in Users, n \in Msgs : (u \notin members \/ n # m) => Stays(u, n)
    BY <1>1, <1>2, <1>5, <1>6, <1>7 DEF Stays, OnItsWay, Carries
  <2>2. \A u \in members : MovesOn(u, m)
    BY <1>1, <1>2, <1>3, <1>5, <1>6, <1>7 DEF MovesOn, AtMostOne, OnItsWay, Carries
  <2> QED BY <1>4, <2>1, <2>2 DEF AllRouted, Routed
<1>8. CASE /\ UNCHANGED <<msg, todo>>
           /\ lost' = [u \in Users |-> IF u \in members
                                       THEN [lost[u] EXCEPT ![m] = @ + 1]
                                       ELSE lost[u]]
  <2>1. \A u \in Users, n \in Msgs : (u \notin members \/ n # m) => Stays(u, n)
    BY <1>1, <1>5, <1>6, <1>8 DEF Stays, OnItsWay, Carries
  <2>2. \A u \in members : Settles(u, m)
    BY <1>1, <1>2, <1>3, <1>5, <1>6, <1>8 DEF Settles, Gone, OnItsWay, Carries
  <2> QED BY <1>4, <2>1, <2>2 DEF AllRouted, Routed
<1> QED BY <1>7, <1>8 DEF GroupQueryUsers

\* There is one server process.
OneServer == \A s, r \in Servers : s = r

\* A thread is done with the copy it had for user[t].
Releases(t) ==
    \A r \in Threads, v \in Users, n \in Msgs :
        Carries(r, v, n)' <=> Carries(r, v, n) /\ ~ (r = t /\ v = user[t] /\ n = msg[t])

\* After the last member, or with the next one, the copy of the one before is
\* let go.
LEMMA Released ==
    ASSUME InOneCopy, NEW t \in Threads, (Forget(t) /\ todo[t] = {}) \/ NextMember(t)
    PROVE  Releases(t)
<1> USE ThreadFacts
<1>1. /\ user \in [Threads -> Users \cup {None}] /\ msg \in [Threads -> Msgs \cup {None}]
      /\ user[t] \notin todo[t]
  BY DEF InOneCopy, Inv, TypeOK, ProcessTypes, OneCopyEach, LocalsForgotten
<1>2. CASE Forget(t) /\ todo[t] = {}
  BY <1>1, <1>2 DEF Forget, Releases, Carries
<1>3. CASE NextMember(t)
  BY <1>1, <1>3 DEF NextMember, Releases, Carries
<1> QED BY <1>2, <1>3

\* What a thread that carries m for u, and lets go of it, makes of all others.
LEMMA ReleasedOthers ==
    ASSUME InOneCopy, NEW t \in Threads, NEW u \in Users, NEW m \in Msgs,
           user[t] = u, msg[t] = m, Releases(t)
    PROVE  /\ Open(u, m) /\ <<u, m>> \in posted /\ ~ OnItsWay(u, m)
           /\ \A r \in Threads : ~ Carries(r, u, m)'
           /\ \A r \in Threads, v \in Users, n \in Msgs :
                  (v # u \/ n # m) => (Carries(r, v, n)' <=> Carries(r, v, n))
<1>1. Carries(t, u, m)
  BY DEF Carries
<1>2. <<u, m>> \in posted /\ ~ OnItsWay(u, m) /\ Open(u, m)
  BY <1>1, CarriersFacts DEF Open
<1>3. \A r \in Threads : Carries(r, u, m) => r = t
  BY <1>1, CarriersFacts
<1> QED BY <1>2, <1>3 DEF Releases

\* A stored message is settled.
LEMMA StoreRouted ==
    ASSUME InOneCopy, NEW t \in Threads, NEW u \in Users, NEW m \in Msgs,
           user[t] = u, msg[t] = m, Releases(t), NEW next, Store(t, next)
    PROVE  AllRouted
<1>1. /\ Open(u, m) /\ <<u, m>> \in posted /\ ~ OnItsWay(u, m)
      /\ \A r \in Threads : ~ Carries(r, u, m)'
      /\ \A r \in Threads, v \in Users, n \in Msgs :
             (v # u \/ n # m) => (Carries(r, v, n)' <=> Carries(r, v, n))
  BY ReleasedOthers
<1>2. UNCHANGED <<inbox, posted, received>>
  BY DEF Store, redisVars
<1>3. \A s \in Servers : Distinct(inbox[s])'
  BY <1>2 DEF InOneCopy, OneCopyEach
<1>4. /\ \A v \in Users, n \in Msgs :
             (v # u \/ n # m) => /\ offlinemessage'[v][n] = offlinemessage[v][n]
                                 /\ lost'[v][n] = lost[v][n]
      /\ \/ offlinemessage'[u][m] = offlinemessage[u][m] + 1 /\ lost'[u][m] = lost[u][m]
         \/ offlinemessage'[u][m] = offlinemessage[u][m] /\ lost'[u][m] = lost[u][m] + 1
  <2>1. offlinemessage \in [Users -> [Msgs -> Nat]] /\ lost \in [Users -> [Msgs -> Nat]]
    BY DEF InOneCopy, Inv, TypeOK, StoreTypes, HistoryTypes
  <2>2. CASE offlinemessage' = Bump(offlinemessage, u, m) /\ UNCHANGED lost
    <3>1. /\ offlinemessage'[u][m] = offlinemessage[u][m] + 1
          /\ \A v \in Users, n \in Msgs : (v # u \/ n # m) => offlinemessage'[v][n] = offlinemessage[v][n]
      BY <2>1, <2>2, Bumped
    <3> QED BY <2>2, <3>1
  <2>3. CASE lost' = Bump(lost, u, m) /\ UNCHANGED offlinemessage
    <3>1. /\ lost'[u][m] = lost[u][m] + 1
          /\ \A v \in Users, n \in Msgs : (v # u \/ n # m) => lost'[v][n] = lost[v][n]
      BY <2>1, <2>3, Bumped
    <3> QED BY <2>3, <3>1
  <2> QED BY <2>2, <2>3 DEF Store
<1>5. \A v \in Users, n \in Msgs : OnItsWay(v, n)' <=> OnItsWay(v, n)
  BY <1>2 DEF OnItsWay
<1>6. \A v \in Users, n \in Msgs : (v # u \/ n # m) => Stays(v, n)
  BY <1>1, <1>2, <1>4, <1>5 DEF Stays
<1>7. Settles(u, m)
  BY <1>1, <1>2, <1>4, <1>5 DEF Settles, Gone
<1> QED BY <1>3, <1>6, <1>7 DEF AllRouted, Routed

\* With one server a published message reaches one inbox, or none.
LEMMA PublishRouted ==
    ASSUME InOneCopy, OneServer, NEW t \in Threads, NEW u \in Users, NEW m \in Msgs,
           user[t] = u, msg[t] = m, Releases(t), NEW next, Publish(t, next)
    PROVE  AllRouted
<1> DEFINE note == [user |-> u, msg |-> m]
           Notes == [user : Users, msg : Msgs]
<1>1. /\ Open(u, m) /\ <<u, m>> \in posted /\ ~ OnItsWay(u, m)
      /\ \A r \in Threads : ~ Carries(r, u, m)'
      /\ \A r \in Threads, v \in Users, n \in Msgs :
             (v # u \/ n # m) => (Carries(r, v, n)' <=> Carries(r, v, n))
  BY ReleasedOthers
<1>2. UNCHANGED <<offlinemessage, posted, received>>
  BY DEF Publish, dbVars
<1>3. /\ inbox \in [Servers -> Seq(Notes)] /\ subs[u] \subseteq Servers
      /\ lost \in [Users -> [Msgs -> Nat]] /\ note \in Notes
  BY DEF InOneCopy, Inv, TypeOK, StoreTypes, HistoryTypes
<1>4. CASE UNCHANGED inbox /\ lost' = Bump(lost, u, m)
  <2>1. \A s \in Servers : Distinct(inbox[s])'
    BY <1>4 DEF InOneCopy, OneCopyEach
  <2>2. \A v \in Users, n \in Msgs : OnItsWay(v, n)' <=> OnItsWay(v, n)
    BY <1>4 DEF OnItsWay
  <2>3. /\ lost'[u][m] = lost[u][m] + 1
        /\ \A v \in Users, n \in Msgs : (v # u \/ n # m) => lost'[v][n] = lost[v][n]
    BY <1>3, <1>4, BumpValues
  <2>4. \A v \in Users, n \in Msgs : (v # u \/ n # m) => Stays(v, n)
    BY <1>1, <1>2, <2>2, <2>3 DEF Stays
  <2>5. Settles(u, m)
    BY <1>1, <1>2, <2>2, <2>3 DEF Settles, Gone
  <2> QED BY <2>1, <2>4, <2>5 DEF AllRouted, Routed
<1>5. CASE /\ UNCHANGED lost /\ subs[u] # {}
           /\ inbox' = [s \in Servers |-> IF s \in subs[u] THEN Append(inbox[s], note) ELSE inbox[s]]
  <2>1. \A s \in Servers : inbox'[s] = Append(inbox[s], note)
    BY <1>3, <1>5 DEF OneServer
  <2>2. \A s \in Servers : \A x : InQueue(inbox'[s], x) <=> InQueue(inbox[s], x) \/ x = note
    <3> SUFFICES ASSUME NEW s \in Servers, NEW x
                 PROVE  InQueue(inbox'[s], x) <=> InQueue(inbox[s], x) \/ x = note
      OBVIOUS
    <3>1. inbox[s] \in Seq(Notes) /\ note \in Notes
      BY <1>3
    <3> HIDE DEF note, Notes
    <3>2. InQueue(Append(inbox[s], note), x) <=> InQueue(inbox[s], x) \/ x = note
      BY <3>1, InQueueAppend
    <3>3. inbox'[s] = Append(inbox[s], note)
      BY <2>1
    <3> QED BY <3>2, <3>3
  <2>3. \A s \in Servers : Distinct(inbox[s])'
    <3>1. \A s \in Servers : Distinct(inbox[s]) /\ ~ InQueue(inbox[s], note)
      BY <1>1 DEF OnItsWay, InOneCopy, OneCopyEach
    <3> HIDE DEF note, Notes
    <3> QED BY <1>3, <2>1, <3>1, DistinctAppend
  <2>4. \A v \in Users, n \in Msgs : (v # u \/ n # m) => [user |-> v, msg |-> n] # note
    OBVIOUS
  <2>5. \A v \in Users, n \in Msgs : (v # u \/ n # m) => (OnItsWay(v, n)' <=> OnItsWay(v, n))
    <3> HIDE DEF note
    <3> QED BY <2>2, <2>4 DEF OnItsWay
  <2>6. \A v \in Users, n \in Msgs : (v # u \/ n # m) => Stays(v, n)
    BY <1>1, <1>2, <1>5, <2>5 DEF Stays
  <2>7. MovesOn(u, m)
    BY <1>1, <1>2, <1>5 DEF MovesOn, AtMostOne
  <2> QED BY <2>3, <2>6, <2>7 DEF AllRouted, Routed
<1> QED BY <1>4, <1>5 DEF Publish

\* groupChat sends to a member that is connected here, or looks it up.
LEMMA GroupMemberRouted ==
    ASSUME InOneCopy, NEW c \in Conns, NEW u \in Users, GroupMember(c, u)
    PROVE  AllRouted
<1> USE ThreadFacts DEF Goto, dbVars, redisVars, clientVars, localVars, mapVars, boundVars
<1> DEFINE m == msg[c]
<1>1. /\ pc[c] = "groupLoop" /\ user[c] = None /\ u \in todo[c] /\ m \in Msgs
      /\ UNCHANGED <<inbox, offlinemessage, msg, posted>>
      /\ todo' = [todo EXCEPT ![c] = @ \ {u}]
  BY DEF GroupMember, InOneCopy, Inv, LocalsSet, OneCopyEach, LocalsForgotten, UserSteps, MsgSteps, HoldSteps,
         GroupSteps, LoginSteps, LeaveSteps
<1>a. m = msg[c]
  OBVIOUS
<1>2. /\ user \in [Threads -> Users \cup {None}] /\ todo \in [Threads -> SUBSET Users]
  BY DEF InOneCopy, Inv, TypeOK, ProcessTypes
<1>3. Carries(c, u, m)
  BY <1>1 DEF Carries
<1>4. CASE UNCHANGED user /\ SendTo(UserConnMap[Home[c]][u], u, m)
  <2>1. \A r \in Threads, v \in Users, n \in Msgs :
            Carries(r, v, n)' <=> Carries(r, v, n) /\ ~ (r = c /\ v = u /\ n = m)
    BY <1>1, <1>2, <1>4 DEF Carries
  <2>2. /\ <<u, m>> \in posted /\ ~ OnItsWay(u, m) /\ Open(u, m)
        /\ \A r \in Threads : Carries(r, u, m) => r = c
    BY <1>1, <1>3, CarriersFacts DEF Open
  <2>3. /\ \A v \in Users, n \in Msgs :
               (v # u \/ n # m) => received'[v][n] = received[v][n] /\ lost'[v][n] = lost[v][n]
        /\ \/ received'[u][m] = received[u][m] + 1 /\ lost'[u][m] = lost[u][m]
           \/ received'[u][m] = received[u][m] /\ lost'[u][m] = lost[u][m] + 1
    <3>1. HistoryTypes
      BY DEF InOneCopy, Inv, TypeOK
    <3>2. SendTo(UserConnMap[Home[c]][u], u, m)
      BY <1>4
    <3> QED BY <1>1, <3>1, <3>2, SentOnce
  <2>4. \A v \in Users, n \in Msgs : OnItsWay(v, n)' <=> OnItsWay(v, n)
    BY <1>1 DEF OnItsWay
  <2>5. \A v \in Users, n \in Msgs : (v # u \/ n # m) => Stays(v, n)
    BY <1>1, <2>1, <2>3, <2>4 DEF Stays
  <2>6. Settles(u, m)
    BY <1>1, <2>1, <2>2, <2>3, <2>4 DEF Settles, Gone
  <2>7. \A s \in Servers : Distinct(inbox[s])'
    BY <1>1 DEF InOneCopy, OneCopyEach
  <2> QED BY <2>5, <2>6, <2>7 DEF AllRouted, Routed
<1>5. CASE user' = [user EXCEPT ![c] = u] /\ UNCHANGED <<received, lost>>
  <2>1. \A r \in Threads, v \in Users, n \in Msgs : Carries(r, v, n)' <=> Carries(r, v, n)
    BY <1>1, <1>2, <1>5 DEF Carries
  <2> QED BY <1>1, <1>5, <2>1, NothingMoves
<1> QED BY <1>4, <1>5 DEF GroupMember

\* With one server, under way over Redis means in its inbox.
LEMMA OnOneServer ==
    ASSUME OneServer, NEW s \in Servers, NEW u \in Users, NEW m \in Msgs
    PROVE  /\ OnItsWay(u, m) <=> InQueue(inbox[s], [user |-> u, msg |-> m])
           /\ OnItsWay(u, m)' <=> InQueue(inbox'[s], [user |-> u, msg |-> m])
<1>1. \A r \in Servers : r = s
  BY DEF OneServer
<1> QED BY <1>1 DEF OnItsWay

\* The observer takes a message out of the inbox and sends it, or carries it to
\* the store.
LEMMA NotifyRouted ==
    ASSUME InOneCopy, OneServer, NEW s \in Servers, Notify(s)
    PROVE  AllRouted
<1> USE ThreadFacts
<1> DEFINE Notes == [user : Users, msg : Msgs]
<1>1. /\ pc[s] = "idle" /\ msg[s] = None /\ todo[s] = {}
      /\ inbox[s] # <<>> /\ inbox \in [Servers -> Seq(Notes)]
      /\ inbox' = [inbox EXCEPT ![s] = Tail(@)]
      /\ UNCHANGED <<offlinemessage, todo, posted>>
      /\ user \in [Threads -> Users \cup {None}] /\ msg \in [Threads -> Msgs \cup {None}]
      /\ Distinct(inbox[s])
  BY DEF Notify, dbVars, InOneCopy, Inv, TypeOK, ProcessTypes, StoreTypes, OneCopyEach, LocalsForgotten,
         MsgSteps, HoldSteps, GroupSteps
<1>2. Head(inbox[s]) \in Notes
  <2> HIDE DEF Notes
  <2> QED BY <1>1, HeadTailProperties
<1>3. PICK u \in Users, m \in Msgs : Head(inbox[s]) = [user |-> u, msg |-> m]
  BY <1>2
<1>4. /\ Distinct(inbox'[s])
      /\ \A x : InQueue(inbox'[s], x) <=> InQueue(inbox[s], x) /\ x # Head(inbox[s])
      /\ InQueue(inbox[s], Head(inbox[s]))
  <2>1. inbox'[s] = Tail(inbox[s])
    BY <1>1
  <2>2. inbox[s] \in Seq(Notes)
    BY <1>1
  <2> HIDE DEF Notes
  <2> QED BY <1>1, <2>1, <2>2, DistinctTail
<1>5. \A r \in Servers : Distinct(inbox[r])'
  BY <1>4 DEF OneServer
<1>6. OnItsWay(u, m) /\ ~ OnItsWay(u, m)'
  BY <1>3, <1>4, OnOneServer
<1>7. ASSUME NEW v \in Users, NEW n \in Msgs, v # u \/ n # m
      PROVE  OnItsWay(v, n)' <=> OnItsWay(v, n)
  <2>1. [user |-> v, msg |-> n] # Head(inbox[s])
    BY <1>3, <1>7
  <2> QED BY <1>4, <2>1, OnOneServer
<1>8. /\ Open(u, m) /\ <<u, m>> \in posted
      /\ \A t \in Threads : ~ Carries(t, u, m)
  <2>1. OneCopy(u, m) /\ ~ Gone(u, m)
    BY <1>6 DEF InOneCopy, OneCopyEach, Gone
  <2> QED BY <1>6, <2>1 DEF OneCopy, AtMostOne, Open
<1>9. CASE UNCHANGED <<user, msg>> /\ SendTo(UserConnMap[s][u], u, m)
  <2>1. \A t \in Threads, v \in Users, n \in Msgs : Carries(t, v, n)' <=> Carries(t, v, n)
    BY <1>1, <1>9 DEF Carries
  <2>2. /\ \A v \in Users, n \in Msgs :
               (v # u \/ n # m) => received'[v][n] = received[v][n] /\ lost'[v][n] = lost[v][n]
        /\ \/ received'[u][m] = received[u][m] + 1 /\ lost'[u][m] = lost[u][m]
           \/ received'[u][m] = received[u][m] /\ lost'[u][m] = lost[u][m] + 1
    BY <1>3, <1>9, SentOnce DEF InOneCopy, Inv, TypeOK
  <2>3. \A v \in Users, n \in Msgs : (v # u \/ n # m) => Stays(v, n)
    BY <1>1, <1>7, <2>1, <2>2 DEF Stays
  <2>4. Settles(u, m)
    BY <1>1, <1>3, <1>6, <1>8, <2>1, <2>2 DEF Settles, Gone
  <2> QED BY <1>5, <2>3, <2>4 DEF AllRouted, Routed
<1>10. CASE /\ user' = [user EXCEPT ![s] = u] /\ msg' = [msg EXCEPT ![s] = m]
            /\ UNCHANGED <<received, lost>>
  <2>1. \A t \in Threads, v \in Users, n \in Msgs :
            Carries(t, v, n)' <=> Carries(t, v, n) \/ (t = s /\ v = u /\ n = m)
    BY <1>1, <1>3, <1>10 DEF Carries
  <2>2. \A v \in Users, n \in Msgs : (v # u \/ n # m) => Stays(v, n)
    BY <1>1, <1>7, <1>10, <2>1 DEF Stays
  <2>3. MovesOn(u, m)
    BY <1>1, <1>3, <1>6, <1>8, <1>10, <2>1 DEF MovesOn, AtMostOne
  <2> QED BY <1>5, <2>2, <2>3 DEF AllRouted, Routed
<1> QED BY <1>3, <1>9, <1>10 DEF Notify

\* A restart loses what the inbox and the threads hold.
LEMMA RestartRouted ==
    ASSUME InOneCopy, OneServer, NEW s \in Servers, Restart(s)
    PROVE  AllRouted
<1> USE ThreadFacts
<1>1. \A t \in Threads : ServerOf(t) = s
  BY DEF Threads, OneServer
<1>2. /\ \A t \in Threads : user'[t] = None /\ msg'[t] = None
      /\ \A r \in Servers : inbox'[r] = <<>>
      /\ UNCHANGED <<offlinemessage, posted, received>>
      /\ \A u \in Users, m \in Msgs :
             lost'[u][m] = lost[u][m] + (IF OnServer(s, u, m) THEN 1 ELSE 0)
  <2>1. user \in [Threads -> Users \cup {None}] /\ msg \in [Threads -> Msgs \cup {None}]
    BY DEF InOneCopy, Inv, TypeOK, ProcessTypes
  <2>2. inbox \in [Servers -> Seq([user : Users, msg : Msgs])]
    BY DEF InOneCopy, Inv, TypeOK, StoreTypes
  <2>3. \A r \in Servers : inbox'[r] = <<>>
    BY <2>2 DEF Restart, OneServer
  <2> QED BY <1>1, <2>1, <2>3 DEF Restart
<1>3. \A u \in Users, m \in Msgs : OnServer(s, u, m) <=> ~ Gone(u, m)
  BY <1>1 DEF OnServer, Gone, OnItsWay, InQueue, OneServer
<1>4. \A u \in Users, m \in Msgs : Gone(u, m)'
  BY <1>2 DEF Gone, OnItsWay, InQueue, Carries
<1>5. \A r \in Servers : Distinct(inbox[r])'
  BY <1>2 DEF Distinct
<1>6. ASSUME NEW u \in Users, NEW m \in Msgs, Gone(u, m)
      PROVE  Stays(u, m)
  <2>1. lost[u][m] \in Nat
    BY DEF InOneCopy, Inv, TypeOK, HistoryTypes
  <2>2. lost'[u][m] = lost[u][m]
    BY <1>2, <1>3, <1>6, <2>1
  <2> QED BY <1>2, <1>4, <1>6, <2>2 DEF Stays, Gone
<1>7. ASSUME NEW u \in Users, NEW m \in Msgs, ~ Gone(u, m)
      PROVE  Settles(u, m)
  <2>1. OneCopy(u, m)
    BY DEF InOneCopy, OneCopyEach
  <2>2. lost'[u][m] = lost[u][m] + 1
    BY <1>2, <1>3, <1>7
  <2> QED BY <1>2, <1>4, <1>7, <2>1, <2>2 DEF Settles, Open, OneCopy
<1> QED BY <1>5, <1>6, <1>7 DEF AllRouted, Routed

\* A thread that routes nothing may change its local user.
LEMMA QuietRouted ==
    ASSUME InOneCopy, NEW t \in Threads, msg[t] = None \/ (user[t] = None /\ todo[t] = {}),
           UNCHANGED <<inbox, offlinemessage, posted, received, lost, todo>>,
           \A r \in Threads \ {t} : user'[r] = user[r] /\ msg'[r] = msg[r],
           msg'[t] = None
    PROVE  AllRouted
<1>1. \A r \in Threads, u \in Users, m \in Msgs : Carries(r, u, m)' <=> Carries(r, u, m)
  BY ThreadFacts DEF Carries
<1> QED BY <1>1, NothingMoves

\* A step that touches no message.
LEMMA StillRouted ==
    ASSUME InOneCopy,
           UNCHANGED <<inbox, offlinemessage, posted, received, lost, user, msg, todo>>
    PROVE  AllRouted
<1>1. \A r \in Threads, u \in Users, m \in Msgs : Carries(r, u, m)' <=> Carries(r, u, m)
  BY DEF Carries
<1> QED BY <1>1, NothingMoves

\* Whatever a thread does, every message has one copy and goes where it may.
LEMMA RoutedStep ==
    ASSUME InOneCopy, OneServer, [Next]_vars
    PROVE  AllRouted
<1> USE DEF Goto, clientVars, localVars, mapVars, dbVars, redisVars, historyVars, boundVars
<1>a. \A t \in Threads : /\ pc[t] \notin UserSteps => user[t] = None
                         /\ pc[t] \notin MsgSteps => msg[t] = None
                         /\ pc[t] \notin GroupSteps \cup {"groupLock"} => todo[t] = {}
  BY DEF InOneCopy, OneCopyEach, LocalsForgotten
<1>b. /\ user \in [Threads -> Users \cup {None}] /\ msg \in [Threads -> Msgs \cup {None}]
      /\ received \in [Users -> [Msgs -> Nat]]
  BY DEF InOneCopy, Inv, TypeOK, ProcessTypes, HistoryTypes
<1>c. \A t \in Threads : pc[t] \in UserSteps => user[t] \in Users
  BY DEF InOneCopy, Inv, LocalsSet
<1>d. \A t \in Threads : pc[t] \in MsgSteps => msg[t] \in Msgs
  BY DEF InOneCopy, Inv, LocalsSet
<1>1. ASSUME NEW c \in Conns, Accept(c)
      PROVE  AllRouted
  BY <1>1, StillRouted DEF Accept
<1>2. ASSUME NEW c \in Conns, Close(c)
      PROVE  AllRouted
  BY <1>2, StillRouted DEF Close, Idle
<1>3. ASSUME NEW c \in Conns, CloseErase(c)
      PROVE  AllRouted
  <2>1. c \in Threads /\ (msg[c] = None \/ (user[c] = None /\ todo[c] = {}))
    BY <1>3, <1>a, ThreadFacts DEF CloseErase, UserSteps, MsgSteps, HoldSteps, GroupSteps, LoginSteps, LeaveSteps
  <2>2. UNCHANGED <<inbox, offlinemessage, posted, received, lost, todo>>
    BY <1>3 DEF CloseErase
  <2>3. (\A r \in Threads \ {c} : user'[r] = user[r] /\ msg'[r] = msg[r]) /\ msg'[c] = None
    BY <1>3, <1>a, <1>b, ThreadFacts DEF CloseErase, UserSteps, MsgSteps, HoldSteps, GroupSteps, LoginSteps, LeaveSteps
  <2> QED BY <2>1, <2>2, <2>3, QuietRouted
<1>4. ASSUME NEW c \in Conns, NEW u \in Users, LoginQuery(c, u)
      PROVE  AllRouted
  <2>1. c \in Threads /\ (msg[c] = None \/ (user[c] = None /\ todo[c] = {}))
    BY <1>4, <1>a, ThreadFacts DEF LoginQuery, Idle, UserSteps, MsgSteps, HoldSteps, GroupSteps, LoginSteps, LeaveSteps
  <2>2. UNCHANGED <<inbox, offlinemessage, posted, received, lost, todo>>
    BY <1>4 DEF LoginQuery, Idle
  <2>3. (\A r \in Threads \ {c} : user'[r] = user[r] /\ msg'[r] = msg[r]) /\ msg'[c] = None
    BY <1>4, <1>a, <1>b, ThreadFacts DEF LoginQuery, Idle, UserSteps, MsgSteps, HoldSteps, GroupSteps, LoginSteps, LeaveSteps
  <2> QED BY <2>1, <2>2, <2>3, QuietRouted
<1>5. ASSUME NEW c \in Conns, LoginInsert(c)
      PROVE  AllRouted
  BY <1>5, StillRouted DEF LoginInsert
<1>6. ASSUME NEW c \in Conns, LoginSubscribe(c)
      PROVE  AllRouted
  BY <1>6, StillRouted DEF LoginSubscribe, WriteCommand
<1>7. ASSUME NEW c \in Conns, LoginSetOnline(c)
      PROVE  AllRouted
  BY <1>7, StillRouted DEF LoginSetOnline
<1>8. ASSUME NEW c \in Conns, LoginAck(c)
      PROVE  AllRouted
  <2>1. user[c] \in Users /\ c \in Threads /\ msg[c] = None
    BY <1>8, <1>a, <1>c, ThreadFacts DEF LoginAck, UserSteps, MsgSteps, HoldSteps, GroupSteps, LoginSteps, LeaveSteps
  <2>2. received' = received
    <3>1. received' = [received EXCEPT ![user[c]] = [m \in Msgs |-> received[user[c]][m] + 0]]
      BY <1>8 DEF LoginAck, OfflineQuery
    <3>2. [m \in Msgs |-> received[user[c]][m] + 0] = received[user[c]]
      BY <1>b, <2>1
    <3> QED BY <1>b, <3>1, <3>2
  <2>3. UNCHANGED <<inbox, offlinemessage, posted, lost, todo>>
    BY <1>8 DEF LoginAck, Forget
  <2>4. (\A r \in Threads \ {c} : user'[r] = user[r] /\ msg'[r] = msg[r]) /\ msg'[c] = None
    BY <1>8, <1>b, <2>1 DEF LoginAck, Forget
  <2> QED BY <2>1, <2>2, <2>3, <2>4, QuietRouted
<1>9. ASSUME NEW c \in Conns, Logout(c)
      PROVE  AllRouted
  <2>1. c \in Threads /\ (msg[c] = None \/ (user[c] = None /\ todo[c] = {}))
    BY <1>9, <1>a, ThreadFacts DEF Logout, Idle, UserSteps, MsgSteps, HoldSteps, GroupSteps, LoginSteps, LeaveSteps
  <2>2. UNCHANGED <<inbox, offlinemessage, posted, received, lost, todo>>
    BY <1>9 DEF Logout, Idle
  <2>3. (\A r \in Threads \ {c} : user'[r] = user[r] /\ msg'[r] = msg[r]) /\ msg'[c] = None
    BY <1>9, <1>a, <1>b, ThreadFacts DEF Logout, Idle, UserSteps, MsgSteps, HoldSteps, GroupSteps, LoginSteps, LeaveSteps
  <2> QED BY <2>1, <2>2, <2>3, QuietRouted
<1>10. ASSUME NEW c \in Conns, Unsubscribe(c)
      PROVE  AllRouted
  BY <1>10, StillRouted DEF Unsubscribe, WriteCommand
<1>11. ASSUME NEW c \in Conns, SetOffline(c)
      PROVE  AllRouted
  <2>1. c \in Threads /\ (msg[c] = None \/ (user[c] = None /\ todo[c] = {}))
    BY <1>11, <1>a, ThreadFacts DEF SetOffline, Forget, UserSteps, MsgSteps, HoldSteps, GroupSteps, LoginSteps, LeaveSteps
  <2>2. UNCHANGED <<inbox, offlinemessage, posted, received, lost, todo>>
    BY <1>11 DEF SetOffline, Forget
  <2>3. (\A r \in Threads \ {c} : user'[r] = user[r] /\ msg'[r] = msg[r]) /\ msg'[c] = None
    BY <1>11, <1>a, <1>b, ThreadFacts DEF SetOffline, Forget, UserSteps, MsgSteps, HoldSteps, GroupSteps, LoginSteps, LeaveSteps
  <2> QED BY <2>1, <2>2, <2>3, QuietRouted
<1>12. ASSUME NEW c \in Conns, NEW u \in Users, NEW m \in Msgs, OneChat(c, u, m)
      PROVE  AllRouted
  BY <1>12, OneChatRouted
<1>13. ASSUME NEW c \in Conns, ChatQuery(c)
      PROVE  AllRouted
  BY <1>13, StillRouted DEF ChatQuery, QueryState
<1>14. ASSUME NEW c \in Conns, ChatPublish(c)
      PROVE  AllRouted
  <2>1. c \in Threads /\ user[c] \in Users /\ msg[c] \in Msgs
    BY <1>14, <1>c, <1>d, ThreadFacts DEF ChatPublish, UserSteps, MsgSteps, HoldSteps, GroupSteps, LoginSteps, LeaveSteps
  <2>2. Releases(c)
    <3>1. todo[c] = {}
      BY <1>14, <1>a, <2>1 DEF ChatPublish, UserSteps, MsgSteps, HoldSteps, GroupSteps, LoginSteps, LeaveSteps
    <3> QED BY <1>14, <2>1, <3>1, Released DEF ChatPublish
  <2>3. Publish(c, "idle")
    BY <1>14 DEF ChatPublish
  <2> QED BY <2>1, <2>2, <2>3, PublishRouted
<1>15. ASSUME NEW c \in Conns, ChatStore(c)
      PROVE  AllRouted
  <2>1. c \in Threads /\ user[c] \in Users /\ msg[c] \in Msgs
    BY <1>15, <1>c, <1>d, ThreadFacts DEF ChatStore, UserSteps, MsgSteps, HoldSteps, GroupSteps, LoginSteps, LeaveSteps
  <2>2. Releases(c)
    <3>1. todo[c] = {}
      BY <1>15, <1>a, <2>1 DEF ChatStore, UserSteps, MsgSteps, HoldSteps, GroupSteps, LoginSteps, LeaveSteps
    <3> QED BY <1>15, <2>1, <3>1, Released DEF ChatStore
  <2>3. Store(c, "idle")
    BY <1>15 DEF ChatStore
  <2> QED BY <2>1, <2>2, <2>3, StoreRouted
<1>16. ASSUME NEW c \in Conns, NEW members \in SUBSET Users, NEW m \in Msgs, GroupQueryUsers(c, members, m)
      PROVE  AllRouted
  BY <1>16, GroupQueryUsersRouted
<1>17. ASSUME NEW c \in Conns, GroupLock(c)
      PROVE  AllRouted
  BY <1>17, StillRouted DEF GroupLock
<1>18. ASSUME NEW c \in Conns, NEW u \in Users, GroupMember(c, u)
      PROVE  AllRouted
  BY <1>18, GroupMemberRouted
<1>19. ASSUME NEW c \in Conns, GroupQuery(c)
      PROVE  AllRouted
  BY <1>19, StillRouted DEF GroupQuery, QueryState
<1>20. ASSUME NEW c \in Conns, GroupPublish(c)
      PROVE  AllRouted
  <2>1. c \in Threads /\ user[c] \in Users /\ msg[c] \in Msgs
    BY <1>20, <1>c, <1>d, ThreadFacts DEF GroupPublish, UserSteps, MsgSteps, HoldSteps, GroupSteps, LoginSteps, LeaveSteps
  <2>2. Releases(c)
    BY <1>20, <2>1, Released DEF GroupPublish
  <2>3. Publish(c, "groupLoop")
    BY <1>20 DEF GroupPublish
  <2> QED BY <2>1, <2>2, <2>3, PublishRouted
<1>21. ASSUME NEW c \in Conns, GroupStore(c)
      PROVE  AllRouted
  <2>1. c \in Threads /\ user[c] \in Users /\ msg[c] \in Msgs
    BY <1>21, <1>c, <1>d, ThreadFacts DEF GroupStore, UserSteps, MsgSteps, HoldSteps, GroupSteps, LoginSteps, LeaveSteps
  <2>2. Releases(c)
    BY <1>21, <2>1, Released DEF GroupStore
  <2>3. Store(c, "groupLoop")
    BY <1>21 DEF GroupStore
  <2> QED BY <2>1, <2>2, <2>3, StoreRouted
<1>22. ASSUME NEW c \in Conns, GroupUnlock(c)
      PROVE  AllRouted
  <2>1. c \in Threads /\ (msg[c] = None \/ (user[c] = None /\ todo[c] = {}))
    BY <1>22, <1>a, ThreadFacts DEF GroupUnlock, Forget, UserSteps, MsgSteps, HoldSteps, GroupSteps, LoginSteps, LeaveSteps
  <2>2. UNCHANGED <<inbox, offlinemessage, posted, received, lost, todo>>
    BY <1>22 DEF GroupUnlock, Forget
  <2>3. (\A r \in Threads \ {c} : user'[r] = user[r] /\ msg'[r] = msg[r]) /\ msg'[c] = None
    BY <1>22, <1>a, <1>b, ThreadFacts DEF GroupUnlock, Forget, UserSteps, MsgSteps, HoldSteps, GroupSteps, LoginSteps, LeaveSteps
  <2> QED BY <2>1, <2>2, <2>3, QuietRouted
<1>23. ASSUME NEW s \in Servers, BrokerExecute(s)
      PROVE  AllRouted
  BY <1>23, StillRouted DEF BrokerExecute
<1>24. ASSUME NEW s \in Servers, Notify(s)
      PROVE  AllRouted
  BY <1>24, NotifyRouted
<1>25. ASSUME NEW s \in Servers, NotifyStore(s)
      PROVE  AllRouted
  <2>1. s \in Threads /\ user[s] \in Users /\ msg[s] \in Msgs
    BY <1>25, <1>c, <1>d, ThreadFacts DEF NotifyStore, UserSteps, MsgSteps, HoldSteps, GroupSteps, LoginSteps, LeaveSteps
  <2>2. Releases(s)
    <3>1. todo[s] = {}
      BY <1>25, <1>a, <2>1 DEF NotifyStore, UserSteps, MsgSteps, HoldSteps, GroupSteps, LoginSteps, LeaveSteps
    <3> QED BY <1>25, <2>1, <3>1, Released DEF NotifyStore
  <2>3. Store(s, "idle")
    BY <1>25 DEF NotifyStore
  <2> QED BY <2>1, <2>2, <2>3, StoreRouted
<1>26. ASSUME NEW s \in Servers, Restart(s)
      PROVE  AllRouted
  BY <1>26, RestartRouted
<1>27. CASE UNCHANGED vars
  BY <1>27, StillRouted DEF vars
<1> QED BY <1>1, <1>2, <1>3, <1>4, <1>5, <1>6, <1>7, <1>8, <1>9, <1>10, <1>11, <1>12, <1>13, <1>14, <1>15, <1>16, <1>17, <1>18, <1>19, <1>20, <1>21, <1>22, <1>23, <1>24, <1>25, <1>26, <1>27 DEF Next, Begin, Continue, Server

-----------------------------------------------------------------------------
\* Nothing was sent at the start.
LEMMA InitOneCopy == Init => InOneCopy
<1> SUFFICES ASSUME Init PROVE OneCopyEach
  BY InitInv DEF InOneCopy
<1> USE DEF Init
<1>1. LocalsForgotten
  BY ThreadFacts DEF LocalsForgotten
<1>2. \A s \in Servers : inbox[s] = <<>>
  OBVIOUS
<1>3. \A s \in Servers : Distinct(inbox[s])
  BY <1>2 DEF Distinct
<1>4. ASSUME NEW u \in Users, NEW m \in Msgs PROVE OneCopy(u, m)
  <2>1. ~ OnItsWay(u, m) /\ \A t \in Threads : ~ Carries(t, u, m)
    BY <1>2, ThreadFacts DEF OnItsWay, InQueue, Carries
  <2>2. Settled(u, m) = 0
    BY DEF Settled
  <2> QED BY <2>1, <2>2 DEF OneCopy, AtMostOne, Gone
<1> QED BY <1>1, <1>3, <1>4 DEF OneCopyEach

\* Every step treats every copy well, and so keeps the invariant.
LEMMA StepOneCopy ==
    ASSUME InOneCopy, OneServer, [Next]_vars
    PROVE  InOneCopy'
<1>1. Inv'
  BY StepInv DEF InOneCopy
<1>2. AllRouted
  BY RoutedStep
<1>3. LocalsForgotten'
  BY ForgottenStep DEF InOneCopy, OneCopyEach
<1>4. ASSUME NEW u \in Users, NEW m \in Msgs PROVE OneCopy(u, m)'
  BY <1>2, RoutedOneCopy DEF InOneCopy, OneCopyEach, Inv, AllRouted
<1> QED BY <1>1, <1>2, <1>3, <1>4 DEF InOneCopy, OneCopyEach, AllRouted

\* With one server process, every message has at most one copy, and none once it
\* was received, stored or lost: the invariant the refinement rests on.
THEOREM OneCopyInvariance ==
    ASSUME \A s, r \in Servers : s = r
    PROVE  Spec => []InOneCopy
<1>1. InOneCopy /\ [Next]_vars => InOneCopy'
  BY StepOneCopy DEF OneServer
<1> QED BY <1>1, InitOneCopy, PTL DEF Spec

\* Nothing has happened to any message at the start.
LEMMA InitPromise == Init => Promise!Init
<1> SUFFICES ASSUME Init PROVE Promise!Init
  OBVIOUS
<1>1. \A u \in Users, m \in Msgs : Fate(u, m) = "none"
  BY DEF Init, Fate
<1>2. \A p \in Users \X Msgs : Fate(p[1], p[2]) = "none"
  BY <1>1
<1> QED BY <1>2 DEF Promise!Init, Promise!Addressed

\* Every message has one of the fates of Delivery.
LEMMA FateTyped ==
    ASSUME TypeOK, NEW u \in Users, NEW m \in Msgs, OneCopy(u, m)
    PROVE  Fate(u, m) \in Promise!Fates
<1>1. Settled(u, m) \in {0, 1}
  BY DEF OneCopy
<1>2. received[u][m] + offlinemessage[u][m] + lost[u][m] = Settled(u, m)
  BY DEF Settled
<1> HIDE DEF OneCopy
<1>3. ~ (Settled(u, m) > 1)
  BY <1>1
<1> QED BY <1>2, <1>3 DEF Fate, Promise!Fates, Promise!Outcomes

\* Every step is one of Delivery's, or changes the fate of no message.
LEMMA StepPromise ==
    ASSUME InOneCopy, OneServer, [Next]_vars
    PROVE  [Promise!Next]_([p \in Users \X Msgs |-> Fate(p[1], p[2])])
<1>1. ASSUME NEW u \in Users, NEW m \in Msgs, Fate(u, m)' # Fate(u, m)
      PROVE  Fate(u, m)' \in Promise!After(Fate(u, m))
  BY <1>1, RoutedStep, RoutedFate DEF InOneCopy, OneCopyEach, Inv, AllRouted
<1>2. ASSUME NEW u \in Users, NEW m \in Msgs
      PROVE  Fate(u, m)' \in Promise!Fates
  <2>1. Fate(u, m) \in Promise!Fates
    BY FateTyped DEF InOneCopy, OneCopyEach, Inv
  <2> QED BY <1>1, <2>1 DEF Promise!After, Promise!Fates, Promise!Outcomes
<1> DEFINE Fate1(p) == Fate(p[1], p[2])
<1>3. \A p \in Users \X Msgs : Fate1(p)' \in Promise!Fates
  BY <1>2
<1>4. \A p \in Users \X Msgs : Fate1(p)' # Fate1(p) => Fate1(p)' \in Promise!After(Fate1(p))
  BY <1>1
<1>5. Promise!Next
  <2> HIDE DEF Fate1
  <2>1. [p \in Users \X Msgs |-> Fate1(p)]' \in [Users \X Msgs -> Promise!Fates]
    BY <1>3
  <2>2. \A p \in Users \X Msgs :
            LET old == [q \in Users \X Msgs |-> Fate1(q)]
                new == [q \in Users \X Msgs |-> Fate1(q)]'
            IN  new[p] # old[p] => new[p] \in Promise!After(old[p])
    BY <1>4
  <2> QED BY <2>1, <2>2 DEF Promise!Next, Promise!Addressed, Fate1
<1> QED BY <1>5

\* One server process implements Delivery, with concurrent logins, failing calls
\* and restarts: for each of those it is addressed to, a message is sent, passed
\* over Redis or stored once, and what became of it is never undone
\* (chatservice.cpp:172-188, 212-243).  Two do not: both may be subscribed to the
\* channel of a user for a while, and each hands the message over.
THEOREM DeliveredOnce ==
    ASSUME \A s, r \in Servers : s = r
    PROVE  Spec => ImplementsDelivery
<1>1. InOneCopy /\ [Next]_vars => [Promise!Next]_([p \in Users \X Msgs |-> Fate(p[1], p[2])])
  BY StepPromise DEF OneServer
<1> QED BY <1>1, InitPromise, OneCopyInvariance, PTL DEF Spec, ImplementsDelivery, Promise!Spec
=============================================================================
