----------------------------- MODULE ContactsProofs ----------------------------
(****************************************************************************)
(* Proofs about Contacts.  The invariant says of each thread that nobody    *)
(* else has its connection (Owned), that the connection it will ask for an  *)
(* id has nothing unread (Clean) and holds the id of its own row (UserIsOwn,*)
(* GroupIsOwn); and of each group that somebody still cares for it, or that *)
(* its creator is entered, or failed to be (GroupsCared).                   *)
(****************************************************************************)
EXTENDS Contacts, TLAPS

\* The type invariant in four parts: the tables of the database,
TablesType ==
    /\ user \in Seq(Requests)
    /\ allgroup \in Seq([request : Requests, userid : Ids])
    /\ friend \in SUBSET (Ids \X Ids)
    /\ groupuser \in SUBSET (Ids \X Ids \X {"creator", "normal"})

\* its connections,
MysqlType ==
    /\ idle \in SUBSET Connections
    /\ held \in [Threads -> Connections \cup {None}]
    /\ insert_id \in [Connections -> Nat]
    /\ unread \in [Connections -> BOOLEAN]

\* the local variables of the threads,
LocalsType ==
    /\ pc \in [Threads -> Selects \cup {"idle", "reg", "addFriend", "createGroup", "creator",
                                        "addGroup", "members"}]
    /\ request \in [Threads -> Requests]
    /\ userid \in [Threads -> Ids] /\ groupid \in [Threads -> Ids]
    /\ todo \in [Threads -> SUBSET Ids]

\* and the requests, their failures and answers.
CountsType ==
    /\ requests \in Requests /\ faults \in 0..MaxFaults
    /\ failed \in SUBSET Requests
    /\ acks \in SUBSET (Requests \X Ids)

\* The type invariant in its four parts.
LEMMA TypeParts == TypeOK <=> TablesType /\ MysqlType /\ LocalsType /\ CountsType
BY DEF TypeOK, TablesType, MysqlType, LocalsType, CountsType

\* A connection is held once, and where the code says.
Owned ==
    /\ \A t \in Threads : held[t] # None =>
          held[t] \notin idle /\ \A u \in Threads : u # t => held[u] # held[t]
    /\ \A t \in Threads :
          /\ pc[t] \in {"idle", "addFriend", "creator", "addGroup"} => held[t] = None
          /\ pc[t] = "members" => held[t] # None

\* What a step of another thread leaves u with.
Kept(u) ==
    /\ pc'[u] = pc[u] /\ held'[u] = held[u]
    /\ request'[u] = request[u] /\ userid'[u] = userid[u] /\ groupid'[u] = groupid[u]
    /\ held[u] # None =>
          insert_id'[held[u]] = insert_id[held[u]] /\ unread'[held[u]] = unread[held[u]]

\* Rows are never changed, and failures not forgotten.
Grows ==
    /\ Len(user') >= Len(user) /\ \A i \in 1..Len(user) : user'[i] = user[i]
    /\ Len(allgroup') >= Len(allgroup) /\ \A i \in 1..Len(allgroup) : allgroup'[i] = allgroup[i]
    /\ groupuser \subseteq groupuser' /\ failed \subseteq failed'

\* Append keeps the type of a sequence.
LEMMA AppendType ==
    ASSUME NEW S, NEW s \in Seq(S), NEW e \in S
    PROVE  Append(s, e) \in Seq(S)
OBVIOUS

\* The connection that is asked for the new id has nothing unread.
Clean == \A t \in Threads : pc[t] \in {"reg", "createGroup"} /\ held[t] # None => ~ unread[held[t]]

\* Between the two calls of reg, the id on the connection is that of its row.
OwnsUser(t) ==
    pc[t] = "reg" /\ held[t] # None =>
        /\ insert_id[held[t]] \in 1..Len(user)
        /\ user[insert_id[held[t]]] = request[t]

\* The ids that a thread has read are those of its own rows.
UserIsOwn == \A t \in Threads : OwnsUser(t)

\* t is between the two statements of createGroup, with group g.
Creates(t, g) ==
    \/ pc[t] = "createGroup" /\ held[t] # None /\ insert_id[held[t]] = g
    \/ pc[t] = "creator" /\ groupid[t] = g

\* So it is in createGroup, where the id then becomes that of the group.
OwnsGroup(t) ==
    (pc[t] = "createGroup" /\ held[t] # None) \/ pc[t] = "creator" =>
        \E g \in 1..Len(allgroup) :
            Creates(t, g) /\ allgroup[g] = [request |-> request[t], userid |-> userid[t]]

GroupIsOwn == \A t \in Threads : OwnsGroup(t)

\* A connection from the queue is nobody else's.
LEMMA LendOwned ==
    ASSUME MysqlType, LocalsType, Owned, NEW t \in Threads, NEW c \in idle, Lend(t, c),
           UNCHANGED pc, pc[t] \in {"reg", "createGroup"} \cup Selects
    PROVE  Owned'
<1> USE ContactsAssumption DEF MysqlType, LocalsType
<1>1. c \in Connections /\ c # None
  OBVIOUS
<1>2. held'[t] = c /\ \A u \in Threads : u # t => held'[u] = held[u] /\ held[u] # c
  BY <1>1 DEF Lend, Owned
<1> QED BY <1>1, <1>2 DEF Owned, Lend, Selects

\* A failing statement keeps the types of the counters.
LEMMA FailsCounts ==
    ASSUME CountsType, LocalsType, NEW t \in Threads, NEW where, Fails(t, where), UNCHANGED <<requests, acks>>
    PROVE  CountsType'
<1>1. faults' \in 0..MaxFaults
  BY ContactsAssumption DEF CountsType, Fails
<1>2. failed' \in SUBSET Requests
  BY DEF CountsType, LocalsType, Fails
<1>3. requests' \in Requests /\ acks' \in SUBSET (Requests \X Ids)
  BY DEF CountsType
<1> QED BY <1>1, <1>2, <1>3 DEF CountsType

\* Every step keeps connections to their borrowers.
LEMMA OwnedStep ==
    ASSUME MysqlType, LocalsType, Owned, [Next]_vars
    PROVE  Owned'
<1> USE ContactsAssumption DEF MysqlType, LocalsType, Owned, tables, mysqlVars, locals, counts, Goto
<1>1. ASSUME NEW t \in Threads, Request(t) PROVE Owned'
  BY <1>1 DEF Request, Begin
<1>2. ASSUME NEW t \in Threads, InsertUser(t) PROVE Owned'
  <2>1. CASE UNCHANGED <<idle, held>>
    BY <1>2, <2>1 DEF InsertUser, Fails
  <2>2. CASE \E c \in idle : Lend(t, c) /\ UNCHANGED pc
    BY <1>2, <2>2, LendOwned DEF InsertUser
  <2> QED BY <1>2, <2>1, <2>2 DEF InsertUser
<1>3. ASSUME NEW t \in Threads, RegAck(t) PROVE Owned'
  BY <1>3 DEF RegAck, GiveBack
<1>4. ASSUME NEW t \in Threads, InsertFriend(t) PROVE Owned'
  BY <1>4 DEF InsertFriend, InsertAndReturn, Fails
<1>5. ASSUME NEW t \in Threads, InsertGroup(t) PROVE Owned'
  <2>1. CASE UNCHANGED <<idle, held>>
    BY <1>5, <2>1 DEF InsertGroup, Fails
  <2>2. CASE \E c \in idle : Lend(t, c) /\ UNCHANGED pc
    BY <1>5, <2>2, LendOwned DEF InsertGroup
  <2> QED BY <1>5, <2>1, <2>2 DEF InsertGroup
<1>6. ASSUME NEW t \in Threads, GroupId(t) PROVE Owned'
  BY <1>6 DEF GroupId, GiveBack
<1>7. ASSUME NEW t \in Threads, InsertGroupUser(t) PROVE Owned'
  BY <1>7 DEF InsertGroupUser, InsertAndReturn, Fails
<1>8. ASSUME NEW t \in Threads, Query(t) PROVE Owned'
  BY <1>8 DEF Query, Lend, Fails, AfterNothing, Selects
<1>9. ASSUME NEW t \in Threads, FetchUser(t) PROVE Owned'
  BY <1>9 DEF FetchUser, ReadAll, GiveBack
<1>10. ASSUME NEW t \in Threads, FetchFriends(t) PROVE Owned'
  BY <1>10 DEF FetchFriends, ReadAll, GiveBack
<1>11. ASSUME NEW t \in Threads, FetchGroups(t) PROVE Owned'
  BY <1>11 DEF FetchGroups, ReadAll, GiveBack, GroupsOf
<1>12. ASSUME NEW t \in Threads, QueryMembers(t) PROVE Owned'
  BY <1>12 DEF QueryMembers, NextGroup, GiveBack
<1>13. ASSUME NEW t \in Threads, FetchMembers(t) PROVE Owned'
  BY <1>13 DEF FetchMembers, ReadAll, NextGroup, GiveBack
<1>14. ASSUME NEW t \in Threads, FetchRecipients(t) PROVE Owned'
  BY <1>14 DEF FetchRecipients, ReadAll, GiveBack
<1>15. CASE UNCHANGED vars
  BY <1>15 DEF vars
<1> QED BY <1>1, <1>2, <1>3, <1>4, <1>5, <1>6, <1>7, <1>8, <1>9, <1>10, <1>11, <1>12, <1>13, <1>14, <1>15 DEF Next, Works

\* Every step only adds.
LEMMA GrowsStep ==
    ASSUME TablesType, [Next]_vars
    PROVE  Grows
<1> USE ContactsAssumption DEF TablesType, Grows, tables, mysqlVars, locals, counts, Goto
<1>1. ASSUME NEW t \in Threads, Request(t) PROVE Grows
  BY <1>1 DEF Request, Begin
<1>2. ASSUME NEW t \in Threads, InsertUser(t) PROVE Grows
  BY <1>2 DEF InsertUser, Lend, Fails
<1>3. ASSUME NEW t \in Threads, RegAck(t) PROVE Grows
  BY <1>3 DEF RegAck, GiveBack
<1>4. ASSUME NEW t \in Threads, InsertFriend(t) PROVE Grows
  BY <1>4 DEF InsertFriend, InsertAndReturn, Fails
<1>5. ASSUME NEW t \in Threads, InsertGroup(t) PROVE Grows
  <2>1. CASE UNCHANGED allgroup
    BY <1>5, <2>1 DEF InsertGroup, Lend, Fails
  <2>2. CASE \E row : allgroup' = Append(allgroup, row)
    BY <1>5, <2>2 DEF InsertGroup
  <2> QED BY <1>5, <2>1, <2>2 DEF InsertGroup
<1>6. ASSUME NEW t \in Threads, GroupId(t) PROVE Grows
  BY <1>6 DEF GroupId, GiveBack
<1>7. ASSUME NEW t \in Threads, InsertGroupUser(t) PROVE Grows
  BY <1>7 DEF InsertGroupUser, InsertAndReturn, Fails
<1>8. ASSUME NEW t \in Threads, Query(t) PROVE Grows
  BY <1>8 DEF Query, Lend, Fails, AfterNothing, Selects
<1>9. ASSUME NEW t \in Threads, FetchUser(t) PROVE Grows
  BY <1>9 DEF FetchUser, ReadAll, GiveBack
<1>10. ASSUME NEW t \in Threads, FetchFriends(t) PROVE Grows
  BY <1>10 DEF FetchFriends, ReadAll, GiveBack
<1>11. ASSUME NEW t \in Threads, FetchGroups(t) PROVE Grows
  BY <1>11 DEF FetchGroups, ReadAll, GiveBack, GroupsOf
<1>12. ASSUME NEW t \in Threads, QueryMembers(t) PROVE Grows
  BY <1>12 DEF QueryMembers, NextGroup, GiveBack
<1>13. ASSUME NEW t \in Threads, FetchMembers(t) PROVE Grows
  BY <1>13 DEF FetchMembers, ReadAll, NextGroup, GiveBack
<1>14. ASSUME NEW t \in Threads, FetchRecipients(t) PROVE Grows
  BY <1>14 DEF FetchRecipients, ReadAll, GiveBack
<1>15. CASE UNCHANGED vars
  BY <1>15 DEF vars
<1> QED BY <1>1, <1>2, <1>3, <1>4, <1>5, <1>6, <1>7, <1>8, <1>9, <1>10, <1>11, <1>12, <1>13, <1>14, <1>15 DEF Next, Works

\* Every step keeps the types of the tables,
LEMMA TablesStep ==
    ASSUME TablesType, LocalsType, [Next]_vars
    PROVE  TablesType'
<1> USE ContactsAssumption DEF TablesType, LocalsType, tables, mysqlVars, locals, counts, Goto
<1>1. ASSUME NEW t \in Threads, Request(t) PROVE TablesType'
  BY <1>1 DEF Request, Begin
<1>2. ASSUME NEW t \in Threads, InsertUser(t) PROVE TablesType'
  <2>1. UNCHANGED user \/ user' = Append(user, request[t])
    BY <1>2 DEF InsertUser
  <2>2. user' \in Seq(Requests)
    BY <2>1, AppendType
  <2> QED BY <1>2, <2>2 DEF InsertUser
<1>3. ASSUME NEW t \in Threads, RegAck(t) PROVE TablesType'
  BY <1>3 DEF RegAck, GiveBack
<1>4. ASSUME NEW t \in Threads, InsertFriend(t) PROVE TablesType'
  <2>1. friend' \in SUBSET (Ids \X Ids)
    <3>1. CASE UNCHANGED friend
      BY <3>1
    <3>2. ASSUME NEW f \in 1..Len(user), friend' = friend \cup {<<userid[t], f>>} PROVE friend' \in SUBSET (Ids \X Ids)
      BY <3>2 DEF Ids
    <3> QED BY <1>4, <3>1, <3>2 DEF InsertFriend
  <2> QED BY <1>4, <2>1 DEF InsertFriend
<1>5. ASSUME NEW t \in Threads, InsertGroup(t) PROVE TablesType'
  <2>1. UNCHANGED allgroup \/ allgroup' = Append(allgroup, [request |-> request[t], userid |-> userid[t]])
    BY <1>5 DEF InsertGroup
  <2>2. allgroup' \in Seq([request : Requests, userid : Ids])
    <3>1. [request |-> request[t], userid |-> userid[t]] \in [request : Requests, userid : Ids]
      OBVIOUS
    <3>2. CASE UNCHANGED allgroup
      BY <3>2
    <3>3. CASE allgroup' = Append(allgroup, [request |-> request[t], userid |-> userid[t]])
      BY <3>1, <3>3, AppendType, Zenon
    <3> QED BY <2>1, <3>2, <3>3
  <2> QED BY <1>5, <2>2 DEF InsertGroup
<1>6. ASSUME NEW t \in Threads, GroupId(t) PROVE TablesType'
  BY <1>6 DEF GroupId, GiveBack
<1>7. ASSUME NEW t \in Threads, InsertGroupUser(t) PROVE TablesType'
  BY <1>7 DEF InsertGroupUser, InsertAndReturn, Fails
<1>8. ASSUME NEW t \in Threads, Query(t) PROVE TablesType'
  BY <1>8 DEF Query, Lend, Fails, AfterNothing, Selects
<1>9. ASSUME NEW t \in Threads, FetchUser(t) PROVE TablesType'
  BY <1>9 DEF FetchUser, ReadAll, GiveBack
<1>10. ASSUME NEW t \in Threads, FetchFriends(t) PROVE TablesType'
  BY <1>10 DEF FetchFriends, ReadAll, GiveBack
<1>11. ASSUME NEW t \in Threads, FetchGroups(t) PROVE TablesType'
  BY <1>11 DEF FetchGroups, ReadAll, GiveBack, GroupsOf
<1>12. ASSUME NEW t \in Threads, QueryMembers(t) PROVE TablesType'
  BY <1>12 DEF QueryMembers, NextGroup, GiveBack
<1>13. ASSUME NEW t \in Threads, FetchMembers(t) PROVE TablesType'
  BY <1>13 DEF FetchMembers, ReadAll, NextGroup, GiveBack
<1>14. ASSUME NEW t \in Threads, FetchRecipients(t) PROVE TablesType'
  BY <1>14 DEF FetchRecipients, ReadAll, GiveBack
<1>15. CASE UNCHANGED vars
  BY <1>15 DEF vars
<1> QED BY <1>1, <1>2, <1>3, <1>4, <1>5, <1>6, <1>7, <1>8, <1>9, <1>10, <1>11, <1>12, <1>13, <1>14, <1>15 DEF Next, Works

\* of the connections,
LEMMA MysqlStep ==
    ASSUME MysqlType, TablesType, LocalsType, Owned, [Next]_vars
    PROVE  MysqlType'
<1> USE ContactsAssumption DEF MysqlType, LocalsType, TablesType, tables, mysqlVars, locals, counts, Goto
<1>1. ASSUME NEW t \in Threads, Request(t) PROVE MysqlType'
  BY <1>1 DEF Request, Begin
<1>2. ASSUME NEW t \in Threads, InsertUser(t) PROVE MysqlType'
  <2>1. CASE UNCHANGED mysqlVars
    BY <2>1
  <2>2. ASSUME NEW c \in idle, Lend(t, c), insert_id' = [insert_id EXCEPT ![c] = Len(user) + 1] PROVE MysqlType'
    <3>1. idle' \in SUBSET Connections /\ held' \in [Threads -> Connections \cup {None}]
      BY <2>2 DEF Lend
    <3> QED BY <2>2, <3>1, <1>2 DEF InsertUser
  <2> QED BY <1>2, <2>1, <2>2 DEF InsertUser
<1>3. ASSUME NEW t \in Threads, RegAck(t) PROVE MysqlType'
  BY <1>3 DEF RegAck, GiveBack
<1>4. ASSUME NEW t \in Threads, InsertFriend(t) PROVE MysqlType'
  BY <1>4 DEF InsertFriend, InsertAndReturn, Fails
<1>5. ASSUME NEW t \in Threads, InsertGroup(t) PROVE MysqlType'
  <2>1. CASE UNCHANGED mysqlVars
    BY <2>1
  <2>2. ASSUME NEW c \in idle, Lend(t, c), insert_id' = [insert_id EXCEPT ![c] = Len(allgroup) + 1] PROVE MysqlType'
    <3>1. idle' \in SUBSET Connections /\ held' \in [Threads -> Connections \cup {None}]
      BY <2>2 DEF Lend
    <3> QED BY <2>2, <3>1, <1>5 DEF InsertGroup
  <2> QED BY <1>5, <2>1, <2>2 DEF InsertGroup
<1>6. ASSUME NEW t \in Threads, GroupId(t) PROVE MysqlType'
  BY <1>6 DEF GroupId, GiveBack
<1>7. ASSUME NEW t \in Threads, InsertGroupUser(t) PROVE MysqlType'
  <2>1. CASE UNCHANGED mysqlVars
    BY <2>1
  <2>2. ASSUME NEW where, InsertAndReturn(t, where) PROVE MysqlType'
    BY <2>2 DEF InsertAndReturn
  <2> QED BY <1>7, <2>1, <2>2 DEF InsertGroupUser
<1>8. ASSUME NEW t \in Threads, Query(t) PROVE MysqlType'
  <2>1. CASE UNCHANGED mysqlVars
    BY <2>1
  <2>2. ASSUME NEW c \in idle, Lend(t, c), unread' = [unread EXCEPT ![c] = TRUE] PROVE MysqlType'
    <3>1. idle' \in SUBSET Connections /\ held' \in [Threads -> Connections \cup {None}]
      BY <2>2 DEF Lend
    <3> QED BY <2>2, <3>1, <1>8 DEF Query
  <2> QED BY <1>8, <2>1, <2>2 DEF Query
<1>9. ASSUME NEW t \in Threads, FetchUser(t) PROVE MysqlType'
  BY <1>9 DEF FetchUser, ReadAll, GiveBack
<1>10. ASSUME NEW t \in Threads, FetchFriends(t) PROVE MysqlType'
  BY <1>10 DEF FetchFriends, ReadAll, GiveBack
<1>11. ASSUME NEW t \in Threads, FetchGroups(t) PROVE MysqlType'
  BY <1>11 DEF FetchGroups, ReadAll, GiveBack, GroupsOf
<1>12. ASSUME NEW t \in Threads, QueryMembers(t) PROVE MysqlType'
  <2>1. held[t] \in Connections
    BY <1>12 DEF QueryMembers, Owned
  <2>2. unread' \in [Connections -> BOOLEAN] /\ UNCHANGED insert_id
    BY <1>12 DEF QueryMembers
  <2>3. UNCHANGED <<idle, held>> \/ GiveBack(t)
    BY <1>12 DEF QueryMembers, NextGroup
  <2> QED BY <2>1, <2>2, <2>3 DEF GiveBack
<1>13. ASSUME NEW t \in Threads, FetchMembers(t) PROVE MysqlType'
  <2>1. held[t] \in Connections
    BY <1>13 DEF FetchMembers, Owned
  <2>2. unread' \in [Connections -> BOOLEAN] /\ UNCHANGED insert_id
    BY <1>13 DEF FetchMembers, ReadAll
  <2>3. UNCHANGED <<idle, held>> \/ GiveBack(t)
    BY <1>13 DEF FetchMembers, NextGroup
  <2> QED BY <2>1, <2>2, <2>3 DEF GiveBack
<1>14. ASSUME NEW t \in Threads, FetchRecipients(t) PROVE MysqlType'
  BY <1>14 DEF FetchRecipients, ReadAll, GiveBack
<1>15. CASE UNCHANGED vars
  BY <1>15 DEF vars
<1> QED BY <1>1, <1>2, <1>3, <1>4, <1>5, <1>6, <1>7, <1>8, <1>9, <1>10, <1>11, <1>12, <1>13, <1>14, <1>15 DEF Next, Works

\* of the counters and histories,
LEMMA CountsStep ==
    ASSUME MysqlType, TablesType, LocalsType, CountsType, UserIsOwn, [Next]_vars
    PROVE  CountsType'
<1> USE ContactsAssumption DEF LocalsType, CountsType, tables, mysqlVars, locals, counts, Goto
<1>1. ASSUME NEW t \in Threads, Request(t) PROVE CountsType'
  <2>1. requests' \in Requests
    BY <1>1 DEF Request, Begin, Requests
  <2> QED BY <1>1, <2>1 DEF Request, Begin
<1>2. ASSUME NEW t \in Threads, InsertUser(t) PROVE CountsType'
  <2>1. CASE UNCHANGED counts
    BY <2>1
  <2>2. ASSUME NEW where, Fails(t, where), UNCHANGED <<requests, acks>> PROVE CountsType'
    BY <2>2, FailsCounts
  <2> QED BY <1>2, <2>1, <2>2 DEF InsertUser
<1>3. ASSUME NEW t \in Threads, RegAck(t) PROVE CountsType'
  <2>1. insert_id[held[t]] \in Ids
    BY <1>3 DEF RegAck, UserIsOwn, OwnsUser, Ids
  <2>2. acks' \in SUBSET (Requests \X Ids)
    BY <1>3, <2>1 DEF RegAck
  <2> QED BY <1>3, <2>2 DEF RegAck
<1>4. ASSUME NEW t \in Threads, InsertFriend(t) PROVE CountsType'
  <2>1. CASE UNCHANGED counts
    BY <2>1
  <2>2. ASSUME NEW where, Fails(t, where), UNCHANGED <<requests, acks>> PROVE CountsType'
    BY <2>2, FailsCounts
  <2> QED BY <1>4, <2>1, <2>2 DEF InsertFriend, InsertAndReturn
<1>5. ASSUME NEW t \in Threads, InsertGroup(t) PROVE CountsType'
  <2>1. CASE UNCHANGED counts
    BY <2>1
  <2>2. ASSUME NEW where, Fails(t, where), UNCHANGED <<requests, acks>> PROVE CountsType'
    BY <2>2, FailsCounts
  <2> QED BY <1>5, <2>1, <2>2 DEF InsertGroup
<1>6. ASSUME NEW t \in Threads, GroupId(t) PROVE CountsType'
  BY <1>6 DEF GroupId, GiveBack
<1>7. ASSUME NEW t \in Threads, InsertGroupUser(t) PROVE CountsType'
  <2>1. CASE UNCHANGED counts
    BY <2>1
  <2>2. ASSUME NEW where, Fails(t, where), UNCHANGED <<requests, acks>> PROVE CountsType'
    BY <2>2, FailsCounts
  <2> QED BY <1>7, <2>1, <2>2 DEF InsertGroupUser, InsertAndReturn
<1>8. ASSUME NEW t \in Threads, Query(t) PROVE CountsType'
  <2>1. CASE UNCHANGED counts
    BY <2>1
  <2>2. ASSUME NEW where, Fails(t, where), UNCHANGED <<requests, acks>> PROVE CountsType'
    BY <2>2, FailsCounts
  <2> QED BY <1>8, <2>1, <2>2 DEF Query
<1>9. ASSUME NEW t \in Threads, FetchUser(t) PROVE CountsType'
  BY <1>9 DEF FetchUser, ReadAll, GiveBack
<1>10. ASSUME NEW t \in Threads, FetchFriends(t) PROVE CountsType'
  BY <1>10 DEF FetchFriends, ReadAll, GiveBack
<1>11. ASSUME NEW t \in Threads, FetchGroups(t) PROVE CountsType'
  BY <1>11 DEF FetchGroups, ReadAll, GiveBack, GroupsOf
<1>12. ASSUME NEW t \in Threads, QueryMembers(t) PROVE CountsType'
  <2>1. faults' \in 0..MaxFaults
    BY <1>12 DEF QueryMembers
  <2>2. failed' \in SUBSET Requests
    BY <1>12 DEF QueryMembers
  <2> QED BY <1>12, <2>1, <2>2 DEF QueryMembers
<1>13. ASSUME NEW t \in Threads, FetchMembers(t) PROVE CountsType'
  BY <1>13 DEF FetchMembers, ReadAll, NextGroup, GiveBack
<1>14. ASSUME NEW t \in Threads, FetchRecipients(t) PROVE CountsType'
  BY <1>14 DEF FetchRecipients, ReadAll, GiveBack
<1>15. CASE UNCHANGED vars
  BY <1>15 DEF vars
<1> QED BY <1>1, <1>2, <1>3, <1>4, <1>5, <1>6, <1>7, <1>8, <1>9, <1>10, <1>11, <1>12, <1>13, <1>14, <1>15 DEF Next, Works

\* and of the handlers' locals.
LEMMA LocalsStep ==
    ASSUME MysqlType, TablesType, LocalsType, CountsType, GroupIsOwn, [Next]_vars
    PROVE  LocalsType'
<1> USE ContactsAssumption DEF LocalsType, TablesType, tables, mysqlVars, locals, counts, Goto
<1>1. ASSUME NEW t \in Threads, Request(t) PROVE LocalsType'
  <2> SUFFICES ASSUME NEW where \in {"reg", "addFriend", "createGroup", "addGroup", "user", "recipients"},
                      Begin(t, where)
               PROVE  LocalsType'
    BY <1>1 DEF Request
  <2>1. request' \in [Threads -> Requests]
    BY DEF Begin, Requests, CountsType
  <2>2. userid' \in [Threads -> Ids] /\ groupid' \in [Threads -> Ids]
    BY DEF Begin, Ids, TablesType
  <2>3. pc' \in [Threads -> Selects \cup {"idle", "reg", "addFriend", "createGroup", "creator", "addGroup", "members"}] /\ UNCHANGED todo
    BY DEF Begin, Selects
  <2> QED BY <2>1, <2>2, <2>3
<1>2. ASSUME NEW t \in Threads, InsertUser(t) PROVE LocalsType'
  BY <1>2 DEF InsertUser, Lend, Fails
<1>3. ASSUME NEW t \in Threads, RegAck(t) PROVE LocalsType'
  BY <1>3 DEF RegAck, GiveBack
<1>4. ASSUME NEW t \in Threads, InsertFriend(t) PROVE LocalsType'
  BY <1>4 DEF InsertFriend, InsertAndReturn, Fails
<1>5. ASSUME NEW t \in Threads, InsertGroup(t) PROVE LocalsType'
  BY <1>5 DEF InsertGroup, Lend, Fails
<1>6. ASSUME NEW t \in Threads, GroupId(t) PROVE LocalsType'
  <2>1. PICK g \in 1..Len(allgroup) : insert_id[held[t]] = g
    BY <1>6 DEF GroupId, GroupIsOwn, OwnsGroup, Creates
  <2>2. groupid' \in [Threads -> Ids]
    BY <1>6, <2>1 DEF GroupId, Ids
  <2> QED BY <1>6, <2>2 DEF GroupId
<1>7. ASSUME NEW t \in Threads, InsertGroupUser(t) PROVE LocalsType'
  BY <1>7 DEF InsertGroupUser, InsertAndReturn, Fails
<1>8. ASSUME NEW t \in Threads, Query(t) PROVE LocalsType'
  <2>1. AfterNothing[pc[t]] \in {"idle", "groups"}
    BY <1>8 DEF Query, Selects, AfterNothing
  <2>2. UNCHANGED pc \/ pc' = [pc EXCEPT ![t] = AfterNothing[pc[t]]]
    BY <1>8 DEF Query, Fails
  <2>3. "groups" \in Selects
    BY DEF Selects
  <2> QED BY <1>8, <2>1, <2>2, <2>3 DEF Query
<1>9. ASSUME NEW t \in Threads, FetchUser(t) PROVE LocalsType'
  <2>1. pc' \in [Threads -> Selects \cup {"idle", "reg", "addFriend", "createGroup", "creator", "addGroup", "members"}]
    BY <1>9 DEF FetchUser, Selects
  <2>2. UNCHANGED locals
    BY <1>9 DEF FetchUser
  <2> QED BY <2>1, <2>2
<1>10. ASSUME NEW t \in Threads, FetchFriends(t) PROVE LocalsType'
  <2>1. pc' \in [Threads -> Selects \cup {"idle", "reg", "addFriend", "createGroup", "creator", "addGroup", "members"}]
    BY <1>10 DEF FetchFriends, Selects
  <2>2. UNCHANGED locals
    BY <1>10 DEF FetchFriends
  <2> QED BY <2>1, <2>2
<1>11. ASSUME NEW t \in Threads, FetchGroups(t) PROVE LocalsType'
  <2>1. GroupsOf(userid[t]) \subseteq Ids
    BY DEF GroupsOf
  <2>2. todo' \in [Threads -> SUBSET Ids]
    BY <1>11, <2>1 DEF FetchGroups
  <2> QED BY <1>11, <2>2 DEF FetchGroups
<1>12. ASSUME NEW t \in Threads, QueryMembers(t) PROVE LocalsType'
  <2>1. (todo' \in [Threads -> SUBSET Ids]) /\ pc' \in [Threads -> Selects \cup {"idle", "reg", "addFriend", "createGroup", "creator", "addGroup", "members"}]
    BY <1>12 DEF QueryMembers, NextGroup
  <2>2. UNCHANGED <<request, userid, groupid>>
    BY <1>12 DEF QueryMembers
  <2> QED BY <2>1, <2>2
<1>13. ASSUME NEW t \in Threads, FetchMembers(t) PROVE LocalsType'
  <2>1. (todo' \in [Threads -> SUBSET Ids]) /\ pc' \in [Threads -> Selects \cup {"idle", "reg", "addFriend", "createGroup", "creator", "addGroup", "members"}]
    BY <1>13 DEF FetchMembers, NextGroup
  <2>2. UNCHANGED <<request, userid, groupid>>
    BY <1>13 DEF FetchMembers
  <2> QED BY <2>1, <2>2
<1>14. ASSUME NEW t \in Threads, FetchRecipients(t) PROVE LocalsType'
  BY <1>14 DEF FetchRecipients, ReadAll, GiveBack
<1>15. CASE UNCHANGED vars
  BY <1>15 DEF vars
<1> QED BY <1>1, <1>2, <1>3, <1>4, <1>5, <1>6, <1>7, <1>8, <1>9, <1>10, <1>11, <1>12, <1>13, <1>14, <1>15 DEF Next, Works

\* A step of one thread leaves the others with what they had.
LEMMA KeptStep ==
    ASSUME MysqlType, LocalsType, Owned, NEW t \in Threads, Request(t) \/ Works(t)
    PROVE  \A u \in Threads \ {t} : Kept(u)
<1> USE ContactsAssumption DEF MysqlType, LocalsType, Owned, Kept, tables, mysqlVars, locals, counts, Goto
<1>1. CASE Request(t)
  BY <1>1 DEF Request, Begin
<1>2. CASE InsertUser(t)
  BY <1>2 DEF InsertUser, Lend, Fails
<1>3. CASE RegAck(t)
  BY <1>3 DEF RegAck, GiveBack
<1>4. CASE InsertFriend(t)
  BY <1>4 DEF InsertFriend, InsertAndReturn, Fails
<1>5. CASE InsertGroup(t)
  BY <1>5 DEF InsertGroup, Lend, Fails
<1>6. CASE GroupId(t)
  BY <1>6 DEF GroupId, GiveBack
<1>7. CASE InsertGroupUser(t)
  BY <1>7 DEF InsertGroupUser, InsertAndReturn, Fails
<1>8. CASE Query(t)
  BY <1>8 DEF Query, Lend, Fails, AfterNothing, Selects
<1>9. CASE FetchUser(t)
  BY <1>9 DEF FetchUser, ReadAll, GiveBack
<1>10. CASE FetchFriends(t)
  BY <1>10 DEF FetchFriends, ReadAll, GiveBack
<1>11. CASE FetchGroups(t)
  BY <1>11 DEF FetchGroups, ReadAll, GiveBack, GroupsOf
<1>12. CASE QueryMembers(t)
  BY <1>12 DEF QueryMembers, NextGroup, GiveBack
<1>13. CASE FetchMembers(t)
  BY <1>13 DEF FetchMembers, ReadAll, NextGroup, GiveBack
<1>14. CASE FetchRecipients(t)
  BY <1>14 DEF FetchRecipients, ReadAll, GiveBack
<1> QED BY <1>1, <1>2, <1>3, <1>4, <1>5, <1>6, <1>7, <1>8, <1>9, <1>10, <1>11, <1>12, <1>13, <1>14 DEF Works

\* Every step keeps unread rows away from the queue and from who asks for an id.
LEMMA CleanStep ==
    ASSUME MysqlType, LocalsType, Owned, Clean, InSync, [Next]_vars
    PROVE  (Clean /\ InSync)'
<1> USE ContactsAssumption DEF MysqlType, LocalsType, Owned, Clean, InSync, tables, mysqlVars, locals, counts, Goto
<1>1. ASSUME NEW t \in Threads, Request(t) PROVE (Clean /\ InSync)'
  BY <1>1 DEF Request, Begin
<1>2. ASSUME NEW t \in Threads, InsertUser(t) PROVE (Clean /\ InSync)'
  BY <1>2 DEF InsertUser, Lend, Fails
<1>3. ASSUME NEW t \in Threads, RegAck(t) PROVE (Clean /\ InSync)'
  BY <1>3 DEF RegAck, GiveBack
<1>4. ASSUME NEW t \in Threads, InsertFriend(t) PROVE (Clean /\ InSync)'
  BY <1>4 DEF InsertFriend, InsertAndReturn, Fails
<1>5. ASSUME NEW t \in Threads, InsertGroup(t) PROVE (Clean /\ InSync)'
  BY <1>5 DEF InsertGroup, Lend, Fails
<1>6. ASSUME NEW t \in Threads, GroupId(t) PROVE (Clean /\ InSync)'
  BY <1>6 DEF GroupId, GiveBack
<1>7. ASSUME NEW t \in Threads, InsertGroupUser(t) PROVE (Clean /\ InSync)'
  BY <1>7 DEF InsertGroupUser, InsertAndReturn, Fails
<1>8. ASSUME NEW t \in Threads, Query(t) PROVE (Clean /\ InSync)'
  BY <1>8 DEF Query, Lend, Fails, AfterNothing, Selects
<1>9. ASSUME NEW t \in Threads, FetchUser(t) PROVE (Clean /\ InSync)'
  BY <1>9 DEF FetchUser, ReadAll, GiveBack
<1>10. ASSUME NEW t \in Threads, FetchFriends(t) PROVE (Clean /\ InSync)'
  BY <1>10 DEF FetchFriends, ReadAll, GiveBack
<1>11. ASSUME NEW t \in Threads, FetchGroups(t) PROVE (Clean /\ InSync)'
  BY <1>11 DEF FetchGroups, ReadAll, GiveBack, GroupsOf
<1>12. ASSUME NEW t \in Threads, QueryMembers(t) PROVE (Clean /\ InSync)'
  BY <1>12 DEF QueryMembers, NextGroup, GiveBack
<1>13. ASSUME NEW t \in Threads, FetchMembers(t) PROVE (Clean /\ InSync)'
  BY <1>13 DEF FetchMembers, ReadAll, NextGroup, GiveBack
<1>14. ASSUME NEW t \in Threads, FetchRecipients(t) PROVE (Clean /\ InSync)'
  BY <1>14 DEF FetchRecipients, ReadAll, GiveBack
<1>15. CASE UNCHANGED vars
  BY <1>15 DEF vars
<1> QED BY <1>1, <1>2, <1>3, <1>4, <1>5, <1>6, <1>7, <1>8, <1>9, <1>10, <1>11, <1>12, <1>13, <1>14, <1>15 DEF Next, Works

\* What a thread knows of its row, its group or its work survives the step of
\* another.
LEMMA OtherUser ==
    ASSUME MysqlType, LocalsType, TablesType, Grows, NEW u \in Threads, Kept(u), OwnsUser(u)
    PROVE  OwnsUser(u)'
BY DEF TablesType, Grows, Kept, OwnsUser

\* What a thread owns it still owns after a step of another,
LEMMA OtherGroup ==
    ASSUME MysqlType, LocalsType, TablesType, Grows, NEW u \in Threads, Kept(u), OwnsGroup(u)
    PROVE  OwnsGroup(u)'
BY DEF TablesType, Grows, Kept, OwnsGroup, Creates

\* and what it is about to enter it still enters.
LEMMA OtherCreates ==
    ASSUME MysqlType, LocalsType, NEW u \in Threads, NEW g, Kept(u), Creates(u, g)
    PROVE  Creates(u, g)'
BY DEF Kept, Creates

\* A thread's own steps: its row,
LEMMA MyUser ==
    ASSUME MysqlType, LocalsType, TablesType, Owned, UserIsOwn, GroupIsOwn, NEW t \in Threads, Request(t) \/ Works(t)
    PROVE  OwnsUser(t)'
<1> USE ContactsAssumption DEF MysqlType, LocalsType, TablesType, OwnsUser, UserIsOwn, Owned, tables, mysqlVars, locals, counts, Goto
<1>1. CASE Request(t)
  BY <1>1 DEF Request, Begin
<1>2. CASE InsertUser(t)
  BY <1>2 DEF InsertUser, Lend, Fails
<1>3. CASE RegAck(t)
  BY <1>3 DEF RegAck, GiveBack
<1>4. CASE InsertFriend(t)
  BY <1>4 DEF InsertFriend, InsertAndReturn, Fails
<1>5. CASE InsertGroup(t)
  BY <1>5 DEF InsertGroup, Lend, Fails
<1>6. CASE GroupId(t)
  BY <1>6 DEF GroupId, GiveBack
<1>7. CASE InsertGroupUser(t)
  BY <1>7 DEF InsertGroupUser, InsertAndReturn, Fails
<1>8. CASE Query(t)
  BY <1>8 DEF Query, Lend, Fails, AfterNothing, Selects
<1>9. CASE FetchUser(t)
  BY <1>9 DEF FetchUser, ReadAll, GiveBack
<1>10. CASE FetchFriends(t)
  BY <1>10 DEF FetchFriends, ReadAll, GiveBack
<1>11. CASE FetchGroups(t)
  BY <1>11 DEF FetchGroups, ReadAll, GiveBack, GroupsOf
<1>12. CASE QueryMembers(t)
  BY <1>12 DEF QueryMembers, NextGroup, GiveBack
<1>13. CASE FetchMembers(t)
  BY <1>13 DEF FetchMembers, ReadAll, NextGroup, GiveBack
<1>14. CASE FetchRecipients(t)
  BY <1>14 DEF FetchRecipients, ReadAll, GiveBack
<1> QED BY <1>1, <1>2, <1>3, <1>4, <1>5, <1>6, <1>7, <1>8, <1>9, <1>10, <1>11, <1>12, <1>13, <1>14 DEF Works

\* its group,
LEMMA MyGroup ==
    ASSUME MysqlType, LocalsType, TablesType, Owned, UserIsOwn, GroupIsOwn, NEW t \in Threads, Request(t) \/ Works(t)
    PROVE  OwnsGroup(t)'
<1> USE ContactsAssumption DEF MysqlType, LocalsType, TablesType, OwnsGroup, GroupIsOwn, Owned, Creates, tables, mysqlVars, locals, counts, Goto
<1>1. CASE Request(t)
  BY <1>1 DEF Request, Begin
<1>2. CASE InsertUser(t)
  BY <1>2 DEF InsertUser, Lend, Fails
<1>3. CASE RegAck(t)
  BY <1>3 DEF RegAck, GiveBack
<1>4. CASE InsertFriend(t)
  BY <1>4 DEF InsertFriend, InsertAndReturn, Fails
<1>5. CASE InsertGroup(t)
  BY <1>5 DEF InsertGroup, Lend, Fails
<1>6. CASE GroupId(t)
  BY <1>6 DEF GroupId, GiveBack
<1>7. CASE InsertGroupUser(t)
  BY <1>7 DEF InsertGroupUser, InsertAndReturn, Fails
<1>8. CASE Query(t)
  BY <1>8 DEF Query, Lend, Fails, AfterNothing, Selects
<1>9. CASE FetchUser(t)
  BY <1>9 DEF FetchUser, ReadAll, GiveBack
<1>10. CASE FetchFriends(t)
  BY <1>10 DEF FetchFriends, ReadAll, GiveBack
<1>11. CASE FetchGroups(t)
  BY <1>11 DEF FetchGroups, ReadAll, GiveBack, GroupsOf
<1>12. CASE QueryMembers(t)
  BY <1>12 DEF QueryMembers, NextGroup, GiveBack
<1>13. CASE FetchMembers(t)
  BY <1>13 DEF FetchMembers, ReadAll, NextGroup, GiveBack
<1>14. CASE FetchRecipients(t)
  BY <1>14 DEF FetchRecipients, ReadAll, GiveBack
<1> QED BY <1>1, <1>2, <1>3, <1>4, <1>5, <1>6, <1>7, <1>8, <1>9, <1>10, <1>11, <1>12, <1>13, <1>14 DEF Works

\* t will enter the creator of group g.
Tends(t, g) ==
    /\ Creates(t, g)
    /\ request[t] = allgroup[g].request /\ userid[t] = allgroup[g].userid

\* Each group has its creator, or failed to get it, or will.
GroupsCared ==
    \A g \in 1..Len(allgroup) :
        \/ <<g, allgroup[g].userid, "creator">> \in groupuser
        \/ allgroup[g].request \in failed
        \/ \E t \in Threads : Tends(t, g)

\* Whoever is entered as a creator made the group.
CreatorsRight ==
    \A row \in groupuser :
          row[3] = "creator" => row[1] \in 1..Len(allgroup) /\ allgroup[row[1]].userid = row[2]

\* A thread that tends a group goes on, or enters the creator, or fails.
LEMMA MyCare ==
    ASSUME MysqlType, LocalsType, TablesType, Owned, GroupIsOwn, NEW t \in Threads, Request(t) \/ Works(t),
           NEW g \in 1..Len(allgroup), Tends(t, g)
    PROVE  \/ Tends(t, g)'
           \/ <<g, allgroup[g].userid, "creator">> \in groupuser'
           \/ allgroup[g].request \in failed'
<1> USE ContactsAssumption DEF LocalsType, MysqlType, TablesType, Owned, Tends, Creates, tables, mysqlVars, locals, counts, Goto
<1>1. CASE Request(t)
  BY <1>1 DEF Request, Begin
<1>2. CASE InsertUser(t)
  BY <1>2 DEF InsertUser, Lend, Fails
<1>3. CASE RegAck(t)
  BY <1>3 DEF RegAck, GiveBack
<1>4. CASE InsertFriend(t)
  BY <1>4 DEF InsertFriend, InsertAndReturn, Fails
<1>5. CASE InsertGroup(t)
  BY <1>5 DEF InsertGroup, Lend, Fails
<1>6. CASE GroupId(t)
  BY <1>6 DEF GroupId, GiveBack
<1>7. CASE InsertGroupUser(t)
  BY <1>7 DEF InsertGroupUser, InsertAndReturn, Fails
<1>8. CASE Query(t)
  BY <1>8 DEF Query, Lend, Fails, AfterNothing, Selects
<1>9. CASE FetchUser(t)
  BY <1>9 DEF FetchUser, ReadAll, GiveBack
<1>10. CASE FetchFriends(t)
  BY <1>10 DEF FetchFriends, ReadAll, GiveBack
<1>11. CASE FetchGroups(t)
  BY <1>11 DEF FetchGroups, ReadAll, GiveBack, GroupsOf
<1>12. CASE QueryMembers(t)
  BY <1>12 DEF QueryMembers, NextGroup, GiveBack
<1>13. CASE FetchMembers(t)
  BY <1>13 DEF FetchMembers, ReadAll, NextGroup, GiveBack
<1>14. CASE FetchRecipients(t)
  BY <1>14 DEF FetchRecipients, ReadAll, GiveBack
<1> QED BY <1>1, <1>2, <1>3, <1>4, <1>5, <1>6, <1>7, <1>8, <1>9, <1>10, <1>11, <1>12, <1>13, <1>14 DEF Works

\* A new group is tended by whoever inserted it.
LEMMA NewGroup ==
    ASSUME MysqlType, LocalsType, TablesType, Owned, GroupIsOwn, NEW t \in Threads, Request(t) \/ Works(t),
           NEW g \in 1..Len(allgroup'), g \notin 1..Len(allgroup)
    PROVE  Tends(t, g)'
<1> USE ContactsAssumption DEF LocalsType, MysqlType, TablesType, Owned, Tends, Creates, tables, mysqlVars, locals, counts, Goto
<1>1. CASE Request(t)
  BY <1>1 DEF Request, Begin
<1>2. CASE InsertUser(t)
  BY <1>2 DEF InsertUser, Lend, Fails
<1>3. CASE RegAck(t)
  BY <1>3 DEF RegAck, GiveBack
<1>4. CASE InsertFriend(t)
  BY <1>4 DEF InsertFriend, InsertAndReturn, Fails
<1>5. CASE InsertGroup(t)
  BY <1>5 DEF InsertGroup, Lend, Fails
<1>6. CASE GroupId(t)
  BY <1>6 DEF GroupId, GiveBack
<1>7. CASE InsertGroupUser(t)
  BY <1>7 DEF InsertGroupUser, InsertAndReturn, Fails
<1>8. CASE Query(t)
  BY <1>8 DEF Query, Lend, Fails, AfterNothing, Selects
<1>9. CASE FetchUser(t)
  BY <1>9 DEF FetchUser, ReadAll, GiveBack
<1>10. CASE FetchFriends(t)
  BY <1>10 DEF FetchFriends, ReadAll, GiveBack
<1>11. CASE FetchGroups(t)
  BY <1>11 DEF FetchGroups, ReadAll, GiveBack, GroupsOf
<1>12. CASE QueryMembers(t)
  BY <1>12 DEF QueryMembers, NextGroup, GiveBack
<1>13. CASE FetchMembers(t)
  BY <1>13 DEF FetchMembers, ReadAll, NextGroup, GiveBack
<1>14. CASE FetchRecipients(t)
  BY <1>14 DEF FetchRecipients, ReadAll, GiveBack
<1> QED BY <1>1, <1>2, <1>3, <1>4, <1>5, <1>6, <1>7, <1>8, <1>9, <1>10, <1>11, <1>12, <1>13, <1>14 DEF Works

\* Every step keeps the acks right,
LEMMA OwnIdStep ==
    ASSUME LocalsType, TablesType, CountsType, UserIsOwn, OwnId, [Next]_vars
    PROVE  OwnId'
<1> USE ContactsAssumption DEF LocalsType, TablesType, CountsType, UserIsOwn, OwnsUser, OwnId, tables, mysqlVars, locals, counts, Goto
<1>1. ASSUME NEW t \in Threads, Request(t) PROVE OwnId'
  BY <1>1 DEF Request, Begin
<1>2. ASSUME NEW t \in Threads, InsertUser(t) PROVE OwnId'
  BY <1>2 DEF InsertUser, Lend, Fails
<1>3. ASSUME NEW t \in Threads, RegAck(t) PROVE OwnId'
  BY <1>3 DEF RegAck, GiveBack
<1>4. ASSUME NEW t \in Threads, InsertFriend(t) PROVE OwnId'
  BY <1>4 DEF InsertFriend, InsertAndReturn, Fails
<1>5. ASSUME NEW t \in Threads, InsertGroup(t) PROVE OwnId'
  BY <1>5 DEF InsertGroup, Lend, Fails
<1>6. ASSUME NEW t \in Threads, GroupId(t) PROVE OwnId'
  BY <1>6 DEF GroupId, GiveBack
<1>7. ASSUME NEW t \in Threads, InsertGroupUser(t) PROVE OwnId'
  BY <1>7 DEF InsertGroupUser, InsertAndReturn, Fails
<1>8. ASSUME NEW t \in Threads, Query(t) PROVE OwnId'
  BY <1>8 DEF Query, Lend, Fails, AfterNothing, Selects
<1>9. ASSUME NEW t \in Threads, FetchUser(t) PROVE OwnId'
  BY <1>9 DEF FetchUser, ReadAll, GiveBack
<1>10. ASSUME NEW t \in Threads, FetchFriends(t) PROVE OwnId'
  BY <1>10 DEF FetchFriends, ReadAll, GiveBack
<1>11. ASSUME NEW t \in Threads, FetchGroups(t) PROVE OwnId'
  BY <1>11 DEF FetchGroups, ReadAll, GiveBack, GroupsOf
<1>12. ASSUME NEW t \in Threads, QueryMembers(t) PROVE OwnId'
  BY <1>12 DEF QueryMembers, NextGroup, GiveBack
<1>13. ASSUME NEW t \in Threads, FetchMembers(t) PROVE OwnId'
  BY <1>13 DEF FetchMembers, ReadAll, NextGroup, GiveBack
<1>14. ASSUME NEW t \in Threads, FetchRecipients(t) PROVE OwnId'
  BY <1>14 DEF FetchRecipients, ReadAll, GiveBack
<1>15. CASE UNCHANGED vars
  BY <1>15 DEF vars
<1> QED BY <1>1, <1>2, <1>3, <1>4, <1>5, <1>6, <1>7, <1>8, <1>9, <1>10, <1>11, <1>12, <1>13, <1>14, <1>15 DEF Next, Works

\* the creators,
LEMMA CreatorsStep ==
    ASSUME LocalsType, TablesType, GroupIsOwn, CreatorsRight, [Next]_vars
    PROVE  CreatorsRight'
<1> USE ContactsAssumption DEF LocalsType, TablesType, GroupIsOwn, OwnsGroup, Creates, CreatorsRight, tables, mysqlVars, locals, counts, Goto
<1>1. ASSUME NEW t \in Threads, Request(t) PROVE CreatorsRight'
  BY <1>1 DEF Request, Begin
<1>2. ASSUME NEW t \in Threads, InsertUser(t) PROVE CreatorsRight'
  BY <1>2 DEF InsertUser, Lend, Fails
<1>3. ASSUME NEW t \in Threads, RegAck(t) PROVE CreatorsRight'
  BY <1>3 DEF RegAck, GiveBack
<1>4. ASSUME NEW t \in Threads, InsertFriend(t) PROVE CreatorsRight'
  BY <1>4 DEF InsertFriend, InsertAndReturn, Fails
<1>5. ASSUME NEW t \in Threads, InsertGroup(t) PROVE CreatorsRight'
  BY <1>5 DEF InsertGroup, Lend, Fails
<1>6. ASSUME NEW t \in Threads, GroupId(t) PROVE CreatorsRight'
  BY <1>6 DEF GroupId, GiveBack
<1>7. ASSUME NEW t \in Threads, InsertGroupUser(t) PROVE CreatorsRight'
  <2>1. UNCHANGED allgroup
    BY <1>7 DEF InsertGroupUser
  <2>2. CASE UNCHANGED groupuser
    BY <2>1, <2>2
  <2>3. CASE pc[t] = "creator" /\ groupuser' = groupuser \cup {<<groupid[t], userid[t], "creator">>}
    <3>1. groupid[t] \in 1..Len(allgroup) /\ allgroup[groupid[t]].userid = userid[t]
      <4>1. PICK g \in 1..Len(allgroup) :
                   Creates(t, g) /\ allgroup[g] = [request |-> request[t], userid |-> userid[t]]
        BY <2>3
      <4> QED BY <2>3, <4>1
    <3> QED BY <2>1, <2>3, <3>1
  <2>4. CASE groupuser' = groupuser \cup {<<groupid[t], userid[t], "normal">>}
    BY <2>1, <2>4
  <2> QED BY <1>7, <2>2, <2>3, <2>4 DEF InsertGroupUser
<1>8. ASSUME NEW t \in Threads, Query(t) PROVE CreatorsRight'
  BY <1>8 DEF Query, Lend, Fails, AfterNothing, Selects
<1>9. ASSUME NEW t \in Threads, FetchUser(t) PROVE CreatorsRight'
  BY <1>9 DEF FetchUser, ReadAll, GiveBack
<1>10. ASSUME NEW t \in Threads, FetchFriends(t) PROVE CreatorsRight'
  BY <1>10 DEF FetchFriends, ReadAll, GiveBack
<1>11. ASSUME NEW t \in Threads, FetchGroups(t) PROVE CreatorsRight'
  BY <1>11 DEF FetchGroups, ReadAll, GiveBack, GroupsOf
<1>12. ASSUME NEW t \in Threads, QueryMembers(t) PROVE CreatorsRight'
  BY <1>12 DEF QueryMembers, NextGroup, GiveBack
<1>13. ASSUME NEW t \in Threads, FetchMembers(t) PROVE CreatorsRight'
  BY <1>13 DEF FetchMembers, ReadAll, NextGroup, GiveBack
<1>14. ASSUME NEW t \in Threads, FetchRecipients(t) PROVE CreatorsRight'
  BY <1>14 DEF FetchRecipients, ReadAll, GiveBack
<1>15. CASE UNCHANGED vars
  BY <1>15 DEF vars
<1> QED BY <1>1, <1>2, <1>3, <1>4, <1>5, <1>6, <1>7, <1>8, <1>9, <1>10, <1>11, <1>12, <1>13, <1>14, <1>15 DEF Next, Works

\* what each thread knows of its row
LEMMA UserStep ==
    ASSUME MysqlType, LocalsType, TablesType, Owned, UserIsOwn, GroupIsOwn, [Next]_vars
    PROVE  UserIsOwn'
<1>1. CASE UNCHANGED vars
  BY <1>1 DEF vars, tables, mysqlVars, locals, UserIsOwn, OwnsUser
<1>2. ASSUME NEW t \in Threads, Request(t) \/ Works(t), NEW u \in Threads PROVE OwnsUser(u)'
  <2>1. CASE u = t
    BY <1>2, <2>1, MyUser
  <2>2. CASE u # t
    BY <1>2, <2>2, KeptStep, GrowsStep, OtherUser DEF UserIsOwn, Next
  <2> QED BY <2>1, <2>2
<1> QED BY <1>1, <1>2 DEF Next, UserIsOwn

\* and of its group,
LEMMA GroupStep ==
    ASSUME MysqlType, LocalsType, TablesType, Owned, UserIsOwn, GroupIsOwn, [Next]_vars
    PROVE  GroupIsOwn'
<1>1. CASE UNCHANGED vars
  BY <1>1 DEF vars, tables, mysqlVars, locals, GroupIsOwn, OwnsGroup, Creates
<1>2. ASSUME NEW t \in Threads, Request(t) \/ Works(t), NEW u \in Threads PROVE OwnsGroup(u)'
  <2>1. CASE u = t
    BY <1>2, <2>1, MyGroup
  <2>2. CASE u # t
    BY <1>2, <2>2, KeptStep, GrowsStep, OtherGroup DEF GroupIsOwn, Next
  <2> QED BY <2>1, <2>2
<1> QED BY <1>1, <1>2 DEF Next, GroupIsOwn

\* and every group cared for.
LEMMA CaredStep ==
    ASSUME MysqlType, LocalsType, TablesType, Owned, GroupIsOwn, GroupsCared, [Next]_vars
    PROVE  GroupsCared'
<1>1. CASE UNCHANGED vars
  BY <1>1 DEF vars, tables, mysqlVars, locals, counts, GroupsCared, Tends, Creates
<1>2. ASSUME NEW t \in Threads, Request(t) \/ Works(t), NEW g \in 1..Len(allgroup')
      PROVE  \/ <<g, allgroup'[g].userid, "creator">> \in groupuser'
             \/ allgroup'[g].request \in failed'
             \/ \E u \in Threads : Tends(u, g)'
  <2>1. CASE g \notin 1..Len(allgroup)
    BY <1>2, <2>1, NewGroup
  <2>2. CASE g \in 1..Len(allgroup)
    <3>1. Grows
      BY <1>2, GrowsStep DEF Next
    <3>2. allgroup'[g] = allgroup[g]
      BY <2>2, <3>1 DEF Grows
    <3>3. CASE <<g, allgroup[g].userid, "creator">> \in groupuser \/ allgroup[g].request \in failed
      BY <3>1, <3>2, <3>3 DEF Grows
    <3>4. CASE Tends(t, g)
      BY <1>2, <2>2, <3>2, <3>4, MyCare
    <3>5. ASSUME NEW u \in Threads \ {t}, Tends(u, g) PROVE Tends(u, g)'
      <4>1. Kept(u)
        BY <1>2, KeptStep
      <4>2. Creates(u, g)'
        BY <3>5, <4>1, OtherCreates DEF Tends
      <4> QED BY <3>2, <3>5, <4>1, <4>2 DEF Tends, Kept
    <3> QED BY <2>2, <3>3, <3>4, <3>5 DEF GroupsCared
  <2> QED BY <2>1, <2>2
<1> QED BY <1>1, <1>2 DEF Next, GroupsCared

\* The inductive invariant.
ContactsInv ==
    /\ TablesType /\ MysqlType /\ LocalsType /\ CountsType
    /\ Owned /\ Clean /\ InSync
    /\ UserIsOwn /\ OwnId
    /\ GroupIsOwn /\ GroupsCared /\ CreatorsRight

\* It holds at the start,
LEMMA InitInv == Init => ContactsInv
<1> SUFFICES ASSUME Init PROVE ContactsInv
  OBVIOUS
<1> USE ContactsAssumption DEF Init
<1>1. TablesType
  BY DEF TablesType, Requests
<1>2. MysqlType /\ Owned /\ Clean /\ InSync
  BY DEF MysqlType, Owned, Clean, InSync
<1>3. LocalsType /\ CountsType
  BY DEF LocalsType, CountsType, Requests, Ids
<1>4. UserIsOwn /\ OwnId /\ GroupIsOwn /\ GroupsCared /\ CreatorsRight
  BY DEF UserIsOwn, OwnsUser, OwnId, GroupIsOwn, OwnsGroup, GroupsCared, CreatorsRight
<1> QED BY <1>1, <1>2, <1>3, <1>4 DEF ContactsInv

\* is kept by every step,
LEMMA InvStep == ContactsInv /\ [Next]_vars => ContactsInv'
<1> SUFFICES ASSUME ContactsInv, [Next]_vars PROVE ContactsInv'
  OBVIOUS
<1>1. TablesType' /\ MysqlType' /\ LocalsType' /\ CountsType'
  BY TablesStep, MysqlStep, LocalsStep, CountsStep DEF ContactsInv
<1>2. Owned' /\ Clean' /\ InSync'
  BY OwnedStep, CleanStep DEF ContactsInv
<1>3. UserIsOwn' /\ OwnId'
  BY UserStep, OwnIdStep DEF ContactsInv
<1>4. GroupIsOwn' /\ GroupsCared' /\ CreatorsRight'
  BY GroupStep, CaredStep, CreatorsStep DEF ContactsInv
<1> QED BY <1>1, <1>2, <1>3, <1>4 DEF ContactsInv

\* and so holds for ever.
LEMMA Invariance == Spec => []ContactsInv
BY InitInv, InvStep, PTL DEF Spec

\* Every reachable state is well typed, for any threads, connections and bounds.
THEOREM TypeCorrect == Spec => []TypeOK
<1>1. ContactsInv => TypeOK
  BY TypeParts DEF ContactsInv
<1> QED BY <1>1, Invariance, PTL

\* The id in a REG_MSG_ACK is that of the row the request inserted, whatever other
\* threads insert between the statement and mysql_insert_id (UserModel.cpp:11-14).
THEOREM IdsAreOwn == Spec => []OwnId
<1>1. ContactsInv => OwnId
  BY DEF ContactsInv
<1> QED BY <1>1, Invariance, PTL

\* A connection in the queue of the pool has no unread rows, so no statement fails
\* with "commands out of sync" (Connection.cpp:31).
THEOREM StaysInSync == Spec => []InSync
<1>1. ContactsInv => InSync
  BY DEF ContactsInv
<1> QED BY <1>1, Invariance, PTL

\* A group has its creator unless createGroup is under way or a statement of it
\* failed, and nobody else is entered as one (chatservice.cpp:201-203).
THEOREM GroupsHaveCreators == Spec => []CreatorEntered
<1>1. ContactsInv => CreatorEntered
  <2> SUFFICES ASSUME ContactsInv PROVE CreatorEntered
    OBVIOUS
  <2>1. ASSUME NEW t \in Threads, NEW g, Tends(t, g) PROVE pc[t] # "idle" /\ request[t] = allgroup[g].request
    BY <2>1 DEF Tends, Creates
  <2> QED BY <2>1 DEF ContactsInv, GroupsCared, CreatorsRight, CreatorEntered
<1> QED BY <1>1, Invariance, PTL
=============================================================================
