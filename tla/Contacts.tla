-------------------------------- MODULE Contacts --------------------------------
(****************************************************************************)
(* Registration, friends and groups: reg, addFriend, createGroup, addGroup  *)
(* of ChatService, the lists that login reads and the recipients groupChat  *)
(* looks up, through UserModel, FriendModel, GroupModel and mysql/          *)
(* Connection.  Handlers run on the threads of the I/O loops; a statement   *)
(* runs on a connection that Connectionpool lends to nobody else            *)
(* (Connectionpool, NoSharing).  Getting none counts as a failing statement.*)
(*                                                                          *)
(* What libmysqlclient keeps for a connection: the id of the last row it    *)
(* has inserted, and whether rows of the last query are unread, for they    *)
(* come one by one (mysql_use_result) and another statement before the last *)
(* of them fails with "commands out of sync".                               *)
(****************************************************************************)
EXTENDS Integers, Sequences, FiniteSets

CONSTANTS
    Threads,
    Connections,
    None,
    Registered,     \* rows of table user at the start
    MaxRequests,    \* bound: requests
    MaxFaults       \* bound: statements that fail

ASSUME ContactsAssumption ==
    /\ None \notin Connections
    /\ Registered \in Nat \ {0} /\ MaxRequests \in Nat /\ MaxFaults \in Nat

VARIABLES
    user,           \* user[i]: the request that inserted the row with id i
    allgroup,       \* allgroup[i]: the request that inserted it, and whose it was
    friend,         \* pairs <<userid, friendid>>
    groupuser,      \* triples <<groupid, userid, grouprole>>
    idle,           \* connections in the queue of Connectionpool
    held,           \* held[t]: the connection t has borrowed
    insert_id,      \* insert_id[c]: mysql_insert_id
    unread,         \* unread[c]: rows of a result are still to be fetched
    pc,             \* where the handler on t is
    request,        \* request[t]: the number of the request
    userid,         \* userid[t]: js["id"]
    groupid,        \* groupid[t]: js["groupid"], or the id of the new group
    todo,           \* todo[t]: groups whose users queryGroups has still to read
    requests, faults,
    failed,         \* history: requests of which a statement failed
    acks            \* history: pairs of a request and the id REG_MSG_ACK had

tables == <<user, allgroup, friend, groupuser>>
mysqlVars == <<idle, held, insert_id, unread>>
locals == <<request, userid, groupid, todo>>
counts == <<requests, faults, failed, acks>>
vars == <<tables, mysqlVars, pc, locals, counts>>

Requests == 0..MaxRequests
Ids == Nat \ {0}
Selects == {"user", "friends", "groups", "recipients"}

TypeOK ==
    /\ user \in Seq(Requests)
    /\ allgroup \in Seq([request : Requests, userid : Ids])
    /\ friend \in SUBSET (Ids \X Ids)
    /\ groupuser \in SUBSET (Ids \X Ids \X {"creator", "normal"})
    /\ idle \in SUBSET Connections
    /\ held \in [Threads -> Connections \cup {None}]
    /\ insert_id \in [Connections -> Nat]
    /\ unread \in [Connections -> BOOLEAN]
    /\ pc \in [Threads -> Selects \cup {"idle", "reg", "addFriend", "createGroup", "creator",
                                        "addGroup", "members"}]
    /\ request \in [Threads -> Requests]
    /\ userid \in [Threads -> Ids] /\ groupid \in [Threads -> Ids]
    /\ todo \in [Threads -> SUBSET Ids]
    /\ requests \in Requests /\ faults \in 0..MaxFaults
    /\ failed \in SUBSET Requests
    /\ acks \in SUBSET (Requests \X Ids)

Init ==
    /\ user = [i \in 1..Registered |-> 0]
    /\ allgroup = <<>> /\ friend = {} /\ groupuser = {}
    /\ idle = Connections
    /\ held = [t \in Threads |-> None]
    /\ insert_id = [c \in Connections |-> 0]
    /\ unread = [c \in Connections |-> FALSE]
    /\ pc = [t \in Threads |-> "idle"]
    /\ request = [t \in Threads |-> 0]
    /\ userid = [t \in Threads |-> 1] /\ groupid = [t \in Threads |-> 1]
    /\ todo = [t \in Threads |-> {}]
    /\ requests = 0 /\ faults = 0 /\ failed = {} /\ acks = {}

GroupsOf(u) == {row[1] : row \in {r \in groupuser : r[2] = u}}

-----------------------------------------------------------------------------
(* Statements.                                                              *)

Lend(t, c) ==
    /\ held[t] = None /\ c \in idle
    /\ held' = [held EXCEPT ![t] = c]
    /\ idle' = idle \ {c}

GiveBack(t) ==
    /\ held' = [held EXCEPT ![t] = None]
    /\ idle' = idle \cup {held[t]}

Goto(t, where) == pc' = [pc EXCEPT ![t] = where]

\* No connection, or a statement that MySQL refuses: the handler goes on.
Fails(t, where) ==
    /\ faults < MaxFaults
    /\ faults' = faults + 1
    /\ failed' = failed \cup {request[t]}
    /\ Goto(t, where)

\* A statement that needs nothing of its connection afterwards.
InsertAndReturn(t, where) ==
    /\ \E c \in idle : ~ unread[c] /\ insert_id' = [insert_id EXCEPT ![c] = 0]
    /\ Goto(t, where)
    /\ UNCHANGED <<idle, held, unread, faults, failed>>

-----------------------------------------------------------------------------
(* Requests.  A user types any number for the group he wants to join or to  *)
(* write to, here at most one that is not there yet.                        *)

Begin(t, where) ==
    /\ pc[t] = "idle" /\ requests < MaxRequests
    /\ requests' = requests + 1
    /\ request' = [request EXCEPT ![t] = requests + 1]
    /\ \E u \in 1..Len(user), g \in 1..Len(allgroup) + 1 :
          /\ where = "reg" => u = 1
          /\ where \notin {"addGroup", "recipients"} => g = 1
          /\ userid' = [userid EXCEPT ![t] = u]
          /\ groupid' = [groupid EXCEPT ![t] = g]
    /\ Goto(t, where)
    /\ UNCHANGED <<tables, mysqlVars, todo, faults, failed, acks>>

Request(t) ==
    \E where \in {"reg", "addFriend", "createGroup", "addGroup", "user", "recipients"} : Begin(t, where)

-----------------------------------------------------------------------------
(* reg                                                                      *)

\* Mutant: the connection goes back before its id is read.
InsertUserReturns(t) ==
    /\ pc[t] = "reg" /\ held[t] = None
    /\ \E c \in idle :
          /\ ~ unread[c]
          /\ held' = [held EXCEPT ![t] = c]
          /\ insert_id' = [insert_id EXCEPT ![c] = Len(user) + 1]
    /\ user' = Append(user, request[t])
    /\ UNCHANGED <<allgroup, friend, groupuser, idle, unread, pc, locals, counts>>

InsertUser(t) ==
    /\ pc[t] = "reg" /\ held[t] = None
    /\ \/ /\ \E c \in idle :
                /\ ~ unread[c]
                /\ Lend(t, c)
                /\ insert_id' = [insert_id EXCEPT ![c] = Len(user) + 1]
          /\ user' = Append(user, request[t])
          /\ UNCHANGED <<pc, faults, failed>>
       \/ Fails(t, "idle") /\ UNCHANGED <<user, idle, held, insert_id>>
    /\ UNCHANGED <<allgroup, friend, groupuser, unread, locals, requests, acks>>

\* mysql_insert_id on the connection that is still held, and the answer.
RegAck(t) ==
    /\ pc[t] = "reg" /\ held[t] # None
    /\ acks' = acks \cup {<<request[t], insert_id[held[t]]>>}
    /\ GiveBack(t)
    /\ Goto(t, "idle")
    /\ UNCHANGED <<tables, insert_id, unread, locals, requests, faults, failed>>

-----------------------------------------------------------------------------
(* addFriend, createGroup, addGroup                                         *)

InsertFriend(t) ==
    /\ pc[t] = "addFriend"
    /\ \/ /\ InsertAndReturn(t, "idle")
          /\ \E f \in 1..Len(user) : friend' = friend \cup {<<userid[t], f>>}
       \/ Fails(t, "idle") /\ UNCHANGED <<friend, mysqlVars>>
    /\ UNCHANGED <<user, allgroup, groupuser, locals, requests, acks>>

InsertGroup(t) ==
    /\ pc[t] = "createGroup" /\ held[t] = None
    /\ \/ /\ \E c \in idle :
                /\ ~ unread[c]
                /\ Lend(t, c)
                /\ insert_id' = [insert_id EXCEPT ![c] = Len(allgroup) + 1]
          /\ allgroup' = Append(allgroup, [request |-> request[t], userid |-> userid[t]])
          /\ UNCHANGED <<pc, faults, failed>>
       \/ Fails(t, "idle") /\ UNCHANGED <<allgroup, idle, held, insert_id>>
    /\ UNCHANGED <<user, friend, groupuser, unread, locals, requests, acks>>

\* Mutant: the id is read on a connection that addGroup borrows anew.
GroupIdAnew(t) ==
    /\ pc[t] = "createGroup" /\ held[t] # None
    /\ \E c \in idle \cup {held[t]} : groupid' = [groupid EXCEPT ![t] = insert_id[c]]
    /\ GiveBack(t)
    /\ Goto(t, "creator")
    /\ UNCHANGED <<tables, insert_id, unread, request, userid, todo, counts>>

\* GroupModel::createGroup returns, and gives its connection back before addGroup
\* borrows one.
GroupId(t) ==
    /\ pc[t] = "createGroup" /\ held[t] # None
    /\ groupid' = [groupid EXCEPT ![t] = insert_id[held[t]]]
    /\ GiveBack(t)
    /\ Goto(t, "creator")
    /\ UNCHANGED <<tables, insert_id, unread, request, userid, todo, counts>>

\* GroupModel::addGroup, for the creator and for who joins.
InsertGroupUser(t) ==
    /\ pc[t] \in {"creator", "addGroup"}
    /\ LET role == IF pc[t] = "creator" THEN "creator" ELSE "normal" IN
       \/ /\ InsertAndReturn(t, "idle")
          /\ groupuser' = groupuser \cup {<<groupid[t], userid[t], role>>}
       \/ Fails(t, "idle") /\ UNCHANGED <<groupuser, mysqlVars>>
    /\ UNCHANGED <<user, allgroup, friend, locals, requests, acks>>

-----------------------------------------------------------------------------
(* Queries: what login lists, and whom groupChat writes to.                 *)

\* Where a handler goes on when a query has yielded nothing.
AfterNothing == [user |-> "idle", friends |-> "groups", groups |-> "idle", recipients |-> "idle"]

Query(t) ==
    /\ pc[t] \in Selects /\ held[t] = None
    /\ \/ /\ \E c \in idle :
                /\ ~ unread[c]
                /\ Lend(t, c)
                /\ unread' = [unread EXCEPT ![c] = TRUE]
          /\ UNCHANGED <<pc, faults, failed>>
       \/ Fails(t, AfterNothing[pc[t]]) /\ UNCHANGED <<idle, held, unread>>
    /\ UNCHANGED <<tables, insert_id, locals, requests, acks>>

\* The rows are fetched to the end, or the rest is flushed by mysql_free_result.
ReadAll(t) == unread' = [unread EXCEPT ![held[t]] = FALSE]

\* Mutant: one row is fetched, and the result not freed.
FetchUserUnfreed(t) ==
    /\ pc[t] = "user" /\ held[t] # None
    /\ GiveBack(t)
    /\ Goto(t, "idle") \/ Goto(t, "friends")
    /\ UNCHANGED <<tables, insert_id, unread, locals, counts>>

\* The user may be unknown, or the login refused.  Without a row the result is not
\* freed, but it has been read to its end.
FetchUser(t) ==
    /\ pc[t] = "user" /\ held[t] # None
    /\ ReadAll(t)
    /\ GiveBack(t)
    /\ Goto(t, "idle") \/ Goto(t, "friends")
    /\ UNCHANGED <<tables, insert_id, locals, counts>>

FetchFriends(t) ==
    /\ pc[t] = "friends" /\ held[t] # None
    /\ ReadAll(t)
    /\ GiveBack(t)
    /\ Goto(t, "groups")
    /\ UNCHANGED <<tables, insert_id, locals, counts>>

\* Mutant: with no group the connection is kept.
FetchGroupsKeeps(t) ==
    /\ pc[t] = "groups" /\ held[t] # None
    /\ ReadAll(t)
    /\ todo' = [todo EXCEPT ![t] = GroupsOf(userid[t])]
    /\ Goto(t, IF todo'[t] = {} THEN "idle" ELSE "members")
    /\ UNCHANGED <<tables, idle, held, insert_id, request, userid, groupid, counts>>

\* queryGroups goes on with the same connection for the users of each group.
FetchGroups(t) ==
    /\ pc[t] = "groups" /\ held[t] # None
    /\ ReadAll(t)
    /\ todo' = [todo EXCEPT ![t] = GroupsOf(userid[t])]
    /\ \/ todo'[t] = {} /\ GiveBack(t) /\ Goto(t, "idle")
       \/ todo'[t] # {} /\ Goto(t, "members") /\ UNCHANGED <<idle, held>>
    /\ UNCHANGED <<tables, insert_id, request, userid, groupid, counts>>

\* One group less; after the last one the connection goes back.
NextGroup(t) ==
    /\ \E g \in todo[t] : todo' = [todo EXCEPT ![t] = @ \ {g}]
    /\ \/ todo'[t] = {} /\ GiveBack(t) /\ Goto(t, "idle")
       \/ todo'[t] # {} /\ UNCHANGED <<idle, held, pc>>

QueryMembers(t) ==
    /\ pc[t] = "members" /\ ~ unread[held[t]]
    /\ \/ /\ unread' = [unread EXCEPT ![held[t]] = TRUE]
          /\ UNCHANGED <<idle, held, pc, todo, faults, failed>>
       \/ /\ faults < MaxFaults
          /\ faults' = faults + 1
          /\ failed' = failed \cup {request[t]}
          /\ NextGroup(t)
          /\ UNCHANGED unread
    /\ UNCHANGED <<tables, insert_id, request, userid, groupid, requests, acks>>

FetchMembers(t) ==
    /\ pc[t] = "members" /\ unread[held[t]]
    /\ ReadAll(t)
    /\ NextGroup(t)
    /\ UNCHANGED <<tables, insert_id, request, userid, groupid, counts>>

\* The rest of groupChat, which sends to them, is in ChatService.
FetchRecipients(t) ==
    /\ pc[t] = "recipients" /\ held[t] # None
    /\ ReadAll(t)
    /\ GiveBack(t)
    /\ Goto(t, "idle")
    /\ UNCHANGED <<tables, insert_id, locals, counts>>

-----------------------------------------------------------------------------
Works(t) ==
    \/ InsertUser(t) \/ RegAck(t)
    \/ InsertFriend(t) \/ InsertGroup(t) \/ GroupId(t) \/ InsertGroupUser(t)
    \/ Query(t) \/ FetchUser(t) \/ FetchFriends(t) \/ FetchGroups(t)
    \/ QueryMembers(t) \/ FetchMembers(t) \/ FetchRecipients(t)

Next == \E t \in Threads : Request(t) \/ Works(t)

Spec == Init /\ [][Next]_vars

\* A handler that has begun goes on, since MySQL answers; and a connection that
\* comes back is lent to whoever waits for one (Connectionpool, CallsReturn).
FairSpec == Spec /\ \A t \in Threads : SF_vars(Works(t))

-----------------------------------------------------------------------------
(* Properties.                                                              *)

\* The id a client is told is that of the row its own request has inserted,
\* whatever else was inserted in between: between the two calls nobody uses the
\* connection (UserModel.cpp:11-14, Connectionpool.cpp:103-108).
OwnId == \A ack \in acks : ack[2] \in 1..Len(user) /\ user[ack[2]] = ack[1]

\* A group has its creator, the one who asked for it, and no other, though the
\* group and its creator are entered by two statements on two connections, and
\* others may join in between; it has none while its createGroup is under way,
\* and for ever where the second statement has failed (chatservice.cpp:201-203,
\* GroupModel.cpp:11-13).
CreatorEntered ==
    /\ \A g \in 1..Len(allgroup) :
          \/ <<g, allgroup[g].userid, "creator">> \in groupuser
          \/ allgroup[g].request \in failed
          \/ \E t \in Threads : pc[t] # "idle" /\ request[t] = allgroup[g].request
    /\ \A row \in groupuser :
          row[3] = "creator" => row[1] \in 1..Len(allgroup) /\ allgroup[row[1]].userid = row[2]

\* No statement meets unread rows of an earlier one: a connection comes back to
\* the pool with nothing left to fetch, wherever its borrower returned
\* (Connection.cpp:31, UserModel.cpp:27-40, GroupModel.cpp:35-63).
InSync == \A c \in idle : ~ unread[c]

\* Every request ends, and its connection comes back: no handler holds one while
\* it borrows another (GroupModel.cpp:9-14, 22-24, 32, 70).
RequestsEnd == \A t \in Threads : pc[t] # "idle" ~> pc[t] = "idle" /\ held[t] = None
=============================================================================
