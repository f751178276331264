--------------------------- MODULE ChatPresenceProofs --------------------------
(****************************************************************************)
(* Proofs about who is signed in, online, routed and subscribed in          *)
(* ChatService, for any number of users, servers and connections.  They     *)
(* rest on PresenceInv, which every step preserves as long as the logins of *)
(* one user do not overlap and no call has failed, across restarts of the   *)
(* servers.                                                                 *)
(****************************************************************************)
EXTENDS ChatServiceProofs, WellFoundedInduction

-----------------------------------------------------------------------------
(* The greatest of finitely many indices, and the commands a server has      *)
(* written for a user.                                                       *)

\* The natural numbers are well founded under <.
LEMMA LeastNat ==
    ASSUME NEW T, T \subseteq Nat, T # {}
    PROVE  \E x \in T : \A y \in T : x <= y
<1> DEFINE R == OpToRel(<, Nat)
<1>1. IsWellFoundedOn(R, Nat)
  BY NatLessThanWellFounded
<1>2. \A x, y \in T : y < x => <<y, x>> \in R
  BY DEF OpToRel
<1> HIDE DEF R
<1>3. PICK x \in T : \A y \in T : ~ (<<y, x>> \in R)
  BY <1>1, WFMin
<1>4. \A y \in T : ~ (y < x)
  BY <1>2, <1>3
<1>5. \A y \in T : x <= y
  BY <1>4
<1> QED BY <1>5

\* A nonempty set of indices has a greatest one.
LEMMA GreatestIndex ==
    ASSUME NEW n \in Nat, NEW T, T \subseteq 1..n, T # {}
    PROVE  \E x \in T : \A y \in T : y <= x
<1> DEFINE U == {n - y : y \in T}
<1>1. \A y \in T : y \in Int /\ y <= n /\ n - y \in Nat
  OBVIOUS
<1>2. U \subseteq Nat /\ U # {}
  BY <1>1
<1>3. PICK z \in U : \A w \in U : z <= w
  <2> HIDE DEF U
  <2> QED BY <1>2, LeastNat
<1>4. PICK x \in T : z = n - x
  BY <1>3
<1>5. \A y \in T : n - x <= n - y
  BY <1>3, <1>4
<1> QED BY <1>1, <1>5

\* The commands that a server writes to Redis.
Cmds == [op : {"sub", "unsub"}, user : Users]

\* Where in a queue of commands those for u are.
OfUser(q, u) == {i \in 1..Len(q) : q[i].user = u}

\* What the commands in q make of a subscription to u that is there or not.
Wanted(q, there, u) ==
    IF OfUser(q, u) = {} THEN there
    ELSE LET last == CHOOSE i \in OfUser(q, u) : \A j \in OfUser(q, u) : j <= i
         IN  q[last].op = "sub"

\* What Subscribed folds is what the last command wants.
LEMMA SubscribedIsWanted ==
    \A s \in Servers, u \in Users : Subscribed(s, u) <=> Wanted(cmds[s], s \in subs[u], u)
BY DEF Subscribed, Wanted, OfUser

\* The last command for u decides.
LEMMA WantedLast ==
    ASSUME NEW q \in Seq(Cmds), NEW there, NEW u,
           NEW i \in OfUser(q, u), \A j \in OfUser(q, u) : j <= i
    PROVE  Wanted(q, there, u) <=> q[i].op = "sub"
<1> DEFINE Last(k) == \A j \in OfUser(q, u) : j <= k
<1>1. \A k \in OfUser(q, u) : k \in Int
  BY DEF OfUser
<1>2. (CHOOSE k \in OfUser(q, u) : Last(k)) = i
  BY <1>1
<1> QED BY <1>2 DEF Wanted

\* If there is a command for u, one is the last.
LEMMA SomeLast ==
    ASSUME NEW q \in Seq(Cmds), NEW u, OfUser(q, u) # {}
    PROVE  \E i \in OfUser(q, u) : \A j \in OfUser(q, u) : j <= i
<1>1. Len(q) \in Nat /\ OfUser(q, u) \subseteq 1..Len(q)
  BY DEF OfUser
<1> HIDE DEF Cmds
<1> QED BY <1>1, GreatestIndex

\* A command for u, once written, is the one that counts.
LEMMA WantedAppendOwn ==
    ASSUME NEW q \in Seq(Cmds), NEW n \in Cmds, NEW there
    PROVE  Wanted(Append(q, n), there, n.user) <=> n.op = "sub"
<1> DEFINE r == Append(q, n)
<1>1. r \in Seq(Cmds) /\ Len(r) = Len(q) + 1 /\ r[Len(q) + 1] = n /\ Len(q) \in Nat
  <2> HIDE DEF Cmds
  <2> QED BY AppendProperties, LenProperties
<1> HIDE DEF r
<1>2. /\ Len(q) + 1 \in OfUser(r, n.user)
      /\ \A j \in OfUser(r, n.user) : j <= Len(q) + 1
  BY <1>1 DEF OfUser
<1>3. Wanted(r, there, n.user) <=> r[Len(q) + 1].op = "sub"
  <2> HIDE DEF Cmds
  <2> QED BY <1>1, <1>2, WantedLast
<1> QED BY <1>1, <1>3 DEF r

\* A command for another user changes nothing.
LEMMA WantedAppendOther ==
    ASSUME NEW q \in Seq(Cmds), NEW n \in Cmds, NEW there, NEW u, u # n.user
    PROVE  Wanted(Append(q, n), there, u) <=> Wanted(q, there, u)
<1> DEFINE r == Append(q, n)
<1>1. /\ r \in Seq(Cmds) /\ Len(r) = Len(q) + 1 /\ r[Len(q) + 1] = n /\ Len(q) \in Nat
      /\ \A i \in 1..Len(q) : r[i] = q[i]
  <2> HIDE DEF Cmds
  <2> QED BY AppendProperties, LenProperties
<1> HIDE DEF r
<1>2. OfUser(r, u) = OfUser(q, u)
  BY <1>1 DEF OfUser
<1>3. CASE OfUser(q, u) = {}
  BY <1>2, <1>3 DEF Wanted, r
<1>4. CASE OfUser(q, u) # {}
  <2>1. PICK i \in OfUser(q, u) : \A j \in OfUser(q, u) : j <= i
    BY <1>4, SomeLast
  <2>2. Wanted(q, there, u) <=> q[i].op = "sub"
    BY <2>1, WantedLast
  <2>3. Wanted(r, there, u) <=> r[i].op = "sub"
    BY <1>1, <1>2, <2>1, WantedLast
  <2>4. r[i] = q[i]
    BY <1>1 DEF OfUser
  <2> QED BY <2>2, <2>3, <2>4 DEF r
<1> QED BY <1>3, <1>4

\* What will be subscribed does not change when the broker executes a command.
LEMMA WantedExecute ==
    ASSUME NEW q \in Seq(Cmds), q # <<>>, NEW there, NEW after, NEW u,
           Head(q).user = u => (after <=> Head(q).op = "sub"),
           Head(q).user # u => (after <=> there)
    PROVE  Wanted(Tail(q), after, u) <=> Wanted(q, there, u)
<1> DEFINE r == Tail(q)
<1>1. /\ r \in Seq(Cmds) /\ Len(q) \in Nat /\ Len(q) > 0 /\ Len(r) = Len(q) - 1
      /\ \A i \in 1..Len(r) : r[i] = q[i + 1]
      /\ Head(q) = q[1]
  <2> HIDE DEF Cmds
  <2> QED BY HeadTailProperties, EmptySeq, LenProperties
<1> HIDE DEF r
<1>2. \A i \in OfUser(r, u) : i + 1 \in OfUser(q, u)
  BY <1>1 DEF OfUser
<1>3. \A j \in OfUser(q, u) : j # 1 => j - 1 \in OfUser(r, u)
  <2> SUFFICES ASSUME NEW j \in OfUser(q, u), j # 1 PROVE j - 1 \in OfUser(r, u)
    OBVIOUS
  <2>1. j - 1 \in 1..Len(r) /\ (j - 1) + 1 = j
    BY <1>1 DEF OfUser
  <2> QED BY <1>1, <2>1 DEF OfUser
<1>4. CASE OfUser(r, u) # {}
  <2>1. PICK i \in OfUser(r, u) : \A j \in OfUser(r, u) : j <= i
    BY <1>1, <1>4, SomeLast
  <2>2. Wanted(r, after, u) <=> r[i].op = "sub"
    BY <1>1, <2>1, WantedLast
  <2>3. \A j \in OfUser(q, u) : j <= i + 1
    <3> SUFFICES ASSUME NEW j \in OfUser(q, u) PROVE j <= i + 1
      OBVIOUS
    <3>1. i \in Nat /\ i >= 1 /\ j \in Int
      BY DEF OfUser
    <3>2. j # 1 => j - 1 <= i
      BY <1>3, <2>1
    <3> QED BY <3>1, <3>2
  <2>4. Wanted(q, there, u) <=> q[i + 1].op = "sub"
    BY <1>2, <2>1, <2>3, WantedLast
  <2>5. r[i] = q[i + 1]
    BY <1>1 DEF OfUser
  <2> QED BY <2>2, <2>4, <2>5 DEF r
<1>5. CASE OfUser(r, u) = {} /\ Head(q).user = u
  <2>1. 1 \in OfUser(q, u)
    BY <1>1, <1>5 DEF OfUser
  <2>2. \A j \in OfUser(q, u) : j <= 1
    BY <1>3, <1>5
  <2>3. Wanted(q, there, u) <=> q[1].op = "sub"
    BY <2>1, <2>2, WantedLast
  <2>4. Wanted(r, after, u) <=> after
    BY <1>5 DEF Wanted
  <2> QED BY <1>1, <1>5, <2>3, <2>4 DEF r
<1>6. CASE OfUser(r, u) = {} /\ Head(q).user # u
  <2>1. OfUser(q, u) = {}
    BY <1>1, <1>3, <1>6 DEF OfUser
  <2> QED BY <1>6, <2>1 DEF Wanted, r
<1> QED BY <1>4, <1>5, <1>6

-----------------------------------------------------------------------------
(* Presence.                                                                *)

\* User u is in the hands of connection c: signed in, on the way in or out.
Owns(c, u) == session[c] = u \/ SigningIn(c, u) \/ Leaving(c, u)

\* login's look at user.state keeps every other connection out.
OneOwner == \A u \in Users, c, d \in Conns : Owns(c, u) /\ Owns(d, u) => c = d

\* Whoever is on the way out has no session any more.
LeaversSignedOut == \A c \in Conns : pc[c] \in LeaveSteps => session[c] = None

\* From the update in login to the one in loginout the row says online.
AcknowledgedOnline ==
    \A c \in Conns, u \in Users :
        (session[c] = u \/ Leaving(c, u) \/ (pc[c] = "ack" /\ user[c] = u))
            => state[u] = "online"

\* From the insert in login to the erase in loginout the route is there.
OwnersRouted ==
    \A c \in Conns, u \in Users :
        (session[c] = u \/ (SigningIn(c, u) /\ pc[c] # "insert"))
            => UserConnMap[Home[c]][u] = c

\* c has written SUBSCRIBE for u and not yet UNSUBSCRIBE.
Holds(c, u) ==
    session[c] = u \/ (pc[c] \in {"setOnline", "ack", "unsubscribe"} /\ user[c] = u)

\* A server wants the channel of u exactly if one of its connections holds u.
SubscribedByOwner ==
    \A s \in Servers, u \in Users :
        Wanted(cmds[s], s \in subs[u], u) <=> \E c \in Conns : Home[c] = s /\ Holds(c, u)

\* What holds while logins do not overlap and no call has failed.
PresenceParts ==
    /\ OneOwner /\ LeaversSignedOut /\ AcknowledgedOnline /\ OwnersRouted
    /\ SubscribedByOwner
    /\ restarts = 0 => OnlineMeansConnected

\* Clients do not race to sign in the same user, and no call has failed so far.
Undisturbed == SerialLogins /\ faults = 0

\* The invariant: the parts may break once a login overlapped or a call failed.
PresenceInv == Inv /\ (Undisturbed => PresenceParts)

\* If no call has failed after it, this one has not; a call restarts no server.
LEMMA CallsCounted ==
    ASSUME Inv, Fails \/ Works
    PROVE  /\ faults' = 0 => faults = 0 /\ ~ Fails /\ Works
           /\ restarts' = restarts
BY ChatAssumption DEF Inv, TypeOK, HistoryTypes, Fails, Works, boundVars

\* A step that signs nobody in or out and touches no table.
LEMMA QuietPresence ==
    ASSUME PresenceInv, NEW t \in Threads, Fails \/ Works,
           UNCHANGED <<session, UserConnMap, state, cmds, subs>>,
           \A d \in Conns \ {t} : pc'[d] = pc[d] /\ user'[d] = user[d],
           \/ UNCHANGED <<pc, user>>
           \/ pc[t] \notin LoginSteps \cup LeaveSteps /\ pc'[t] \notin LoginSteps \cup LeaveSteps
    PROVE  (Undisturbed => PresenceParts)'
<1> SUFFICES ASSUME Undisturbed' PROVE PresenceParts'
  OBVIOUS
<1>1. PresenceParts /\ restarts' = restarts
  BY CallsCounted DEF PresenceInv, Undisturbed
<1>2. \A c \in Conns, u \in Users : /\ Owns(c, u)' <=> Owns(c, u)
                                    /\ SigningIn(c, u)' <=> SigningIn(c, u)
                                    /\ Leaving(c, u)' <=> Leaving(c, u)
                                    /\ Holds(c, u)' <=> Holds(c, u)
  BY DEF Owns, SigningIn, Leaving, Holds, LoginSteps, LeaveSteps
<1>3. OneOwner'
  BY <1>1, <1>2 DEF PresenceParts, OneOwner
<1>4. LeaversSignedOut'
  BY <1>1 DEF PresenceParts, LeaversSignedOut
<1>5. AcknowledgedOnline'
  BY <1>1 DEF PresenceParts, AcknowledgedOnline, Leaving, LoginSteps, LeaveSteps
<1>6. OwnersRouted'
  BY <1>1, <1>2 DEF PresenceParts, OwnersRouted, SigningIn
<1>7. SubscribedByOwner'
  BY <1>1, <1>2 DEF PresenceParts, SubscribedByOwner
<1>8. (restarts = 0 => OnlineMeansConnected)'
  BY <1>1, <1>2 DEF PresenceParts, OnlineMeansConnected
<1> QED BY <1>3, <1>4, <1>5, <1>6, <1>7, <1>8 DEF PresenceParts

\* The steps of a login, of a logout, of a lost connection and of Redis, one by
\* one.
LEMMA LoginQueryPresence ==
    ASSUME PresenceInv, NEW c \in Conns, NEW u \in Users, LoginQuery(c, u), Undisturbed'
    PROVE  PresenceParts'
<1> USE DEF LoginSteps, LeaveSteps, Goto
<1>1. /\ PresenceParts /\ SerialLogins /\ faults' = faults
      /\ UNCHANGED <<session, UserConnMap, state, cmds, subs, restarts>>
  BY DEF PresenceInv, Undisturbed, LoginQuery, clientVars, mapVars, dbVars, redisVars, boundVars
<1>2. /\ session[c] = None /\ pc[c] = "idle"
      /\ pc'[c] = "insert" /\ user'[c] = u
      /\ \A d \in Conns \ {c} : pc'[d] = pc[d] /\ user'[d] = user[d]
  BY ThreadFacts DEF LoginQuery, Idle, PresenceInv, Inv, TypeOK, ProcessTypes
<1>3. \A d \in Conns : ~ Owns(d, u)
  BY <1>1, <1>2, ThreadFacts DEF LoginQuery, Owns, SigningIn, Leaving, PresenceParts, AcknowledgedOnline
<1>4. \A d \in Conns, v \in Users : Owns(d, v)' => Owns(d, v) \/ (d = c /\ v = u)
  BY <1>1, <1>2, ThreadFacts DEF Owns, SigningIn, Leaving
<1>5. \A d \in Conns, v \in Users : Holds(d, v)' <=> Holds(d, v)
  BY <1>1, <1>2, ThreadFacts DEF Holds
<1>6. OneOwner'
  BY <1>1, <1>3, <1>4 DEF PresenceParts, OneOwner
<1>7. LeaversSignedOut'
  BY <1>1, <1>2 DEF PresenceParts, LeaversSignedOut
<1>8. AcknowledgedOnline'
  BY <1>1, <1>2, ThreadFacts DEF PresenceParts, AcknowledgedOnline, Leaving
<1>9. OwnersRouted'
  BY <1>1, <1>2, ThreadFacts DEF PresenceParts, OwnersRouted, SigningIn
<1>10. SubscribedByOwner'
  BY <1>1, <1>5 DEF PresenceParts, SubscribedByOwner
<1>11. (restarts = 0 => OnlineMeansConnected)'
  BY <1>1, <1>2 DEF PresenceParts, OnlineMeansConnected, SigningIn, Leaving
<1> QED BY <1>6, <1>7, <1>8, <1>9, <1>10, <1>11 DEF PresenceParts

\* The facts every step of a handler starts from: what it changes of c alone.
OnlyOf(c) ==
    \A d \in Conns \ {c} : pc'[d] = pc[d] /\ user'[d] = user[d] /\ session'[d] = session[d]

LEMMA LoginInsertPresence ==
    ASSUME PresenceInv, NEW c \in Conns, LoginInsert(c), Undisturbed'
    PROVE  PresenceParts'
<1> USE DEF LoginSteps, LeaveSteps, Goto
<1> DEFINE u == user[c]
<1>1. /\ PresenceParts
      /\ UNCHANGED <<session, user, state, cmds, subs, restarts>>
  BY DEF PresenceInv, Undisturbed, LoginInsert, clientVars, localVars, dbVars, redisVars, boundVars
<1>2. /\ u \in Users /\ session[c] = None /\ pc[c] = "insert" /\ pc'[c] = "subscribe"
      /\ \A d \in Conns \ {c} : pc'[d] = pc[d]
      /\ Owns(c, u)
  BY ThreadFacts DEF LoginInsert, PresenceInv, Inv, TypeOK, ProcessTypes, LocalsSet, UserSteps,
                     LoginsFresh, Owns, SigningIn
<1>3. \A d \in Conns, v \in Users : Owns(d, v)' <=> Owns(d, v)
  BY <1>1, <1>2, ThreadFacts DEF Owns, SigningIn, Leaving
<1>4. \A d \in Conns, v \in Users : Holds(d, v)' <=> Holds(d, v)
  BY <1>1, <1>2, ThreadFacts DEF Holds
<1>5. UserConnMap' = [UserConnMap EXCEPT ![Home[c]][u] = c]
  <2>1. UserConnMap[Home[c]][u] \in {None, c}
    BY <1>1, <1>2, ThreadFacts DEF PresenceParts, OneOwner, Owns, PresenceInv, Inv, TypeOK,
                                   ProcessTypes, RoutesMatchSessions
  <2> QED BY <1>2, <2>1 DEF LoginInsert
<1>6. OneOwner'
  BY <1>1, <1>3 DEF PresenceParts, OneOwner
<1>7. LeaversSignedOut'
  BY <1>1, <1>2 DEF PresenceParts, LeaversSignedOut
<1>8. AcknowledgedOnline'
  BY <1>1, <1>2, ThreadFacts DEF PresenceParts, AcknowledgedOnline, Leaving
<1>9. OwnersRouted'
  <2> SUFFICES ASSUME NEW d \in Conns, NEW v \in Users,
                      session[d] = v \/ (SigningIn(d, v)' /\ pc'[d] # "insert")
               PROVE  UserConnMap'[Home[d]][v] = d
    BY <1>1 DEF OwnersRouted
  <2>1. UserConnMap \in [Servers -> [Users -> Conns \cup {None}]]
    BY DEF PresenceInv, Inv, TypeOK, ProcessTypes
  <2>2. CASE d = c
    BY <1>1, <1>2, <1>5, <2>1, <2>2, ThreadFacts DEF SigningIn
  <2>3. CASE d # c
    <3>1. UserConnMap[Home[d]][v] = d
      BY <1>1, <1>2, <2>3 DEF PresenceParts, OwnersRouted, SigningIn
    <3>2. Owns(d, v) /\ v # u
      BY <1>1, <1>2, <2>3 DEF Owns, SigningIn, PresenceParts, OneOwner
    <3> QED BY <1>5, <2>1, <3>1, <3>2, ThreadFacts
  <2> QED BY <2>2, <2>3
<1>10. SubscribedByOwner'
  BY <1>1, <1>4 DEF PresenceParts, SubscribedByOwner
<1>11. (restarts = 0 => OnlineMeansConnected)'
  BY <1>1, <1>2 DEF PresenceParts, OnlineMeansConnected, SigningIn, Leaving
<1> QED BY <1>6, <1>7, <1>8, <1>9, <1>10, <1>11 DEF PresenceParts

\* A command of s for u, and for nobody else, is written.
LEMMA CommandWritten ==
    ASSUME Inv, NEW s \in Servers, NEW u \in Users, NEW op \in {"sub", "unsub"},
           WriteCommand(s, op, u), faults' = 0, UNCHANGED subs
    PROVE  /\ faults = 0 /\ restarts' = restarts
           /\ Wanted(cmds'[s], s \in subs'[u], u) <=> op = "sub"
           /\ \A r \in Servers, v \in Users :
                  r # s \/ v # u => (Wanted(cmds'[r], r \in subs'[v], v)
                                        <=> Wanted(cmds[r], r \in subs[v], v))
<1> DEFINE n == [op |-> op, user |-> u]
<1>1. /\ faults = 0 /\ restarts' = restarts
      /\ cmds' = [cmds EXCEPT ![s] = Append(@, n)]
  BY CallsCounted DEF WriteCommand
<1>2. cmds \in [Servers -> Seq(Cmds)] /\ n \in Cmds
  BY DEF Inv, TypeOK, StoreTypes, Cmds
<1> HIDE DEF n
<1>3. cmds'[s] = Append(cmds[s], n) /\ \A r \in Servers \ {s} : cmds'[r] = cmds[r]
  BY <1>1, <1>2
<1>4. n.user = u /\ n.op = op
  BY DEF n
<1>5. Wanted(cmds'[s], s \in subs'[u], u) <=> op = "sub"
  BY <1>2, <1>3, <1>4, WantedAppendOwn
<1>6. ASSUME NEW v \in Users, v # u
      PROVE  Wanted(cmds'[s], s \in subs'[v], v) <=> Wanted(cmds[s], s \in subs[v], v)
  BY <1>2, <1>3, <1>4, <1>6, WantedAppendOther
<1> QED BY <1>1, <1>3, <1>5, <1>6

LEMMA LoginSubscribePresence ==
    ASSUME PresenceInv, NEW c \in Conns, LoginSubscribe(c), Undisturbed'
    PROVE  PresenceParts'
<1> USE DEF LoginSteps, LeaveSteps, Goto
<1> DEFINE u == user[c]
           s == Home[c]
<1>1. /\ u \in Users /\ s \in Servers /\ session[c] = None
      /\ pc[c] = "subscribe" /\ pc'[c] = "setOnline"
      /\ \A d \in Conns \ {c} : pc'[d] = pc[d]
      /\ Owns(c, u) /\ faults' = 0
      /\ UNCHANGED <<session, user, UserConnMap, state, subs>>
  BY ThreadFacts DEF LoginSubscribe, PresenceInv, Inv, TypeOK, ProcessTypes, LocalsSet, UserSteps,
                     LoginsFresh, Owns, SigningIn, Undisturbed, clientVars, localVars, mapVars, dbVars
<1>2. /\ PresenceParts /\ restarts' = restarts
      /\ Wanted(cmds'[s], s \in subs'[u], u)
      /\ \A r \in Servers, v \in Users :
             r # s \/ v # u => (Wanted(cmds'[r], r \in subs'[v], v)
                                   <=> Wanted(cmds[r], r \in subs[v], v))
  BY <1>1, CommandWritten DEF LoginSubscribe, PresenceInv, Undisturbed
<1>3. \A d \in Conns, v \in Users : Owns(d, v)' <=> Owns(d, v)
  BY <1>1, ThreadFacts DEF Owns, SigningIn, Leaving
<1>4. \A d \in Conns, v \in Users : Holds(d, v)' <=> Holds(d, v) \/ (d = c /\ v = u)
  BY <1>1, ThreadFacts DEF Holds
<1>6. OneOwner'
  BY <1>2, <1>3 DEF PresenceParts, OneOwner
<1>7. LeaversSignedOut'
  BY <1>1, <1>2 DEF PresenceParts, LeaversSignedOut
<1>8. AcknowledgedOnline'
  BY <1>1, <1>2, ThreadFacts DEF PresenceParts, AcknowledgedOnline, Leaving
<1>9. OwnersRouted'
  BY <1>1, <1>2, ThreadFacts DEF PresenceParts, OwnersRouted, SigningIn
<1>10. SubscribedByOwner'
  BY <1>1, <1>2, <1>4 DEF PresenceParts, SubscribedByOwner
<1>11. (restarts = 0 => OnlineMeansConnected)'
  BY <1>1, <1>2 DEF PresenceParts, OnlineMeansConnected, SigningIn, Leaving
<1> QED BY <1>6, <1>7, <1>8, <1>9, <1>10, <1>11 DEF PresenceParts

LEMMA LoginSetOnlinePresence ==
    ASSUME PresenceInv, NEW c \in Conns, LoginSetOnline(c), Undisturbed'
    PROVE  PresenceParts'
<1> USE DEF LoginSteps, LeaveSteps, Goto
<1> DEFINE u == user[c]
<1>1. /\ PresenceParts
      /\ UNCHANGED <<session, user, UserConnMap, cmds, subs, restarts>>
      /\ state' = [state EXCEPT ![u] = "online"]
  BY CallsCounted DEF PresenceInv, Undisturbed, LoginSetOnline, clientVars, localVars, mapVars, redisVars
<1>2. /\ u \in Users /\ session[c] = None /\ pc[c] = "setOnline" /\ pc'[c] = "ack"
      /\ \A d \in Conns \ {c} : pc'[d] = pc[d]
      /\ Owns(c, u)
      /\ state' \in [Users -> {"online", "offline"}] /\ state \in [Users -> {"online", "offline"}]
  BY <1>1, ThreadFacts DEF LoginSetOnline, PresenceInv, Inv, TypeOK, ProcessTypes, StoreTypes, LocalsSet, UserSteps,
                     LoginsFresh, Owns, SigningIn
<1>3. \A d \in Conns, v \in Users : Owns(d, v)' <=> Owns(d, v)
  BY <1>1, <1>2, ThreadFacts DEF Owns, SigningIn, Leaving
<1>4. \A d \in Conns, v \in Users : Holds(d, v)' <=> Holds(d, v)
  BY <1>1, <1>2, ThreadFacts DEF Holds
<1>6. OneOwner'
  BY <1>1, <1>3 DEF PresenceParts, OneOwner
<1>7. LeaversSignedOut'
  BY <1>1, <1>2 DEF PresenceParts, LeaversSignedOut
<1>8. AcknowledgedOnline'
  BY <1>1, <1>2, ThreadFacts DEF PresenceParts, AcknowledgedOnline, Leaving
<1>9. OwnersRouted'
  BY <1>1, <1>2, ThreadFacts DEF PresenceParts, OwnersRouted, SigningIn
<1>10. SubscribedByOwner'
  BY <1>1, <1>4 DEF PresenceParts, SubscribedByOwner
<1>11. (restarts = 0 => OnlineMeansConnected)'
  <2> SUFFICES ASSUME restarts = 0, NEW v \in Users, state'[v] = "online"
               PROVE  \E d \in Conns : Owns(d, v)
    BY <1>1, <1>3 DEF OnlineMeansConnected, Owns
  <2>1. CASE v = u
    BY <1>2, <2>1
  <2>2. CASE v # u
    BY <1>1, <1>2, <2>2 DEF PresenceParts, OnlineMeansConnected, Owns
  <2> QED BY <2>1, <2>2
<1> QED BY <1>6, <1>7, <1>8, <1>9, <1>10, <1>11 DEF PresenceParts

LEMMA LoginAckPresence ==
    ASSUME PresenceInv, NEW c \in Conns, LoginAck(c), Undisturbed'
    PROVE  PresenceParts'
<1> USE DEF LoginSteps, LeaveSteps, Goto
<1> DEFINE u == user[c]
<1>1. /\ PresenceParts
      /\ UNCHANGED <<UserConnMap, state, cmds, subs, restarts>>
  BY DEF PresenceInv, Undisturbed, LoginAck, mapVars, dbVars, redisVars, boundVars
<1>2. /\ u \in Users /\ session[c] = None /\ session'[c] = u
      /\ pc[c] = "ack" /\ pc'[c] = "idle" /\ user'[c] = None
      /\ OnlyOf(c)
  BY ThreadFacts DEF LoginAck, Forget, PresenceInv, Inv, TypeOK, ProcessTypes, LocalsSet, UserSteps,
                     LoginsFresh, OnlyOf
<1>3. \A d \in Conns, v \in Users : Owns(d, v)' <=> Owns(d, v)
  BY <1>2, ThreadFacts DEF Owns, SigningIn, Leaving, OnlyOf
<1>4. \A d \in Conns, v \in Users : Holds(d, v)' <=> Holds(d, v)
  BY <1>2, ThreadFacts DEF Holds, OnlyOf
<1>6. OneOwner'
  BY <1>1, <1>3 DEF PresenceParts, OneOwner
<1>7. LeaversSignedOut'
  BY <1>1, <1>2 DEF PresenceParts, LeaversSignedOut, OnlyOf
<1>8. AcknowledgedOnline'
  BY <1>1, <1>2, ThreadFacts DEF PresenceParts, AcknowledgedOnline, Leaving, OnlyOf
<1>9. OwnersRouted'
  BY <1>1, <1>2, ThreadFacts DEF PresenceParts, OwnersRouted, SigningIn, OnlyOf
<1>10. SubscribedByOwner'
  BY <1>1, <1>4 DEF PresenceParts, SubscribedByOwner
<1>11. (restarts = 0 => OnlineMeansConnected)'
  BY <1>1, <1>3 DEF PresenceParts, OnlineMeansConnected, Owns
<1> QED BY <1>6, <1>7, <1>8, <1>9, <1>10, <1>11 DEF PresenceParts

\* The entry of the user who leaves is erased; his row and his subscription stay.
LEMMA LeavePresence ==
    ASSUME PresenceInv, NEW c \in Conns, NEW u \in Users,
           session[c] = u, session'[c] = None, pc[c] \notin LoginSteps \cup LeaveSteps,
           pc'[c] = "unsubscribe", user'[c] = u, OnlyOf(c),
           UserConnMap' = [UserConnMap EXCEPT ![Home[c]][u] = None],
           UNCHANGED <<state, cmds, subs, faults, restarts>>, Undisturbed'
    PROVE  PresenceParts'
<1> USE DEF LoginSteps, LeaveSteps, OnlyOf
<1>1. PresenceParts
  BY DEF PresenceInv, Undisturbed
<1>2. \A d \in Conns, v \in Users : Owns(d, v)' <=> Owns(d, v)
  BY ThreadFacts DEF Owns, SigningIn, Leaving
<1>3. \A d \in Conns, v \in Users : Holds(d, v)' <=> Holds(d, v)
  BY ThreadFacts DEF Holds
<1>4. Owns(c, u)
  BY DEF Owns
<1>5. OneOwner'
  BY <1>1, <1>2 DEF PresenceParts, OneOwner
<1>6. LeaversSignedOut'
  BY <1>1 DEF PresenceParts, LeaversSignedOut
<1>7. AcknowledgedOnline'
  BY <1>1, ThreadFacts DEF PresenceParts, AcknowledgedOnline, Leaving
<1>8. OwnersRouted'
  <2> SUFFICES ASSUME NEW d \in Conns, NEW v \in Users,
                      session'[d] = v \/ (SigningIn(d, v)' /\ pc'[d] # "insert")
               PROVE  UserConnMap'[Home[d]][v] = d
    BY DEF OwnersRouted
  <2>1. d # c
    BY ThreadFacts DEF SigningIn
  <2>2. UserConnMap[Home[d]][v] = d
    BY <1>1, <2>1 DEF PresenceParts, OwnersRouted, SigningIn
  <2>3. Owns(d, v) /\ v # u
    BY <1>1, <1>4, <2>1 DEF Owns, SigningIn, PresenceParts, OneOwner
  <2>4. UserConnMap \in [Servers -> [Users -> Conns \cup {None}]]
    BY DEF PresenceInv, Inv, TypeOK, ProcessTypes
  <2> QED BY <2>2, <2>3, <2>4, ThreadFacts
<1>9. SubscribedByOwner'
  BY <1>1, <1>3 DEF PresenceParts, SubscribedByOwner
<1>10. (restarts = 0 => OnlineMeansConnected)'
  BY <1>1, <1>2 DEF PresenceParts, OnlineMeansConnected, Owns
<1> QED BY <1>5, <1>6, <1>7, <1>8, <1>9, <1>10 DEF PresenceParts

LEMMA LogoutPresence ==
    ASSUME PresenceInv, NEW c \in Conns, Logout(c), Undisturbed'
    PROVE  PresenceParts'
<1> DEFINE u == session[c]
<1>1. u \in Users
  BY DEF Logout, PresenceInv, Inv, TypeOK, ProcessTypes
<1>2. /\ pc[c] = "idle" /\ pc'[c] = "unsubscribe"
      /\ user'[c] = u /\ session'[c] = None /\ OnlyOf(c)
      /\ UserConnMap' = [UserConnMap EXCEPT ![Home[c]][u] = None]
      /\ UNCHANGED <<state, cmds, subs, faults, restarts>>
  BY ThreadFacts DEF Logout, Idle, Goto, OnlyOf, PresenceInv, Inv, TypeOK, ProcessTypes,
                     dbVars, redisVars, boundVars
<1>3. pc[c] \notin LoginSteps \cup LeaveSteps
  BY <1>2 DEF LoginSteps, LeaveSteps
<1> QED BY <1>1, <1>2, <1>3, LeavePresence

LEMMA CloseErasePresence ==
    ASSUME PresenceInv, NEW c \in Conns, CloseErase(c), Undisturbed'
    PROVE  PresenceParts'
<1>1. /\ PresenceParts /\ pc[c] = "closeErase"
      /\ UNCHANGED <<state, cmds, subs, faults, restarts>>
      /\ session'[c] = None
      /\ \A d \in Conns \ {c} : session'[d] = session[d]
  BY DEF CloseErase, PresenceInv, Inv, TypeOK, ProcessTypes, Undisturbed, dbVars, redisVars, boundVars
<1>2. pc[c] \notin LoginSteps \cup LeaveSteps
  BY <1>1 DEF LoginSteps, LeaveSteps
<1>3. CASE \E u \in Users : /\ UserConnMap[Home[c]][u] = c
                            /\ UserConnMap' = [UserConnMap EXCEPT ![Home[c]][u] = None]
                            /\ user' = [user EXCEPT ![c] = u]
                            /\ Goto(c, "unsubscribe")
  <2>1. PICK u \in Users : /\ UserConnMap[Home[c]][u] = c
                           /\ UserConnMap' = [UserConnMap EXCEPT ![Home[c]][u] = None]
                           /\ user' = [user EXCEPT ![c] = u]
                           /\ Goto(c, "unsubscribe")
    BY <1>3
  <2>2. session[c] = u
    BY <1>2, <2>1, ThreadFacts DEF PresenceInv, Inv, RoutesMatchSessions, SigningIn
  <2>3. user'[c] = u /\ pc'[c] = "unsubscribe" /\ OnlyOf(c)
    BY <1>1, <2>1, ThreadFacts DEF OnlyOf, Goto, PresenceInv, Inv, TypeOK, ProcessTypes
  <2> QED BY <1>1, <1>2, <2>1, <2>2, <2>3, LeavePresence
<1>4. CASE /\ \A u \in Users : UserConnMap[Home[c]][u] # c
           /\ Goto(c, "idle")
           /\ UNCHANGED <<UserConnMap, user>>
  <2>1. session[c] = None
    BY <1>1, <1>4 DEF PresenceParts, OwnersRouted, PresenceInv, Inv, TypeOK, ProcessTypes
  <2>2. session' = session
    BY <2>1 DEF CloseErase, PresenceInv, Inv, TypeOK, ProcessTypes
  <2>3. /\ pc'[c] = "idle" /\ Works
        /\ \A d \in Conns \ {c} : pc'[d] = pc[d] /\ user'[d] = user[d]
    BY <1>1, <1>4, ThreadFacts DEF Goto, PresenceInv, Inv, TypeOK, ProcessTypes, Works, boundVars
  <2>4. pc'[c] \notin LoginSteps \cup LeaveSteps
    BY <2>3 DEF LoginSteps, LeaveSteps
  <2> QED BY <1>1, <1>2, <1>4, <2>2, <2>3, <2>4, ThreadFacts, QuietPresence
<1> QED BY <1>3, <1>4 DEF CloseErase

LEMMA UnsubscribePresence ==
    ASSUME PresenceInv, NEW c \in Conns, Unsubscribe(c), Undisturbed'
    PROVE  PresenceParts'
<1> USE DEF LoginSteps, LeaveSteps, Goto
<1> DEFINE u == user[c]
           s == Home[c]
<1>1. /\ u \in Users /\ s \in Servers
      /\ pc[c] = "unsubscribe" /\ pc'[c] = "setOffline"
      /\ \A d \in Conns \ {c} : pc'[d] = pc[d]
      /\ Owns(c, u) /\ faults' = 0
      /\ UNCHANGED <<session, user, UserConnMap, state, subs>>
  BY ThreadFacts DEF Unsubscribe, PresenceInv, Inv, TypeOK, ProcessTypes, LocalsSet, UserSteps,
                     Owns, Leaving, Undisturbed, clientVars, localVars, mapVars, dbVars
<1>2. /\ PresenceParts /\ restarts' = restarts
      /\ ~ Wanted(cmds'[s], s \in subs'[u], u)
      /\ \A r \in Servers, v \in Users :
             r # s \/ v # u => (Wanted(cmds'[r], r \in subs'[v], v)
                                   <=> Wanted(cmds[r], r \in subs[v], v))
  BY <1>1, CommandWritten DEF Unsubscribe, PresenceInv, Undisturbed
<1>3. session[c] = None
  BY <1>1, <1>2 DEF PresenceParts, LeaversSignedOut
<1>4. \A d \in Conns, v \in Users : Owns(d, v)' <=> Owns(d, v)
  BY <1>1, ThreadFacts DEF Owns, SigningIn, Leaving
<1>5. \A d \in Conns, v \in Users : Holds(d, v)' <=> Holds(d, v) /\ ~ (d = c /\ v = u)
  BY <1>1, <1>3, ThreadFacts DEF Holds
<1>6. \A d \in Conns : Holds(d, u) => d = c
  <2>1. \A d \in Conns : Holds(d, u) => Owns(d, u)
    BY DEF Holds, Owns, SigningIn, Leaving
  <2> QED BY <1>1, <1>2, <2>1 DEF PresenceParts, OneOwner
<1>7. OneOwner'
  BY <1>2, <1>4 DEF PresenceParts, OneOwner
<1>8. LeaversSignedOut'
  BY <1>1, <1>2 DEF PresenceParts, LeaversSignedOut
<1>9. AcknowledgedOnline'
  BY <1>1, <1>2, ThreadFacts DEF PresenceParts, AcknowledgedOnline, Leaving
<1>10. OwnersRouted'
  BY <1>1, <1>2, ThreadFacts DEF PresenceParts, OwnersRouted, SigningIn
<1>11. SubscribedByOwner'
  <2> SUFFICES ASSUME NEW r \in Servers, NEW v \in Users
               PROVE  Wanted(cmds'[r], r \in subs'[v], v)
                          <=> \E d \in Conns : Home[d] = r /\ Holds(d, v)'
    BY DEF SubscribedByOwner
  <2>1. CASE r = s /\ v = u
    BY <1>2, <1>5, <1>6, <2>1
  <2>2. CASE r # s \/ v # u
    BY <1>2, <1>5, <2>2 DEF PresenceParts, SubscribedByOwner
  <2> QED BY <2>1, <2>2
<1>12. (restarts = 0 => OnlineMeansConnected)'
  BY <1>1, <1>2, <1>4 DEF PresenceParts, OnlineMeansConnected, Owns
<1> QED BY <1>7, <1>8, <1>9, <1>10, <1>11, <1>12 DEF PresenceParts

LEMMA SetOfflinePresence ==
    ASSUME PresenceInv, NEW c \in Conns, SetOffline(c), Undisturbed'
    PROVE  PresenceParts'
<1> USE DEF LoginSteps, LeaveSteps, Goto
<1> DEFINE u == user[c]
<1>1. /\ PresenceParts
      /\ UNCHANGED <<session, UserConnMap, cmds, subs, restarts>>
      /\ state' = [state EXCEPT ![u] = "offline"]
  BY CallsCounted DEF PresenceInv, Undisturbed, SetOffline, clientVars, mapVars, redisVars
<1>2. /\ u \in Users /\ session[c] = None /\ pc[c] = "setOffline" /\ pc'[c] = "idle"
      /\ OnlyOf(c) /\ user'[c] = None
      /\ Owns(c, u)
      /\ state' \in [Users -> {"online", "offline"}] /\ state \in [Users -> {"online", "offline"}]
  BY <1>1, ThreadFacts DEF SetOffline, Forget, PresenceInv, Inv, TypeOK, ProcessTypes, StoreTypes, LocalsSet, UserSteps,
                     PresenceParts, LeaversSignedOut, Owns, Leaving, OnlyOf
<1>3. \A d \in Conns, v \in Users : Owns(d, v)' <=> Owns(d, v) /\ ~ (d = c /\ v = u)
  BY <1>1, <1>2, ThreadFacts DEF Owns, SigningIn, Leaving, OnlyOf
<1>4. \A d \in Conns, v \in Users : Holds(d, v)' <=> Holds(d, v)
  BY <1>1, <1>2, ThreadFacts DEF Holds, OnlyOf
<1>5. \A d \in Conns \ {c} : ~ Owns(d, u)
  BY <1>1, <1>2 DEF PresenceParts, OneOwner
<1>6. OneOwner'
  BY <1>1, <1>3 DEF PresenceParts, OneOwner
<1>7. LeaversSignedOut'
  BY <1>1, <1>2 DEF PresenceParts, LeaversSignedOut, OnlyOf
<1>8. AcknowledgedOnline'
  <2> SUFFICES ASSUME NEW d \in Conns, NEW v \in Users,
                      session[d] = v \/ Leaving(d, v)' \/ (pc'[d] = "ack" /\ user'[d] = v)
               PROVE  state'[v] = "online"
    BY <1>1 DEF AcknowledgedOnline
  <2>1. d # c
    BY <1>2, ThreadFacts DEF Leaving
  <2>2. session[d] = v \/ Leaving(d, v) \/ (pc[d] = "ack" /\ user[d] = v)
    BY <1>2, <2>1 DEF Leaving, OnlyOf
  <2>3. state[v] = "online" /\ Owns(d, v)
    BY <1>1, <2>2 DEF PresenceParts, AcknowledgedOnline, Owns, SigningIn
  <2> QED BY <1>1, <1>2, <1>5, <2>1, <2>3
<1>9. OwnersRouted'
  BY <1>1, <1>2, ThreadFacts DEF PresenceParts, OwnersRouted, SigningIn, OnlyOf
<1>10. SubscribedByOwner'
  BY <1>1, <1>4 DEF PresenceParts, SubscribedByOwner
<1>11. (restarts = 0 => OnlineMeansConnected)'
  <2> SUFFICES ASSUME restarts = 0, NEW v \in Users, state'[v] = "online"
               PROVE  \E d \in Conns : Owns(d, v)'
    BY <1>1 DEF OnlineMeansConnected, Owns
  <2>1. v # u /\ state[v] = "online"
    BY <1>1, <1>2
  <2> QED BY <1>1, <1>3, <2>1 DEF PresenceParts, OnlineMeansConnected, Owns
<1> QED BY <1>6, <1>7, <1>8, <1>9, <1>10, <1>11 DEF PresenceParts

LEMMA BrokerExecutePresence ==
    ASSUME PresenceInv, NEW s \in Servers, BrokerExecute(s), Undisturbed'
    PROVE  PresenceParts'
<1>1. /\ PresenceParts
      /\ UNCHANGED <<session, pc, user, UserConnMap, state, restarts>>
  BY DEF PresenceInv, Undisturbed, BrokerExecute, clientVars, localVars, mapVars, dbVars, boundVars
<1>2. /\ cmds \in [Servers -> Seq(Cmds)] /\ subs \in [Users -> SUBSET Servers]
      /\ cmds[s] # <<>> /\ Head(cmds[s]) \in Cmds
  <2>1. cmds \in [Servers -> Seq(Cmds)] /\ cmds[s] # <<>> /\ subs \in [Users -> SUBSET Servers]
    BY DEF PresenceInv, Inv, TypeOK, StoreTypes, BrokerExecute, Cmds
  <2> HIDE DEF Cmds
  <2> QED BY <2>1, HeadTailProperties
<1> DEFINE cmd == Head(cmds[s])
<1>3. \A v \in Users, r \in Servers :
          /\ r # s \/ v # cmd.user => (r \in subs'[v] <=> r \in subs[v])
          /\ r = s /\ v = cmd.user => (r \in subs'[v] <=> cmd.op = "sub")
  BY <1>2 DEF BrokerExecute, Cmds
<1>4. cmds'[s] = Tail(cmds[s]) /\ \A r \in Servers \ {s} : cmds'[r] = cmds[r]
  BY <1>2 DEF BrokerExecute
<1>5. ASSUME NEW r \in Servers, NEW v \in Users
      PROVE  Wanted(cmds'[r], r \in subs'[v], v) <=> Wanted(cmds[r], r \in subs[v], v)
  <2>1. CASE r = s
    <3>1. /\ cmds[s] \in Seq(Cmds) /\ cmds[s] # <<>>
          /\ cmd.user = v => (s \in subs'[v] <=> cmd.op = "sub")
          /\ cmd.user # v => (s \in subs'[v] <=> s \in subs[v])
      BY <1>2, <1>3
    <3>2. Wanted(Tail(cmds[s]), s \in subs'[v], v) <=> Wanted(cmds[s], s \in subs[v], v)
      <4> HIDE DEF Cmds
      <4> QED BY <3>1, WantedExecute
    <3> QED BY <1>4, <2>1, <3>2
  <2>2. CASE r # s
    BY <1>3, <1>4, <2>2 DEF Wanted
  <2> QED BY <2>1, <2>2
<1>6. SubscribedByOwner'
  BY <1>1, <1>5 DEF PresenceParts, SubscribedByOwner, Holds
<1> QED BY <1>1, <1>6 DEF PresenceParts, OneOwner, LeaversSignedOut, AcknowledgedOnline, OwnersRouted,
                          OnlineMeansConnected, Owns, SigningIn, Leaving

\* A restart takes every route, session and subscription of its server with it,
\* and leaves the table as it is.
LEMMA RestartPresence ==
    ASSUME PresenceInv, NEW s \in Servers, Restart(s), Undisturbed'
    PROVE  PresenceParts'
<1> USE DEF LoginSteps, LeaveSteps
<1>1. /\ PresenceParts /\ state' = state /\ restarts' # 0
  BY ChatAssumption DEF PresenceInv, Inv, TypeOK, HistoryTypes, Undisturbed, Restart, ResetState, IdIsOnline,
     StoreTypes
<1>2. \A c \in Conns :
          /\ Home[c] = s => pc'[c] = "idle" /\ user'[c] = None /\ session'[c] = None
          /\ Home[c] # s => pc'[c] = pc[c] /\ user'[c] = user[c] /\ session'[c] = session[c]
  BY ThreadFacts DEF Restart, PresenceInv, Inv, TypeOK, ProcessTypes, Threads
<1>3. /\ UserConnMap' = [UserConnMap EXCEPT ![s] = [u \in Users |-> None]]
      /\ UserConnMap \in [Servers -> [Users -> Conns \cup {None}]]
  BY DEF Restart, PresenceInv, Inv, TypeOK, ProcessTypes
<1>4. \A d \in Conns, v \in Users : Owns(d, v)' <=> Owns(d, v) /\ Home[d] # s
  BY <1>2, ThreadFacts DEF Owns, SigningIn, Leaving
<1>5. \A d \in Conns, v \in Users : Holds(d, v)' <=> Holds(d, v) /\ Home[d] # s
  BY <1>2, ThreadFacts DEF Holds
<1>6. OneOwner'
  BY <1>1, <1>4 DEF PresenceParts, OneOwner
<1>7. LeaversSignedOut'
  BY <1>1, <1>2 DEF PresenceParts, LeaversSignedOut
<1>8. AcknowledgedOnline'
  BY <1>1, <1>2, ThreadFacts DEF PresenceParts, AcknowledgedOnline, Leaving
<1>9. OwnersRouted'
  BY <1>1, <1>2, <1>3, ThreadFacts DEF PresenceParts, OwnersRouted, SigningIn
<1>10. SubscribedByOwner'
  <2> SUFFICES ASSUME NEW r \in Servers, NEW v \in Users
               PROVE  Wanted(cmds'[r], r \in subs'[v], v)
                          <=> \E d \in Conns : Home[d] = r /\ Holds(d, v)'
    BY DEF SubscribedByOwner
  <2>1. /\ cmds' = [cmds EXCEPT ![s] = <<>>] /\ cmds \in [Servers -> Seq(Cmds)]
        /\ subs'[v] = subs[v] \ {s}
    BY DEF Restart, PresenceInv, Inv, TypeOK, StoreTypes, Cmds
  <2>2. CASE r = s
    <3>1. cmds'[r] = <<>> /\ r \notin subs'[v]
      BY <2>1, <2>2
    <3>2. ~ Wanted(cmds'[r], r \in subs'[v], v)
      BY <3>1 DEF Wanted, OfUser
    <3> QED BY <1>5, <2>2, <3>2
  <2>3. CASE r # s
    <3>1. cmds'[r] = cmds[r] /\ (r \in subs'[v] <=> r \in subs[v])
      BY <2>1, <2>3
    <3>2. Wanted(cmds'[r], r \in subs'[v], v) <=> Wanted(cmds[r], r \in subs[v], v)
      BY <3>1 DEF Wanted
    <3> QED BY <1>1, <1>5, <2>3, <3>2 DEF PresenceParts, SubscribedByOwner
  <2> QED BY <2>2, <2>3
<1> QED BY <1>1, <1>6, <1>7, <1>8, <1>9, <1>10 DEF PresenceParts

\* Every step keeps the parts.
LEMMA PresenceStep ==
    ASSUME PresenceInv, [Next]_vars
    PROVE  (Undisturbed => PresenceParts)'
<1> USE DEF PresenceInv, Inv, TypeOK, ProcessTypes, Goto, LoginSteps, LeaveSteps, clientVars, localVars, mapVars, dbVars, redisVars, historyVars, boundVars
<1>1. ASSUME NEW c \in Conns, Accept(c)
      PROVE  (Undisturbed => PresenceParts)'
  BY <1>1, ThreadFacts, QuietPresence DEF Accept, Works
<1>2. ASSUME NEW c \in Conns, Close(c)
      PROVE  (Undisturbed => PresenceParts)'
  BY <1>2, ThreadFacts, QuietPresence DEF Close, Idle, Works
<1>3. ASSUME NEW c \in Conns, CloseErase(c)
      PROVE  (Undisturbed => PresenceParts)'
  <2> HIDE DEF PresenceInv
  <2> QED BY <1>3, CloseErasePresence
<1>4. ASSUME NEW c \in Conns, NEW u \in Users, LoginQuery(c, u)
      PROVE  (Undisturbed => PresenceParts)'
  <2> HIDE DEF PresenceInv
  <2> QED BY <1>4, LoginQueryPresence
<1>5. ASSUME NEW c \in Conns, LoginInsert(c)
      PROVE  (Undisturbed => PresenceParts)'
  <2> HIDE DEF PresenceInv
  <2> QED BY <1>5, LoginInsertPresence
<1>6. ASSUME NEW c \in Conns, LoginSubscribe(c)
      PROVE  (Undisturbed => PresenceParts)'
  <2> HIDE DEF PresenceInv
  <2> QED BY <1>6, LoginSubscribePresence
<1>7. ASSUME NEW c \in Conns, LoginSetOnline(c)
      PROVE  (Undisturbed => PresenceParts)'
  <2> HIDE DEF PresenceInv
  <2> QED BY <1>7, LoginSetOnlinePresence
<1>8. ASSUME NEW c \in Conns, LoginAck(c)
      PROVE  (Undisturbed => PresenceParts)'
  <2> HIDE DEF PresenceInv
  <2> QED BY <1>8, LoginAckPresence
<1>9. ASSUME NEW c \in Conns, Logout(c)
      PROVE  (Undisturbed => PresenceParts)'
  <2> HIDE DEF PresenceInv
  <2> QED BY <1>9, LogoutPresence
<1>10. ASSUME NEW c \in Conns, Unsubscribe(c)
      PROVE  (Undisturbed => PresenceParts)'
  <2> HIDE DEF PresenceInv
  <2> QED BY <1>10, UnsubscribePresence
<1>11. ASSUME NEW c \in Conns, SetOffline(c)
      PROVE  (Undisturbed => PresenceParts)'
  <2> HIDE DEF PresenceInv
  <2> QED BY <1>11, SetOfflinePresence
<1>12. ASSUME NEW c \in Conns, NEW u \in Users, NEW m \in Msgs, OneChat(c, u, m)
      PROVE  (Undisturbed => PresenceParts)'
  BY <1>12, ThreadFacts, QuietPresence DEF OneChat, Idle, Works
<1>13. ASSUME NEW c \in Conns, ChatQuery(c)
      PROVE  (Undisturbed => PresenceParts)'
  BY <1>13, ThreadFacts, QuietPresence DEF ChatQuery, QueryState
<1>14. ASSUME NEW c \in Conns, ChatPublish(c)
      PROVE  (Undisturbed => PresenceParts)'
  BY <1>14, ThreadFacts, QuietPresence DEF ChatPublish, Publish, Forget
<1>15. ASSUME NEW c \in Conns, ChatStore(c)
      PROVE  (Undisturbed => PresenceParts)'
  BY <1>15, ThreadFacts, QuietPresence DEF ChatStore, Store, Forget
<1>16. ASSUME NEW c \in Conns, NEW members \in SUBSET Users, NEW m \in Msgs, GroupQueryUsers(c, members, m)
      PROVE  (Undisturbed => PresenceParts)'
  BY <1>16, ThreadFacts, QuietPresence DEF GroupQueryUsers, Idle
<1>17. ASSUME NEW c \in Conns, GroupLock(c)
      PROVE  (Undisturbed => PresenceParts)'
  BY <1>17, ThreadFacts, QuietPresence DEF GroupLock, Works
<1>18. ASSUME NEW c \in Conns, NEW u \in Users, GroupMember(c, u)
      PROVE  (Undisturbed => PresenceParts)'
  BY <1>18, ThreadFacts, QuietPresence DEF GroupMember, Works
<1>19. ASSUME NEW c \in Conns, GroupQuery(c)
      PROVE  (Undisturbed => PresenceParts)'
  BY <1>19, ThreadFacts, QuietPresence DEF GroupQuery, QueryState
<1>20. ASSUME NEW c \in Conns, GroupPublish(c)
      PROVE  (Undisturbed => PresenceParts)'
  BY <1>20, ThreadFacts, QuietPresence DEF GroupPublish, Publish, NextMember
<1>21. ASSUME NEW c \in Conns, GroupStore(c)
      PROVE  (Undisturbed => PresenceParts)'
  BY <1>21, ThreadFacts, QuietPresence DEF GroupStore, Store, NextMember
<1>22. ASSUME NEW c \in Conns, GroupUnlock(c)
      PROVE  (Undisturbed => PresenceParts)'
  BY <1>22, ThreadFacts, QuietPresence DEF GroupUnlock, Forget, Works
<1>23. ASSUME NEW s \in Servers, BrokerExecute(s)
      PROVE  (Undisturbed => PresenceParts)'
  <2> HIDE DEF PresenceInv
  <2> QED BY <1>23, BrokerExecutePresence
<1>24. ASSUME NEW s \in Servers, Notify(s)
      PROVE  (Undisturbed => PresenceParts)'
  <2>1. /\ UNCHANGED <<session, UserConnMap, state, cmds, subs>> /\ Works
        /\ \A d \in Conns : pc'[d] = pc[d] /\ user'[d] = user[d]
    BY <1>24, ThreadFacts DEF Notify, Works
  <2>2. pc[s] = "idle" /\ pc'[s] \in {"idle", "store"}
    BY <1>24, ThreadFacts DEF Notify
  <2> QED BY <2>1, <2>2, ThreadFacts, QuietPresence
<1>25. ASSUME NEW s \in Servers, NotifyStore(s)
      PROVE  (Undisturbed => PresenceParts)'
  BY <1>25, ThreadFacts, QuietPresence DEF NotifyStore, Store, Forget
<1>26. ASSUME NEW s \in Servers, Restart(s)
      PROVE  (Undisturbed => PresenceParts)'
  <2> HIDE DEF PresenceInv
  <2> QED BY <1>26, RestartPresence
<1>27. CASE UNCHANGED vars
  BY <1>27 DEF vars, Undisturbed, PresenceParts, OneOwner, LeaversSignedOut, AcknowledgedOnline, OwnersRouted, SubscribedByOwner, OnlineMeansConnected, Owns, Holds, SigningIn, Leaving
<1> QED BY <1>1, <1>2, <1>3, <1>4, <1>5, <1>6, <1>7, <1>8, <1>9, <1>10, <1>11, <1>12, <1>13, <1>14, <1>15, <1>16, <1>17, <1>18, <1>19, <1>20, <1>21, <1>22, <1>23, <1>24, <1>25, <1>26, <1>27 DEF Next, Begin, Continue, Server

\* Nobody is signed in at the start.
LEMMA InitPresence == Init => PresenceInv
<1> SUFFICES ASSUME Init PROVE PresenceInv
  OBVIOUS
<1>1. \A c \in Conns, u \in Users :
          /\ session[c] # u /\ session[c] = None /\ pc[c] = "idle"
          /\ ~ Owns(c, u) /\ ~ SigningIn(c, u) /\ ~ Leaving(c, u) /\ ~ Holds(c, u)
  BY ThreadFacts DEF Init, Owns, SigningIn, Leaving, Holds, LoginSteps, LeaveSteps
<1>2. OneOwner /\ AcknowledgedOnline /\ OwnersRouted
  BY <1>1 DEF OneOwner, AcknowledgedOnline, OwnersRouted
<1>3. LeaversSignedOut
  BY DEF Init, LeaversSignedOut
<1>5. SubscribedByOwner
  <2>1. ASSUME NEW s \in Servers, NEW u \in Users
        PROVE  ~ Wanted(cmds[s], s \in subs[u], u)
    <3>1. cmds[s] = <<>> /\ s \notin subs[u]
      BY DEF Init
    <3> QED BY <3>1 DEF Wanted, OfUser
  <2> QED BY <1>1, <2>1 DEF SubscribedByOwner
<1>4. OnlineMeansConnected
  BY DEF Init, OnlineMeansConnected
<1> QED BY <1>2, <1>3, <1>4, <1>5, InitInv DEF PresenceInv, PresenceParts

\* What the table, the maps, the sessions and the subscriptions have to do with
\* each other is inductive.
THEOREM PresenceInvariance == Spec => []PresenceInv
<1>1. PresenceInv /\ [Next]_vars => PresenceInv'
  BY PresenceStep, StepInv DEF PresenceInv
<1> QED BY <1>1, InitPresence, PTL DEF Spec

\* As long as no call has failed, and no two clients race to sign in the same
\* user, login's look at the table keeps every second client out, on whichever
\* server and after any number of restarts (chatservice.cpp:42-47).
THEOREM OneSession == Spec => [](Undisturbed => SingleSession)
<1>1. PresenceInv => (Undisturbed => SingleSession)
  BY DEF PresenceInv, PresenceParts, OneOwner, Owns, SingleSession, SignedIn
<1> QED BY <1>1, PresenceInvariance, PTL

\* Until the first restart a row that says online belongs to a client that is
\* connected or being taken down (chatservice.cpp:42, 124, 164).
THEOREM OnlineIsConnected == Spec => [](Undisturbed /\ restarts = 0 => OnlineMeansConnected)
<1>1. PresenceInv => (Undisturbed /\ restarts = 0 => OnlineMeansConnected)
  BY DEF PresenceInv, PresenceParts
<1> QED BY <1>1, PresenceInvariance, PTL

\* A route belongs to a connection of that server that is, or is being, signed
\* in.
LEMMA RouteHasOwner ==
    ASSUME PresenceInv, NEW s \in Servers, NEW u \in Users, UserConnMap[s][u] # None
    PROVE  /\ UserConnMap[s][u] \in Conns
           /\ Home[UserConnMap[s][u]] = s
           /\ session[UserConnMap[s][u]] = u \/ SigningIn(UserConnMap[s][u], u)
BY DEF PresenceInv, Inv, TypeOK, ProcessTypes, RoutesMatchSessions

\* Until the first restart the table and the maps of all servers agree about every
\* user whom no handler is signing in or out (chatservice.cpp:50-56, 115-124).
THEOREM TableMatchesMaps == Spec => [](Undisturbed /\ restarts = 0 => PresenceAgrees)
<1>1. PresenceInv => (Undisturbed /\ restarts = 0 => PresenceAgrees)
  <2> SUFFICES ASSUME PresenceInv, Undisturbed, restarts = 0, NEW u \in Users
               PROVE  LET routed == {s \in Servers : UserConnMap[s][u] # None} IN
                      /\ \A s, r \in routed : s = r
                      /\ (\A c \in Conns : ~ SigningIn(c, u) /\ ~ Leaving(c, u)) =>
                             (state[u] = "online" <=> routed # {})
    BY DEF PresenceAgrees
  <2>1. PresenceParts
    BY DEF PresenceInv
  <2>2. ASSUME NEW s \in Servers, NEW r \in Servers,
               UserConnMap[s][u] # None, UserConnMap[r][u] # None
        PROVE  s = r
    BY <2>1, <2>2, RouteHasOwner DEF PresenceParts, OneOwner, Owns
  <2>3. ASSUME \A c \in Conns : ~ SigningIn(c, u) /\ ~ Leaving(c, u)
        PROVE  state[u] = "online" <=> \E s \in Servers : UserConnMap[s][u] # None
    <3>1. ASSUME state[u] = "online" PROVE \E s \in Servers : UserConnMap[s][u] # None
      <4>1. PICK c \in Conns : session[c] = u
        BY <2>1, <2>3, <3>1 DEF PresenceParts, OnlineMeansConnected
      <4>2. UserConnMap[Home[c]][u] = c
        BY <2>1, <4>1 DEF PresenceParts, OwnersRouted
      <4> QED BY <4>2, ThreadFacts
    <3>2. ASSUME NEW s \in Servers, UserConnMap[s][u] # None PROVE state[u] = "online"
      BY <2>1, <2>3, <3>2, RouteHasOwner DEF PresenceParts, AcknowledgedOnline
    <3> QED BY <3>1, <3>2
  <2> QED BY <2>2, <2>3
<1> QED BY <1>1, PresenceInvariance, PTL

\* Once the handlers of a user are done, a server is or will be subscribed to his
\* channel exactly when it has the route to him, after any number of restarts
\* (chatservice.cpp:54, 122, 161).
THEOREM ChannelsFollowRoutes == Spec => [](Undisturbed => SubscriptionsFollowRoutes)
<1>1. PresenceInv => (Undisturbed => SubscriptionsFollowRoutes)
  <2> SUFFICES ASSUME PresenceInv, Undisturbed, NEW s \in Servers, NEW u \in Users,
                      \A c \in Conns : Home[c] = s => ~ SigningIn(c, u) /\ ~ Leaving(c, u)
               PROVE  Subscribed(s, u) <=> UserConnMap[s][u] # None
    BY DEF SubscriptionsFollowRoutes
  <2>1. PresenceParts
    BY DEF PresenceInv
  <2>2. Subscribed(s, u) <=> \E c \in Conns : Home[c] = s /\ Holds(c, u)
    BY <2>1, SubscribedIsWanted DEF PresenceParts, SubscribedByOwner
  <2>3. \A c \in Conns : Home[c] = s => (Holds(c, u) <=> session[c] = u)
    BY DEF Holds, SigningIn, Leaving, LoginSteps, LeaveSteps
  <2>4. \A c \in Conns : session[c] = u => UserConnMap[Home[c]][u] = c
    BY <2>1 DEF PresenceParts, OwnersRouted
  <2>5. UserConnMap[s][u] # None => \E c \in Conns : Home[c] = s /\ session[c] = u
    BY RouteHasOwner
  <2> QED BY <2>2, <2>3, <2>4, <2>5, ThreadFacts
<1> QED BY <1>1, PresenceInvariance, PTL

\* A message to an open connection is not lost.
LEMMA SendToKeeps ==
    ASSUME NEW d, NEW w \in Users, NEW m, SendTo(d, w, m), NEW u \in Users,
           w = u => conn[d] = "open", HistoryTypes
    PROVE  lost'[u] = lost[u]
BY DEF SendTo, Bump, HistoryTypes

\* No step loses a message for somebody who is signed in and subscribed.
LEMMA KeptStep ==
    ASSUME PresenceInv, SerialLogins, MaxFaults = 0, MaxRestarts = 0, [Next]_vars,
           NEW e \in Conns, NEW u \in Users, SignedIn(e, u), cmds[Home[e]] = <<>>
    PROVE  lost'[u] = lost[u]
<1> USE DEF Goto, localVars, dbVars, historyVars, boundVars
<1>0. /\ Undisturbed /\ PresenceParts /\ Inv /\ HistoryTypes /\ ~ Fails
      /\ \A s \in Servers : ~ Restart(s)
  BY DEF PresenceInv, Inv, TypeOK, HistoryTypes, Undisturbed, Fails, Restart
\* The route to u leads to his session, which is open.
<1>a. \A s \in Servers : UserConnMap[s][u] # None => conn[UserConnMap[s][u]] = "open"
  BY <1>0, RouteHasOwner DEF SignedIn, PresenceParts, OneOwner, Owns
\* The channel of u is subscribed.
<1>b. subs[u] # {}
  <2>1. Wanted(cmds[Home[e]], Home[e] \in subs[u], u)
    BY <1>0, ThreadFacts DEF PresenceParts, SubscribedByOwner, Holds, SignedIn
  <2>2. Home[e] \in subs[u]
    BY <2>1 DEF Wanted, OfUser
  <2> QED BY <2>2
<1>c. ASSUME NEW t, NEW next, Publish(t, next), user[t] \in Users
      PROVE  lost'[u] = lost[u]
  BY <1>0, <1>b, <1>c DEF Publish, Bump, HistoryTypes
<1>1. ASSUME NEW c \in Conns, Accept(c)
      PROVE  lost'[u] = lost[u]
  BY <1>1, <1>0 DEF Accept
<1>2. ASSUME NEW c \in Conns, Close(c)
      PROVE  lost'[u] = lost[u]
  BY <1>2, <1>0 DEF Close
<1>3. ASSUME NEW c \in Conns, CloseErase(c)
      PROVE  lost'[u] = lost[u]
  BY <1>3, <1>0 DEF CloseErase
<1>4. ASSUME NEW c \in Conns, NEW w \in Users, LoginQuery(c, w)
      PROVE  lost'[u] = lost[u]
  BY <1>4, <1>0 DEF LoginQuery
<1>5. ASSUME NEW c \in Conns, LoginInsert(c)
      PROVE  lost'[u] = lost[u]
  BY <1>5, <1>0 DEF LoginInsert
<1>6. ASSUME NEW c \in Conns, LoginSubscribe(c)
      PROVE  lost'[u] = lost[u]
  BY <1>6, <1>0 DEF LoginSubscribe
<1>7. ASSUME NEW c \in Conns, LoginSetOnline(c)
      PROVE  lost'[u] = lost[u]
  BY <1>7, <1>0 DEF LoginSetOnline
<1>8. ASSUME NEW c \in Conns, LoginAck(c)
      PROVE  lost'[u] = lost[u]
  BY <1>8, <1>0 DEF LoginAck
<1>9. ASSUME NEW c \in Conns, Logout(c)
      PROVE  lost'[u] = lost[u]
  BY <1>9, <1>0 DEF Logout
<1>10. ASSUME NEW c \in Conns, Unsubscribe(c)
      PROVE  lost'[u] = lost[u]
  BY <1>10, <1>0 DEF Unsubscribe
<1>11. ASSUME NEW c \in Conns, SetOffline(c)
      PROVE  lost'[u] = lost[u]
  BY <1>11, <1>0 DEF SetOffline
<1>12. ASSUME NEW c \in Conns, NEW w \in Users, NEW m \in Msgs, OneChat(c, w, m)
      PROVE  lost'[u] = lost[u]
  <2>1. CASE UserConnMap[Home[c]][w] # None
    <3>1. SendTo(UserConnMap[Home[c]][w], w, m)
      BY <1>12, <2>1 DEF OneChat
    <3>2. w = u => conn[UserConnMap[Home[c]][w]] = "open"
      BY <2>1, <1>a, ThreadFacts
    <3> QED BY <1>0, <3>1, <3>2, SendToKeeps
  <2>2. CASE UserConnMap[Home[c]][w] = None
    BY <1>12, <2>2 DEF OneChat
  <2> QED BY <2>1, <2>2
<1>13. ASSUME NEW c \in Conns, ChatQuery(c)
      PROVE  lost'[u] = lost[u]
  BY <1>13, <1>0 DEF ChatQuery, QueryState
<1>14. ASSUME NEW c \in Conns, ChatPublish(c)
      PROVE  lost'[u] = lost[u]
  <2>1. user[c] \in Users
    BY <1>14, <1>0, ThreadFacts DEF ChatPublish, Inv, LocalsSet, UserSteps
  <2> QED BY <1>14, <2>1, <1>c DEF ChatPublish
<1>15. ASSUME NEW c \in Conns, ChatStore(c)
      PROVE  lost'[u] = lost[u]
  BY <1>15, <1>0 DEF ChatStore, Store
<1>16. ASSUME NEW c \in Conns, NEW members \in SUBSET Users, NEW m \in Msgs, GroupQueryUsers(c, members, m)
      PROVE  lost'[u] = lost[u]
  BY <1>16, <1>0 DEF GroupQueryUsers
<1>17. ASSUME NEW c \in Conns, GroupLock(c)
      PROVE  lost'[u] = lost[u]
  BY <1>17, <1>0 DEF GroupLock
<1>18. ASSUME NEW c \in Conns, NEW w \in Users, GroupMember(c, w)
      PROVE  lost'[u] = lost[u]
  <2>1. CASE UserConnMap[Home[c]][w] # None
    <3>1. SendTo(UserConnMap[Home[c]][w], w, msg[c])
      BY <1>18, <2>1 DEF GroupMember
    <3>2. w = u => conn[UserConnMap[Home[c]][w]] = "open"
      BY <2>1, <1>a, ThreadFacts
    <3> QED BY <1>0, <3>1, <3>2, SendToKeeps
  <2>2. CASE UserConnMap[Home[c]][w] = None
    BY <1>18, <2>2 DEF GroupMember
  <2> QED BY <2>1, <2>2
<1>19. ASSUME NEW c \in Conns, GroupQuery(c)
      PROVE  lost'[u] = lost[u]
  BY <1>19, <1>0 DEF GroupQuery, QueryState
<1>20. ASSUME NEW c \in Conns, GroupPublish(c)
      PROVE  lost'[u] = lost[u]
  <2>1. user[c] \in Users
    BY <1>20, <1>0, ThreadFacts DEF GroupPublish, Inv, LocalsSet, UserSteps
  <2> QED BY <1>20, <2>1, <1>c DEF GroupPublish
<1>21. ASSUME NEW c \in Conns, GroupStore(c)
      PROVE  lost'[u] = lost[u]
  BY <1>21, <1>0 DEF GroupStore, Store
<1>22. ASSUME NEW c \in Conns, GroupUnlock(c)
      PROVE  lost'[u] = lost[u]
  BY <1>22, <1>0 DEF GroupUnlock
<1>23. ASSUME NEW s \in Servers, BrokerExecute(s)
      PROVE  lost'[u] = lost[u]
  BY <1>23, <1>0 DEF BrokerExecute
<1>24. ASSUME NEW s \in Servers, Notify(s)
      PROVE  lost'[u] = lost[u]
  <2> DEFINE n == Head(inbox[s])
  <2>1. n.user \in Users
    <3> DEFINE Notes == [user : Users, msg : Msgs]
    <3>1. inbox[s] \in Seq(Notes) /\ inbox[s] # <<>>
      BY <1>24, <1>0 DEF Notify, Inv, TypeOK, StoreTypes
    <3>2. Head(inbox[s]) \in Notes
      <4> HIDE DEF Notes
      <4> QED BY <3>1, HeadTailProperties
    <3> QED BY <3>2
  <2>2. CASE UserConnMap[s][n.user] # None
    <3>1. SendTo(UserConnMap[s][n.user], n.user, n.msg)
      BY <1>24, <2>2 DEF Notify
    <3>2. n.user = u => conn[UserConnMap[s][n.user]] = "open"
      BY <2>2, <1>a, ThreadFacts
    <3> HIDE DEF n
    <3> QED BY <1>0, <2>1, <3>1, <3>2, SendToKeeps
  <2>3. CASE UserConnMap[s][n.user] = None
    BY <1>24, <2>3 DEF Notify
  <2> QED BY <2>2, <2>3
<1>25. ASSUME NEW s \in Servers, NotifyStore(s)
      PROVE  lost'[u] = lost[u]
  BY <1>25, <1>0 DEF NotifyStore, Store
<1>26. ASSUME NEW s \in Servers, Restart(s)
      PROVE  lost'[u] = lost[u]
  BY <1>26, <1>0
<1>27. CASE UNCHANGED vars
  BY <1>27 DEF vars
<1> QED BY <1>1, <1>2, <1>3, <1>4, <1>5, <1>6, <1>7, <1>8, <1>9, <1>10, <1>11, <1>12, <1>13, <1>14, <1>15, <1>16, <1>17, <1>18, <1>19, <1>20, <1>21, <1>22, <1>23, <1>24, <1>25, <1>26, <1>27 DEF Next, Begin, Continue, Server

\* When logins do not race, no call fails and no server restarts, nothing is
\* dropped on the way to a user who has his ack and whose SUBSCRIBE the broker has
\* executed, whatever any handler knew before (chatservice.cpp:176-187, 218-229).
THEOREM NothingLostOnceSignedIn ==
    ASSUME SerialLogins, MaxFaults = 0, MaxRestarts = 0
    PROVE  Spec => NoLossOnceSignedIn
<1>1. PresenceInv /\ [Next]_vars =>
          [\A c \in Conns, u \in Users :
              SignedIn(c, u) /\ cmds[Home[c]] = <<>> => lost'[u] = lost[u]]_vars
  BY KeptStep
<1> QED BY <1>1, PresenceInvariance, PTL DEF Spec, NoLossOnceSignedIn
=============================================================================
