--------------------------------- MODULE Client --------------------------------
(****************************************************************************)
(* One client process, client.cpp, on its connection to a chat server: the  *)
(* main thread that sends requests and waits on rwsem, the thread that      *)
(* reads the answers and posts it, the two byte streams between them and    *)
(* ChatServer::onMessage, and the answers of ChatService to this client.    *)
(*                                                                          *)
(* Neither side frames its messages.  A stream is a sequence of messages; a *)
(* read returns one, several (when Joins) or a part of one (when Splits).   *)
(* The client ends each message with a null byte, at which json::parse      *)
(* stops: the server handles the first message of a read and never sees the *)
(* others.  The server sends no null byte: two answers in one read, or a    *)
(* part of a message on either side, are a parse error that nobody catches. *)
(****************************************************************************)
EXTENDS Integers, Sequences, FiniteSets

CONSTANTS
    Users,
    None,
    Joins,          \* a read may return several messages
    Splits,         \* a read may return a part of a message
    MaxStream,      \* bound: unread requests when the client sends the next one
    MaxPushed       \* bound: chat messages pushed by the server

ASSUME ClientAssumption ==
    /\ None \notin Users
    /\ Joins \in BOOLEAN
    /\ Splits \in BOOLEAN
    /\ MaxStream \in Nat \ {0}
    /\ MaxPushed \in Nat

VARIABLES
    main,                       \* where the main thread is
    reader,                     \* where the reading thread is
    rwsem,
    g_isLoginSuccess,
    g_currentUser,
    toServer,                   \* requests sent and not read
    toClient,                   \* answers and chat messages sent and not read
    server,                     \* the server's end of the connection
    signingIn,                  \* the user login is working on, if any
    routes,                     \* users whose entry of UserConnMap is this connection
    others,                     \* users whose entry is another client's connection
    contested,                  \* history: see InsertEntry
    pushed,                     \* chat messages pushed so far
    dropped                     \* history: a read returned several requests

clientVars == <<main, reader, rwsem, g_isLoginSuccess, g_currentUser>>
mapVars == <<routes, others, contested>>
serverVars == <<server, signingIn, mapVars, pushed, dropped>>
vars == <<clientVars, toServer, toClient, serverVars>>

Owner == Users \cup {None}

Requests ==
    [msgid : {"LOGIN_MSG", "LOGINOUT_MSG"}, id : Users]
    \cup [msgid : {"REG_MSG", "other"}]

Answers ==
    [msgid : {"LOGIN_MSG_ACK"}, errno : {0}, id : Users]
    \cup [msgid : {"LOGIN_MSG_ACK"}, errno : {1, 2}]
    \cup [msgid : {"REG_MSG_ACK", "chat"}]

TypeOK ==
    /\ main \in {"menu", "login", "register", "signedIn", "exited"}
    /\ reader \in {"recv", "post"}
    /\ rwsem \in 0..1
    /\ g_isLoginSuccess \in BOOLEAN
    /\ g_currentUser \in Owner
    /\ toServer \in Seq(Requests)
    /\ toClient \in Seq(Answers)
    /\ server \in {"open", "closed", "terminated"}
    /\ signingIn \in Owner
    /\ routes \in SUBSET Users
    /\ others \in SUBSET Users
    /\ contested \in SUBSET Users
    /\ pushed \in 0..MaxPushed
    /\ dropped \in BOOLEAN

\* connect() has succeeded and both threads run.
Init ==
    /\ main = "menu"
    /\ reader = "recv"
    /\ rwsem = 0
    /\ g_isLoginSuccess = FALSE
    /\ g_currentUser = None
    /\ toServer = <<>>
    /\ toClient = <<>>
    /\ server = "open"
    /\ signingIn = None
    /\ routes = {}
    /\ others = {}
    /\ contested = {}
    /\ pushed = 0
    /\ dropped = FALSE

-----------------------------------------------------------------------------
(* The main thread.                                                         *)

\* What is sent after the server has gone reaches nobody.
Send(request) ==
    /\ Len(toServer) < MaxStream
    /\ toServer' = IF server = "open" THEN Append(toServer, request) ELSE toServer

\* case 1: the flag is cleared, the request sent, the semaphore waited for.
ChooseLogin(u) ==
    /\ main = "menu"
    /\ g_isLoginSuccess' = FALSE
    /\ Send([msgid |-> "LOGIN_MSG", id |-> u])
    /\ main' = "login"
    /\ UNCHANGED <<reader, rwsem, g_currentUser, toClient, serverVars>>

\* Mutant: the main menu is entered whatever the answer was.
WakeLoginAlways ==
    /\ main = "login"
    /\ rwsem > 0
    /\ rwsem' = rwsem - 1
    /\ main' = "signedIn"
    /\ UNCHANGED <<reader, g_isLoginSuccess, g_currentUser, toServer, toClient, serverVars>>

WakeLogin ==
    /\ main = "login"
    /\ rwsem > 0
    /\ rwsem' = rwsem - 1
    /\ main' = IF g_isLoginSuccess THEN "signedIn" ELSE "menu"
    /\ UNCHANGED <<reader, g_isLoginSuccess, g_currentUser, toServer, toClient, serverVars>>

\* case 2
ChooseRegister ==
    /\ main = "menu"
    /\ Send([msgid |-> "REG_MSG"])
    /\ main' = "register"
    /\ UNCHANGED <<reader, rwsem, g_isLoginSuccess, g_currentUser, toClient, serverVars>>

WakeRegister ==
    /\ main = "register"
    /\ rwsem > 0
    /\ rwsem' = rwsem - 1
    /\ main' = "menu"
    /\ UNCHANGED <<reader, g_isLoginSuccess, g_currentUser, toServer, toClient, serverVars>>

\* case 3
ChooseQuit ==
    /\ main = "menu"
    /\ main' = "exited"
    /\ UNCHANGED <<reader, rwsem, g_isLoginSuccess, g_currentUser, toServer, toClient, serverVars>>

\* chat, addfriend, creategroup, addgroup, groupchat: no answer is waited for,
\* and none is sent.
Command ==
    /\ main = "signedIn"
    /\ Send([msgid |-> "other"])
    /\ UNCHANGED <<clientVars, toClient, serverVars>>

\* Mutant: the menu is left without a word to the server.
LoginoutUnsent ==
    /\ main = "signedIn"
    /\ main' = "menu"
    /\ UNCHANGED <<reader, rwsem, g_isLoginSuccess, g_currentUser, toServer, toClient, serverVars>>

\* A send that fails, as it may when the server has gone, leaves the menu running.
loginout ==
    /\ main = "signedIn"
    /\ Send([msgid |-> "LOGINOUT_MSG", id |-> g_currentUser])
    /\ main' = "menu" \/ (server # "open" /\ UNCHANGED main)
    /\ UNCHANGED <<reader, rwsem, g_isLoginSuccess, g_currentUser, toClient, serverVars>>

-----------------------------------------------------------------------------
(* The reading thread.                                                      *)

Chunks(stream) == IF Joins THEN 1..Len(stream) ELSE {1} \cap 1..Len(stream)

\* The lists of friends and groups that come with the answer are left out.
doLoginResponse(answer) ==
    IF answer.errno = 0
    THEN /\ g_currentUser' = answer.id
         /\ g_isLoginSuccess' = TRUE
    ELSE /\ g_isLoginSuccess' = FALSE
         /\ UNCHANGED g_currentUser

\* Mutant: a chat message falls through to the end of the loop's posting part.
RecvPostsAlways ==
    /\ main # "exited" /\ reader = "recv" /\ toClient # <<>>
    /\ toClient' = Tail(toClient)
    /\ \/ Head(toClient).msgid = "LOGIN_MSG_ACK" /\ doLoginResponse(Head(toClient))
       \/ /\ Head(toClient).msgid # "LOGIN_MSG_ACK"
          /\ UNCHANGED <<g_isLoginSuccess, g_currentUser>>
    /\ reader' = "post"
    /\ UNCHANGED <<main, rwsem, toServer, serverVars>>

\* Mutant: a login that was refused is reported and not posted.
RecvIgnoresRefusals ==
    /\ main # "exited" /\ reader = "recv" /\ toClient # <<>>
    /\ toClient' = Tail(toClient)
    /\ LET answer == Head(toClient) IN
       \/ /\ answer.msgid = "LOGIN_MSG_ACK"
          /\ doLoginResponse(answer)
          /\ reader' = IF answer.errno = 0 THEN "post" ELSE "recv"
       \/ /\ answer.msgid # "LOGIN_MSG_ACK"
          /\ reader' = IF answer.msgid = "REG_MSG_ACK" THEN "post" ELSE "recv"
          /\ UNCHANGED <<g_isLoginSuccess, g_currentUser>>
    /\ UNCHANGED <<main, rwsem, toServer, serverVars>>

\* readTaskHandler reads one message and handles it.
Recv ==
    /\ main # "exited" /\ reader = "recv" /\ toClient # <<>>
    /\ toClient' = Tail(toClient)
    /\ LET answer == Head(toClient) IN
       \/ /\ answer.msgid = "LOGIN_MSG_ACK"
          /\ doLoginResponse(answer)
          /\ reader' = "post"
       \/ /\ answer.msgid # "LOGIN_MSG_ACK"
          /\ reader' = IF answer.msgid = "REG_MSG_ACK" THEN "post" ELSE "recv"
          /\ UNCHANGED <<g_isLoginSuccess, g_currentUser>>
    /\ UNCHANGED <<main, rwsem, toServer, serverVars>>

SemPost ==
    /\ main # "exited" /\ reader = "post"
    /\ rwsem' = rwsem + 1
    /\ reader' = "recv"
    /\ UNCHANGED <<main, g_isLoginSuccess, g_currentUser, toServer, toClient, serverVars>>

\* The process ends: two answers in one read or a part of one do not parse, or
\* recv returns nothing because the server has gone.
RecvFails ==
    /\ main # "exited" /\ reader = "recv"
    /\ \/ \E n \in Chunks(toClient) : n > 1
       \/ Splits /\ toClient # <<>>
       \/ server # "open"
    /\ main' = "exited"
    /\ UNCHANGED <<reader, rwsem, g_isLoginSuccess, g_currentUser, toServer, toClient, serverVars>>

-----------------------------------------------------------------------------
(* The server's end.                                                        *)

LoginRefused(errno) == [msgid |-> "LOGIN_MSG_ACK", errno |-> errno]

LoginAnswer(u) == [msgid |-> "LOGIN_MSG_ACK", errno |-> 0, id |-> u]

\* insert leaves an entry alone that is there, this connection's or another's.
\* contested has the users whose entry another client kept from this one, or
\* erased, since this one's last login of them.
InsertEntry(u) ==
    /\ routes' = IF u \in others THEN routes ELSE routes \cup {u}
    /\ contested' = IF u \in others THEN contested \cup {u} ELSE contested \ {u}
    /\ UNCHANGED others

\* loginout erases the entry of the user, whosever it is.
EraseEntry(u) ==
    /\ routes' = routes \ {u}
    /\ others' = others \ {u}
    /\ UNCHANGED contested

\* onMessage reads what there is and hands the first message to its handler.  A
\* login is refused because of the password (1), or because the user is signed
\* in, here or elsewhere (2); else it takes its steps before the answer is sent.
\* Requests other than login and registration are not answered.
OnMessage ==
    /\ server = "open" /\ signingIn = None
    /\ \E n \in Chunks(toServer) :
           /\ toServer' = SubSeq(toServer, n + 1, Len(toServer))
           /\ dropped' = (dropped \/ n > 1)
    /\ LET request == Head(toServer) IN
       \/ /\ request.msgid = "LOGIN_MSG"
          /\ \/ /\ \E errno \in {1, 2} : toClient' = Append(toClient, LoginRefused(errno))
                /\ UNCHANGED <<signingIn, mapVars>>
             \/ /\ signingIn' = request.id
                /\ InsertEntry(request.id)
                /\ UNCHANGED toClient
       \/ /\ request.msgid = "LOGINOUT_MSG"
          /\ EraseEntry(request.id)
          /\ UNCHANGED <<signingIn, toClient>>
       \/ /\ request.msgid = "REG_MSG"
          /\ toClient' = Append(toClient, [msgid |-> "REG_MSG_ACK"])
          /\ UNCHANGED <<signingIn, mapVars>>
       \/ /\ request.msgid = "other"
          /\ UNCHANGED <<signingIn, mapVars, toClient>>
    /\ UNCHANGED <<clientVars, server, pushed>>

\* Another client of the server signs in: its entry is new, or there already.
OtherLogin(u) ==
    /\ server = "open" /\ u \notin routes
    /\ others' = others \cup {u}
    /\ UNCHANGED <<clientVars, toServer, toClient, server, signingIn, routes, contested, pushed, dropped>>

\* It signs out, whosever entry that erases, or its connection closes and its
\* own entry goes (the case that u is among others).
OtherLoginout(u) ==
    /\ server = "open"
    /\ others' = others \ {u}
    /\ routes' = routes \ {u}
    /\ contested' = contested \cup (routes \cap {u})
    /\ UNCHANGED <<clientVars, toServer, toClient, server, signingIn, pushed, dropped>>

LoginDone ==
    /\ server = "open" /\ signingIn # None
    /\ toClient' = Append(toClient, LoginAnswer(signingIn))
    /\ signingIn' = None
    /\ UNCHANGED <<clientVars, toServer, server, mapVars, pushed, dropped>>

\* A message of another user for one of the users routed to this connection.
Push ==
    /\ server = "open" /\ routes # {} /\ pushed < MaxPushed
    /\ toClient' = Append(toClient, [msgid |-> "chat"])
    /\ pushed' = pushed + 1
    /\ UNCHANGED <<clientVars, toServer, server, signingIn, mapVars, dropped>>

\* The server process ends: SIGINT, or a read that returned a part of a message
\* and did not parse.
Terminate ==
    /\ server = "open"
    /\ server' = "terminated"
    /\ signingIn' = None
    /\ routes' = {}
    /\ others' = {}
    /\ UNCHANGED <<clientVars, toServer, toClient, contested, pushed, dropped>>

\* The client is gone and everything it sent has been read:
\* clientCloseException erases one entry that holds the connection.
OnClose ==
    /\ main = "exited" /\ server = "open" /\ signingIn = None /\ toServer = <<>>
    /\ server' = "closed"
    /\ \/ routes = {} /\ UNCHANGED routes
       \/ \E u \in routes : routes' = routes \ {u}
    /\ UNCHANGED <<clientVars, toServer, toClient, signingIn, others, contested, pushed, dropped>>

-----------------------------------------------------------------------------
Main == WakeLogin \/ WakeRegister

Chooses == ChooseRegister \/ ChooseQuit \/ Command \/ loginout \/ \E u \in Users : ChooseLogin(u)

Reader == Recv \/ SemPost \/ RecvFails

Serves == OnMessage \/ LoginDone \/ OnClose

Others == \E u \in Users : OtherLogin(u) \/ OtherLoginout(u)

Next == Main \/ Chooses \/ Reader \/ Serves \/ Push \/ Terminate \/ Others

Spec == Init /\ [][Next]_vars

\* Both threads of the client and the connection's I/O loop keep running; what
\* the user chooses to do is not obliged.
Fairness == WF_vars(Main) /\ WF_vars(Reader) /\ WF_vars(Serves)

FairSpec == Spec /\ Fairness

-----------------------------------------------------------------------------
(* Properties.                                                              *)

\* How many messages of the stream are of one of these kinds.
Count(stream, ids) == Cardinality({i \in 1..Len(stream) : stream[i].msgid \in ids})

AnswersOnTheWay ==
    Count(toServer, {"LOGIN_MSG", "REG_MSG"}) + (IF signingIn # None THEN 1 ELSE 0)
    + Count(toClient, {"LOGIN_MSG_ACK", "REG_MSG_ACK"})
    + (IF reader = "post" THEN 1 ELSE 0) + rwsem

\* One semaphore serves two kinds of answer: it never counts an answer that the
\* main thread does not wait for, so no sem_wait returns for an earlier request
\* or for a chat message (client.cpp:89, 113, 217-223).
AnswersPaired ==
    main # "exited" => AnswersOnTheWay <= IF main \in {"login", "register"} THEN 1 ELSE 0

\* The command menu runs only for a user whose entry leads to this connection,
\* unless another client held or erased the entry by signing in or out as the
\* same user (client.cpp:90-92, chatservice.cpp:52, 79, 116-119).
MenuMeansRoute ==
    main = "signedIn" /\ server = "open" => g_currentUser \in routes \cup contested

\* Nobody stays signed in through this connection when the client is back at its
\* first menu and everything it sent was read, or when it is gone and the server
\* has seen it; not so when a sign-out was in a read with another request
\* (client.cpp:396-406, chatservice.cpp:113-125, 149-166, chatserver.cpp:29).
QuietMeansOffline ==
    \/ server = "closed"
    \/ server = "open" /\ main = "menu" /\ toServer = <<>>
    => routes = {} \/ dropped

\* Whoever chose to log in gets out of sem_wait: the reading thread notifies it
\* when it has handled the answer (client.cpp:89, and 113 for a registration).
LoginReturns == main \in {"login", "register"} ~> main \notin {"login", "register"}

\* It is a read of several requests that keeps him there for ever, and nothing
\* else: neither a refusal, nor a message that comes before the answer, nor an
\* answer that does not parse (client.cpp:89, 207, chatserver.cpp:28-29).
LoginReturnsOrWasDropped ==
    main \in {"login", "register"} ~> main \notin {"login", "register"} \/ dropped
=============================================================================
