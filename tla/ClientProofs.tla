--------------------------- MODULE ClientProofs ---------------------------
(****************************************************************************)
(* Proofs about Client.  The program sends at most one question that is     *)
(* answered and then waits on rwsem, so questions, answers and wake-ups     *)
(* exclude one another (Paired); from this follow whom the server routes to *)
(* while the program believes it is signed in, but for what others do       *)
(* (Routed), and, when no LOGIN_MSG was lost among others in one read, that *)
(* a route belongs to somebody who is signing in or out (Single).           *)
(****************************************************************************)
EXTENDS Client, FiniteSetTheorems, TLAPS

\* The main thread is in sem_wait (client.cpp:89, 113).
Waits == main \in {"login", "register"}

\* The messages that make readTaskHandler post the semaphore.
IsAnswer(m) == m.msgid \in {"LOGIN_MSG_ACK", "REG_MSG_ACK"}

\* None of them is on its way.
NoAnswer == \A j \in 1..Len(toClient) : ~ IsAnswer(toClient[j])

\* Of a question, the login being worked on, the answer and the post of the
\* semaphore there is at most one, and only while the main thread waits for it.
Paired ==
    /\ \A i \in 1..Len(toServer) : toServer[i].msgid \in {"LOGIN_MSG", "REG_MSG"} => i = Len(toServer)
    /\ main # "exited" =>
        /\ \A i \in 1..Len(toServer) :
              toServer[i].msgid \in {"LOGIN_MSG", "REG_MSG"} =>
                  /\ Waits /\ i = Len(toServer)
                  /\ signingIn = None /\ NoAnswer /\ reader = "recv" /\ rwsem = 0
        /\ signingIn # None =>
              Waits /\ toServer = <<>> /\ NoAnswer /\ reader = "recv" /\ rwsem = 0
        /\ \A j \in 1..Len(toClient) :
              IsAnswer(toClient[j]) =>
                  /\ Waits /\ reader = "recv" /\ rwsem = 0
                  /\ \A k \in 1..Len(toClient) : IsAnswer(toClient[k]) => k = j
        /\ \A i \in 1..Len(toServer) : toServer[i].msgid = "LOGIN_MSG" => main = "login" /\ ~ g_isLoginSuccess
        /\ \A j \in 1..Len(toClient) : toClient[j].msgid = "LOGIN_MSG_ACK" => main = "login" /\ ~ g_isLoginSuccess
        /\ signingIn # None => main = "login" /\ ~ g_isLoginSuccess
        /\ reader = "post" => Waits /\ rwsem = 0
        /\ rwsem # 0 => Waits

\* From the server's login until the LOGINOUT_MSG the user has a route, or
\* another client contested it.
Routed ==
    main # "exited" /\ server = "open" =>
        /\ signingIn # None => signingIn \in routes \cup contested
        /\ \A j \in 1..Len(toClient) :
              toClient[j].msgid = "LOGIN_MSG_ACK" /\ toClient[j].errno = 0 =>
                  toServer = <<>> /\ toClient[j].id \in routes \cup contested
        /\ main = "login" /\ g_isLoginSuccess => toServer = <<>> /\ g_currentUser \in routes \cup contested
        /\ main = "signedIn" =>
              /\ g_currentUser \in routes \cup contested
              /\ \A i \in 1..Len(toServer) : toServer[i].msgid # "LOGINOUT_MSG"

\* The i-th message in the stream is u's LOGINOUT_MSG.
SigningOut(u, i) == i \in 1..Len(toServer) /\ toServer[i].msgid = "LOGINOUT_MSG" /\ toServer[i].id = u

\* u is being signed in, or is, and is where the program knows it.
SigningIn(u) ==
    \/ signingIn = u
    \/ \E j \in 1..Len(toClient) :
          toClient[j].msgid = "LOGIN_MSG_ACK" /\ toClient[j].errno = 0 /\ toClient[j].id = u
    \/ main = "login" /\ g_isLoginSuccess /\ g_currentUser = u
    \/ main = "signedIn" /\ g_currentUser = u

\* There is one route at most, of a user who is signing in or out, and a
\* LOGIN_MSG is behind the LOGINOUT_MSG of whoever has a route.
Single ==
    ~ dropped =>
        /\ server = "closed" => routes = {}
        /\ \A u, v \in routes : u = v
        /\ server = "open" =>
              /\ \A u \in routes :
                    \/ main = "exited"
                    \/ SigningIn(u)
                    \/ \E i \in 1..Len(toServer) : SigningOut(u, i)
              /\ \A i \in 1..Len(toServer) : toServer[i].msgid = "LOGIN_MSG" =>
                    \A u \in routes : \E k \in 1..i - 1 : SigningOut(u, k)

\* A sequence of length 0 is the empty one.
LEMMA NoneLeft ==
    ASSUME NEW S, NEW t \in Seq(S), Len(t) = 0
    PROVE  t = <<>>
OBVIOUS

\* What the server leaves in the stream when it takes n messages.
LEMMA Rest ==
    ASSUME TypeOK, NEW n \in Chunks(toServer), toServer' = SubSeq(toServer, n + 1, Len(toServer))
    PROVE  /\ n \in 1..Len(toServer) /\ toServer # <<>> /\ Head(toServer) = toServer[1]
           /\ toServer' \in Seq(Requests) /\ Len(toServer') = Len(toServer) - n
           /\ Head(toServer) \in Requests /\ (Len(toServer) = 1 => n = 1 /\ toServer' = <<>>)
           /\ \A i \in 1..Len(toServer') : toServer'[i] = toServer[n + i]
<1>1. n \in 1..Len(toServer)
  BY DEF Chunks
<1>2. /\ toServer # <<>> /\ Head(toServer) = toServer[1] /\ Head(toServer) \in Requests
      /\ toServer' \in Seq(Requests) /\ Len(toServer') = Len(toServer) - n
      /\ \A i \in 1..Len(toServer') : toServer'[i] = toServer[n + i]
  BY <1>1 DEF TypeOK
<1>3. ASSUME Len(toServer) = 1 PROVE n = 1 /\ toServer' = <<>>
  <2>1. n = 1
    BY <1>1, <1>3
  <2>2. Len(toServer') = 0
    BY <1>2, <1>3, <2>1
  <2> QED BY <1>2, <2>1, <2>2, NoneLeft
<1> QED BY <1>1, <1>2, <1>3

\* What an answer adds to the other stream.
LEMMA Answered ==
    ASSUME TypeOK, NEW m, toClient' = Append(toClient, m)
    PROVE  /\ Len(toClient') = Len(toClient) + 1
           /\ \A j \in 1..Len(toClient) : toClient'[j] = toClient[j]
           /\ toClient'[Len(toClient) + 1] = m
BY DEF TypeOK

\* Append keeps the type of a sequence.
LEMMA AppendType ==
    ASSUME NEW S, NEW s \in Seq(S), NEW e \in S
    PROVE  Append(s, e) \in Seq(S)
OBVIOUS

\* The messages the two programs make are of the declared kinds.
LEMMA AnswerTypes ==
    /\ \A e \in {1, 2} : LoginRefused(e) \in Answers
    /\ \A u \in Users : LoginAnswer(u) \in Answers
    /\ [msgid |-> "REG_MSG_ACK"] \in Answers /\ [msgid |-> "chat"] \in Answers
    /\ \A u \in Users : [msgid |-> "LOGIN_MSG", id |-> u] \in Requests /\ [msgid |-> "LOGINOUT_MSG", id |-> u] \in Requests
    /\ [msgid |-> "REG_MSG"] \in Requests /\ [msgid |-> "other"] \in Requests
BY DEF LoginRefused, LoginAnswer, Answers, Requests

\* The program's messages keep the type of its stream,
LEMMA SendType ==
    ASSUME TypeOK, NEW m \in Requests, Send(m)
    PROVE  toServer' \in Seq(Requests)
BY AppendType DEF TypeOK, Send

\* and the server's that of the other.
LEMMA AnswerType ==
    ASSUME TypeOK, NEW m \in Answers, toClient' = Append(toClient, m)
    PROVE  toClient' \in Seq(Answers)
BY AppendType DEF TypeOK

\* A login or a logout names a user,
LEMMA RequestUser ==
    ASSUME NEW m \in Requests, m.msgid \in {"LOGIN_MSG", "LOGINOUT_MSG"}
    PROVE  m.id \in Users
BY DEF Requests

\* and so does a login that succeeded.
LEMMA AnswerUser ==
    ASSUME NEW m \in Answers, m.msgid = "LOGIN_MSG_ACK", m.errno = 0
    PROVE  m.id \in Users
BY DEF Answers

\* Every step keeps the types,
LEMMA TypeStep ==
    ASSUME TypeOK, Paired, Routed, [Next]_vars
    PROVE  TypeOK'
<1> USE ClientAssumption DEF TypeOK, Paired, clientVars, serverVars, mapVars
<1>1. CASE WakeLogin
  BY <1>1 DEF WakeLogin
<1>2. CASE WakeRegister
  BY <1>2 DEF WakeRegister
<1>3. CASE ChooseRegister
  <2>1. toServer' \in Seq(Requests)
    BY <1>3, AnswerTypes, SendType DEF ChooseRegister
  <2> QED BY <1>3, <2>1 DEF ChooseRegister
<1>4. CASE ChooseQuit
  BY <1>4 DEF ChooseQuit
<1>5. CASE Command
  <2>1. toServer' \in Seq(Requests)
    BY <1>5, AnswerTypes, SendType DEF Command
  <2> QED BY <1>5, <2>1 DEF Command
<1>6. CASE loginout
  <2>1. toServer' \in Seq(Requests)
    <3>1. CASE server = "open"
      <4>1. g_currentUser \in Users
        BY <1>6, <3>1 DEF loginout, Routed
      <4> QED BY <1>6, <4>1, AnswerTypes, SendType DEF loginout
    <3>2. CASE server # "open"
      BY <1>6, <3>2 DEF loginout, Send
    <3> QED BY <3>1, <3>2
  <2> QED BY <1>6, <2>1 DEF loginout
<1>7. ASSUME NEW u \in Users, ChooseLogin(u) PROVE TypeOK'
  <2>1. toServer' \in Seq(Requests)
    BY <1>7, AnswerTypes, SendType DEF ChooseLogin
  <2> QED BY <1>7, <2>1 DEF ChooseLogin
<1>8. CASE Recv
  <2>1. Head(toClient) \in Answers /\ toClient' \in Seq(Answers)
    BY <1>8 DEF Recv
  <2>2. g_currentUser' \in Owner /\ g_isLoginSuccess' \in BOOLEAN
    BY <1>8, <2>1, AnswerUser DEF Recv, doLoginResponse, Owner
  <2> QED BY <1>8, <2>1, <2>2 DEF Recv
<1>9. CASE SemPost
  BY <1>9 DEF SemPost
<1>10. CASE RecvFails
  BY <1>10 DEF RecvFails
<1>11. CASE OnMessage
  <2>1. PICK n \in Chunks(toServer) :
             toServer' = SubSeq(toServer, n + 1, Len(toServer)) /\ dropped' = (dropped \/ n > 1)
    BY <1>11 DEF OnMessage
  <2>2. toServer' \in Seq(Requests) /\ Head(toServer) \in Requests
    BY <2>1, Rest
  <2>3. toClient' \in Seq(Answers)
    BY <1>11, AnswerTypes, AnswerType DEF OnMessage
  <2>4. signingIn' \in Owner /\ dropped' \in BOOLEAN
    BY <1>11, <2>1, <2>2, RequestUser DEF OnMessage, Owner
  <2>5. routes' \in SUBSET Users /\ others' \in SUBSET Users /\ contested' \in SUBSET Users
    BY <1>11, <2>2, RequestUser DEF OnMessage, InsertEntry, EraseEntry, mapVars
  <2>6. UNCHANGED <<clientVars, server, pushed>>
    BY <1>11 DEF OnMessage
  <2> QED BY <2>2, <2>3, <2>4, <2>5, <2>6
<1>12. CASE LoginDone
  <2>1. LoginAnswer(signingIn) \in Answers
    BY <1>12, AnswerTypes DEF LoginDone, Owner
  <2>2. toClient' \in Seq(Answers)
    BY <1>12, <2>1, AnswerType DEF LoginDone
  <2> QED BY <1>12, <2>2 DEF LoginDone, Owner
<1>13. CASE OnClose
  BY <1>13 DEF OnClose
<1>14. CASE Push
  <2>1. toClient' \in Seq(Answers)
    BY <1>14, AnswerTypes, AnswerType DEF Push
  <2> QED BY <1>14, <2>1 DEF Push
<1>15. CASE Terminate
  BY <1>15 DEF Terminate, Owner
<1>16. ASSUME NEW u \in Users, OtherLogin(u) PROVE TypeOK'
  BY <1>16 DEF OtherLogin
<1>17. ASSUME NEW u \in Users, OtherLoginout(u) PROVE TypeOK'
  BY <1>17 DEF OtherLoginout
<1>18. CASE UNCHANGED vars
  BY <1>18 DEF vars
<1> QED BY <1>1, <1>2, <1>3, <1>4, <1>5, <1>6, <1>7, <1>8, <1>9, <1>10, <1>11, <1>12, <1>13, <1>14, <1>15, <1>16, <1>17, <1>18 DEF Next, Main, Chooses, Reader, Serves, Others

\* the pairing of questions and answers,
LEMMA PairedStep ==
    ASSUME TypeOK, Paired, [Next]_vars
    PROVE  Paired'
<1> USE ClientAssumption DEF TypeOK, Paired, Waits, IsAnswer, NoAnswer, Requests, Answers, Owner, Chunks, clientVars, serverVars, mapVars
<1>1. CASE WakeLogin
  BY <1>1 DEF WakeLogin
<1>2. CASE WakeRegister
  BY <1>2 DEF WakeRegister
<1>3. CASE ChooseRegister
  BY <1>3 DEF ChooseRegister, Send
<1>4. CASE ChooseQuit
  BY <1>4 DEF ChooseQuit
<1>5. CASE Command
  BY <1>5 DEF Command, Send
<1>6. CASE loginout
  BY <1>6 DEF loginout, Send
<1>7. ASSUME NEW u \in Users, ChooseLogin(u) PROVE Paired'
  BY <1>7 DEF ChooseLogin, Send
<1>8. CASE Recv
  BY <1>8 DEF Recv, doLoginResponse
<1>9. CASE SemPost
  BY <1>9 DEF SemPost
<1>10. CASE RecvFails
  BY <1>10 DEF RecvFails
<1>11. CASE OnMessage
  <2> DEFINE request == toServer[1]
  <2>1. PICK n \in Chunks(toServer) : toServer' = SubSeq(toServer, n + 1, Len(toServer))
    BY <1>11 DEF OnMessage
  <2>2. /\ n \in 1..Len(toServer) /\ Head(toServer) = request
        /\ toServer' \in Seq(Requests) /\ Len(toServer') = Len(toServer) - n
        /\ Len(toServer) = 1 => n = 1 /\ toServer' = <<>>
        /\ \A i \in 1..Len(toServer') : toServer'[i] = toServer[n + i]
    BY <2>1, Rest
  <2>3. signingIn = None /\ UNCHANGED <<main, reader, rwsem, g_isLoginSuccess, g_currentUser, server>>
    BY <1>11 DEF OnMessage
  <2>4. CASE request.msgid \in {"LOGIN_MSG", "REG_MSG"}
    <3>1. Len(toServer) = 1 /\ n = 1 /\ toServer' = <<>>
      <4>1. 1 \in 1..Len(toServer)
        BY <2>2
      <4>2. 1 = Len(toServer)
        BY <2>4, <4>1
      <4> QED BY <2>2, <4>2
    <3>2. main # "exited" => Waits /\ NoAnswer /\ reader = "recv" /\ rwsem = 0
      BY <2>2, <2>4
    <3>6. main # "exited" /\ request.msgid = "LOGIN_MSG" => main = "login" /\ ~ g_isLoginSuccess
      BY <2>2, <2>4
    <3>3. CASE request.msgid = "LOGIN_MSG" /\ \E e \in {1, 2} : toClient' = Append(toClient, LoginRefused(e)) /\ UNCHANGED <<signingIn, mapVars>>
      BY <2>3, <3>1, <3>2, <3>3, <3>6, Answered DEF LoginRefused
    <3>4. CASE request.msgid = "LOGIN_MSG" /\ UNCHANGED toClient /\ signingIn' = request.id /\ InsertEntry(request.id)
      BY <2>3, <3>1, <3>2, <3>4, <3>6 DEF InsertEntry
    <3>5. CASE toClient' = Append(toClient, [msgid |-> "REG_MSG_ACK"]) /\ UNCHANGED <<signingIn, mapVars>>
      BY <2>3, <3>1, <3>2, <3>5, Answered
    <3> QED BY <1>11, <2>2, <2>4, <3>3, <3>4, <3>5 DEF OnMessage
  <2>5. CASE request.msgid \notin {"LOGIN_MSG", "REG_MSG"}
    <3>1. UNCHANGED <<toClient, signingIn>> /\ (UNCHANGED mapVars \/ request.msgid = "LOGINOUT_MSG")
      BY <1>11, <2>2, <2>5 DEF OnMessage
    <3>2. \A i \in 1..Len(toServer') :
             toServer'[i] = toServer[n + i] /\ n + i \in 1..Len(toServer) /\ (n + i = Len(toServer) => i = Len(toServer'))
      BY <2>2
    <3>3. toServer # <<>> 
      BY <2>2
    <3> QED BY <2>3, <2>5, <3>1, <3>2, <3>3
  <2> QED BY <2>4, <2>5
<1>12. CASE LoginDone
  BY <1>12 DEF LoginDone, LoginAnswer
<1>13. CASE OnClose
  BY <1>13 DEF OnClose
<1>14. CASE Push
  BY <1>14 DEF Push
<1>15. CASE Terminate
  BY <1>15 DEF Terminate
<1>16. ASSUME NEW u \in Users, OtherLogin(u) PROVE Paired'
  BY <1>16 DEF OtherLogin
<1>17. ASSUME NEW u \in Users, OtherLoginout(u) PROVE Paired'
  BY <1>17 DEF OtherLoginout
<1>18. CASE UNCHANGED vars
  BY <1>18 DEF vars
<1> QED BY <1>1, <1>2, <1>3, <1>4, <1>5, <1>6, <1>7, <1>8, <1>9, <1>10, <1>11, <1>12, <1>13, <1>14, <1>15, <1>16, <1>17, <1>18 DEF Next, Main, Chooses, Reader, Serves, Others

\* the route of whoever is signed in,
LEMMA RoutedStep ==
    ASSUME TypeOK, Paired, Routed, [Next]_vars
    PROVE  Routed'
<1> USE ClientAssumption DEF TypeOK, Paired, Routed, Waits, IsAnswer, NoAnswer, Requests, Answers, Owner, Chunks, clientVars, serverVars, mapVars
<1>1. CASE WakeLogin
  BY <1>1 DEF WakeLogin
<1>2. CASE WakeRegister
  BY <1>2 DEF WakeRegister
<1>3. CASE ChooseRegister
  BY <1>3 DEF ChooseRegister, Send
<1>4. CASE ChooseQuit
  BY <1>4 DEF ChooseQuit
<1>5. CASE Command
  BY <1>5 DEF Command, Send
<1>6. CASE loginout
  BY <1>6 DEF loginout, Send
<1>7. ASSUME NEW u \in Users, ChooseLogin(u) PROVE Routed'
  BY <1>7 DEF ChooseLogin, Send
<1>8. CASE Recv
  BY <1>8 DEF Recv, doLoginResponse
<1>9. CASE SemPost
  BY <1>9 DEF SemPost
<1>10. CASE RecvFails
  BY <1>10 DEF RecvFails
<1>11. CASE OnMessage
  <2> DEFINE request == toServer[1]
  <2>1. PICK n \in Chunks(toServer) : toServer' = SubSeq(toServer, n + 1, Len(toServer))
    BY <1>11 DEF OnMessage
  <2>2. /\ n \in 1..Len(toServer) /\ Head(toServer) = request
        /\ toServer' \in Seq(Requests) /\ Len(toServer') = Len(toServer) - n
        /\ Len(toServer) = 1 => n = 1 /\ toServer' = <<>>
        /\ \A i \in 1..Len(toServer') : toServer'[i] = toServer[n + i]
    BY <2>1, Rest
  <2>3. signingIn = None /\ UNCHANGED <<main, reader, rwsem, g_isLoginSuccess, g_currentUser, server>>
    BY <1>11 DEF OnMessage
  <2>4. CASE request.msgid \in {"LOGIN_MSG", "REG_MSG"}
    <3>1. Len(toServer) = 1 /\ n = 1 /\ toServer' = <<>>
      <4>1. 1 \in 1..Len(toServer)
        BY <2>2
      <4>2. 1 = Len(toServer)
        BY <2>4, <4>1
      <4> QED BY <2>2, <4>2
    <3>2. main # "exited" => Waits /\ NoAnswer /\ reader = "recv" /\ rwsem = 0
      BY <2>2, <2>4
    <3>6. main # "exited" /\ request.msgid = "LOGIN_MSG" => main = "login" /\ ~ g_isLoginSuccess
      BY <2>2, <2>4
    <3>3. CASE request.msgid = "LOGIN_MSG" /\ \E e \in {1, 2} : toClient' = Append(toClient, LoginRefused(e)) /\ UNCHANGED <<signingIn, mapVars>>
      BY <2>3, <3>1, <3>2, <3>3, <3>6, Answered DEF LoginRefused
    <3>4. CASE request.msgid = "LOGIN_MSG" /\ UNCHANGED toClient /\ signingIn' = request.id /\ InsertEntry(request.id)
      BY <2>3, <3>1, <3>2, <3>4, <3>6 DEF InsertEntry
    <3>5. CASE toClient' = Append(toClient, [msgid |-> "REG_MSG_ACK"]) /\ UNCHANGED <<signingIn, mapVars>>
      BY <2>3, <3>1, <3>2, <3>5, Answered
    <3> QED BY <1>11, <2>2, <2>4, <3>3, <3>4, <3>5 DEF OnMessage
  <2>5. CASE request.msgid \notin {"LOGIN_MSG", "REG_MSG"}
    <3>1. UNCHANGED <<toClient, signingIn>> /\ (UNCHANGED mapVars \/ request.msgid = "LOGINOUT_MSG")
      BY <1>11, <2>2, <2>5 DEF OnMessage
    <3>2. \A i \in 1..Len(toServer') :
             toServer'[i] = toServer[n + i] /\ n + i \in 1..Len(toServer) /\ (n + i = Len(toServer) => i = Len(toServer'))
      BY <2>2
    <3>3. toServer # <<>> 
      BY <2>2
    <3>4. main # "exited" /\ server = "open" =>
            /\ main = "login" => ~ g_isLoginSuccess
            /\ \A j \in 1..Len(toClient) : ~ (toClient[j].msgid = "LOGIN_MSG_ACK" /\ toClient[j].errno = 0)
            /\ main = "signedIn" => UNCHANGED <<routes, contested>>
      BY <2>2, <3>1, <3>3
    <3> QED BY <2>3, <2>5, <3>1, <3>2, <3>3, <3>4
  <2> QED BY <2>4, <2>5
<1>12. CASE LoginDone
  BY <1>12 DEF LoginDone, LoginAnswer
<1>13. CASE OnClose
  BY <1>13 DEF OnClose
<1>14. CASE Push
  BY <1>14 DEF Push
<1>15. CASE Terminate
  BY <1>15 DEF Terminate
<1>16. ASSUME NEW u \in Users, OtherLogin(u) PROVE Routed'
  BY <1>16 DEF OtherLogin
<1>17. ASSUME NEW u \in Users, OtherLoginout(u) PROVE Routed'
  BY <1>17 DEF OtherLoginout
<1>18. CASE UNCHANGED vars
  BY <1>18 DEF vars
<1> QED BY <1>1, <1>2, <1>3, <1>4, <1>5, <1>6, <1>7, <1>8, <1>9, <1>10, <1>11, <1>12, <1>13, <1>14, <1>15, <1>16, <1>17, <1>18 DEF Next, Main, Chooses, Reader, Serves, Others

\* and routes to those who sign in or out.
LEMMA SingleStep ==
    ASSUME TypeOK, Paired, Routed, Single, [Next]_vars
    PROVE  Single'
<1> USE ClientAssumption DEF TypeOK, Paired, Routed, Waits, IsAnswer, NoAnswer, Requests, Answers, Owner, Chunks, Single, SigningIn, SigningOut, clientVars, serverVars, mapVars
<1>1. CASE WakeLogin
  BY <1>1 DEF WakeLogin
<1>2. CASE WakeRegister
  BY <1>2 DEF WakeRegister
<1>3. CASE ChooseRegister
  BY <1>3 DEF ChooseRegister, Send
<1>4. CASE ChooseQuit
  BY <1>4 DEF ChooseQuit
<1>5. CASE Command
  BY <1>5 DEF Command, Send
<1>6. CASE loginout
  <2>1. /\ main = "signedIn"
        /\ UNCHANGED <<server, dropped, routes, toClient, signingIn, g_isLoginSuccess, g_currentUser>>
    BY <1>6 DEF loginout
  <2>2. CASE server # "open"
    BY <2>1, <2>2
  <2>3. CASE server = "open"
    <3>1. toServer' = Append(toServer, [msgid |-> "LOGINOUT_MSG", id |-> g_currentUser])
      BY <1>6, <2>3 DEF loginout, Send
    <3>2. /\ Len(toServer') = Len(toServer) + 1
          /\ toServer'[Len(toServer) + 1] = [msgid |-> "LOGINOUT_MSG", id |-> g_currentUser]
          /\ \A i \in 1..Len(toServer) : toServer'[i] = toServer[i]
      BY <3>1
    <3>3. \A v : \A i \in 1..Len(toServer) : SigningOut(v, i) => SigningOut(v, i)'
      BY <3>2
    <3>4. \A v : \A i \in 1..Len(toServer') : v = g_currentUser /\ i = Len(toServer) + 1 => SigningOut(v, i)'
      BY <2>1, <3>2
    <3>5. ~ dropped => \A v \in routes : SigningIn(v)' \/ \E i \in 1..Len(toServer') : SigningOut(v, i)'
      BY <2>1, <2>3, <3>2, <3>3, <3>4
    <3>6. ~ dropped => \A i \in 1..Len(toServer') : toServer'[i].msgid = "LOGIN_MSG" =>
                          \A v \in routes : \E k \in 1..i - 1 : SigningOut(v, k)'
      <4> SUFFICES ASSUME ~ dropped, NEW i \in 1..Len(toServer'), toServer'[i].msgid = "LOGIN_MSG", NEW v \in routes
                   PROVE  \E k \in 1..i - 1 : SigningOut(v, k)'
        OBVIOUS
      <4>1. i \in 1..Len(toServer) /\ toServer[i].msgid = "LOGIN_MSG"
        BY <3>2
      <4>2. PICK k \in 1..i - 1 : SigningOut(v, k)
        BY <2>3, <4>1
      <4> QED BY <3>3, <4>1, <4>2
    <3> QED BY <2>1, <2>3, <3>5, <3>6
  <2> QED BY <2>2, <2>3
<1>7. ASSUME NEW u \in Users, ChooseLogin(u) PROVE Single'
  <2>1. main = "menu" /\ signingIn = None /\ NoAnswer /\ UNCHANGED <<server, dropped, routes, toClient, signingIn>>
    BY <1>7 DEF ChooseLogin
  <2>2. CASE server # "open"
    BY <2>1, <2>2
  <2>3. CASE server = "open"
    <3>1. toServer' = Append(toServer, [msgid |-> "LOGIN_MSG", id |-> u])
      BY <1>7, <2>3 DEF ChooseLogin, Send
    <3>2. /\ Len(toServer') = Len(toServer) + 1
          /\ toServer'[Len(toServer) + 1] = [msgid |-> "LOGIN_MSG", id |-> u]
          /\ \A i \in 1..Len(toServer) : toServer'[i] = toServer[i]
      BY <3>1
    <3>3. ~ dropped => \A v \in routes : \E i \in 1..Len(toServer) : SigningOut(v, i)
      BY <2>1, <2>3
    <3>4. ~ dropped => \A v \in routes : \E i \in 1..Len(toServer) : SigningOut(v, i)'
      BY <3>2, <3>3
    <3>5. \A i \in 1..Len(toServer') : toServer'[i].msgid = "LOGIN_MSG" => i = Len(toServer) + 1
      BY <2>1, <3>2
    <3> QED BY <2>1, <2>3, <3>2, <3>4, <3>5
  <2> QED BY <2>2, <2>3
<1>8. CASE Recv
  <2> DEFINE answer == toClient[1]
  <2>1. /\ toClient # <<>> /\ Head(toClient) = answer /\ Len(toClient') = Len(toClient) - 1
        /\ \A j \in 1..Len(toClient') : toClient'[j] = toClient[j + 1]
        /\ UNCHANGED <<main, server, dropped, routes, toServer, signingIn>>
    BY <1>8 DEF Recv
  <2>2. CASE answer.msgid = "LOGIN_MSG_ACK"
    <3>1. main = "login" /\ ~ g_isLoginSuccess /\ \A j \in 1..Len(toClient) : IsAnswer(toClient[j]) => j = 1
      BY <1>8, <2>1, <2>2 DEF Recv
    <3>2. \A v : SigningIn(v) => SigningIn(v)'
      BY <1>8, <2>1, <2>2, <3>1 DEF Recv, doLoginResponse
    <3> HIDE DEF SigningIn
    <3> QED BY <2>1, <3>2
  <2>3. CASE answer.msgid # "LOGIN_MSG_ACK"
    <3>1. UNCHANGED <<g_isLoginSuccess, g_currentUser>>
      BY <1>8, <2>1, <2>3 DEF Recv
    <3>2. ASSUME NEW j \in 1..Len(toClient), toClient[j].msgid = "LOGIN_MSG_ACK"
          PROVE  j - 1 \in 1..Len(toClient') /\ toClient'[j - 1] = toClient[j]
      BY <2>1, <2>3, <3>2
    <3>3. \A v : SigningIn(v) => SigningIn(v)'
      BY <2>1, <3>1, <3>2
    <3> HIDE DEF SigningIn
    <3> QED BY <2>1, <3>3
  <2> QED BY <2>2, <2>3
<1>9. CASE SemPost
  BY <1>9 DEF SemPost
<1>10. CASE RecvFails
  BY <1>10 DEF RecvFails
<1>11. CASE OnMessage
  <2> DEFINE request == toServer[1]
  <2>1. PICK n \in Chunks(toServer) :
             toServer' = SubSeq(toServer, n + 1, Len(toServer)) /\ dropped' = (dropped \/ n > 1)
    BY <1>11 DEF OnMessage
  <2>2. /\ n \in 1..Len(toServer) /\ Head(toServer) = request
        /\ toServer' \in Seq(Requests) /\ Len(toServer') = Len(toServer) - n
        /\ \A i \in 1..Len(toServer') : toServer'[i] = toServer[n + i]
    BY <2>1, Rest
  <2>3. /\ signingIn = None /\ server = "open"
        /\ UNCHANGED <<main, reader, rwsem, g_isLoginSuccess, g_currentUser, server>>
    BY <1>11 DEF OnMessage
  <2> SUFFICES ASSUME ~ dropped, n = 1 PROVE Single'
    <3>1. dropped \/ n > 1 => dropped'
      BY <2>1, Zenon
    <3>2. dropped' => Single'
      OBVIOUS
    <3>3. n = 1 \/ n > 1
      BY <2>2
    <3> QED BY <3>1, <3>2, <3>3
  <2>4. \A v, i : SigningOut(v, i) /\ i # 1 => SigningOut(v, i - 1)'
    BY <2>2
  <2>5. CASE request.msgid = "LOGIN_MSG"
    <3>1. routes = {}
      BY <2>2, <2>3, <2>5
    <3>2. Len(toServer') = 0
      BY <2>2, <2>5
    <3>3. CASE UNCHANGED routes
      BY <2>2, <2>3, <3>1, <3>3
    <3>4. CASE InsertEntry(request.id) /\ signingIn' = request.id
      BY <2>2, <2>3, <3>1, <3>2, <3>4 DEF InsertEntry
    <3> QED BY <1>11, <2>2, <2>5, <3>3, <3>4 DEF OnMessage
  <2>6. CASE request.msgid # "LOGIN_MSG"
    <3>1. UNCHANGED signingIn /\ routes' \subseteq routes
      BY <1>11, <2>2, <2>6 DEF OnMessage, EraseEntry
    <3>2. \A v \in routes' : ~ SigningOut(v, 1)
      BY <1>11, <2>2 DEF OnMessage, EraseEntry
    <3>3. \A v : SigningIn(v) => SigningIn(v)'
      BY <1>11, <2>2, <2>3, <2>6, <3>1, Answered DEF OnMessage
    <3>4. ASSUME NEW v \in routes', NEW i \in 1..Len(toServer), SigningOut(v, i)
          PROVE  i - 1 \in 1..Len(toServer') /\ SigningOut(v, i - 1)'
      <4>1. i # 1
        BY <3>2, <3>4
      <4> QED BY <2>2, <3>4, <4>1
    <3>5. ASSUME NEW i \in 1..Len(toServer'), toServer'[i].msgid = "LOGIN_MSG", NEW v \in routes'
          PROVE  \E k \in 1..i - 1 : SigningOut(v, k)'
      <4>1. i + 1 \in 1..Len(toServer) /\ toServer[i + 1].msgid = "LOGIN_MSG" /\ v \in routes
        BY <2>2, <3>1, <3>5
      <4>2. PICK k \in 1..i : SigningOut(v, k)
        BY <2>3, <4>1
      <4> HIDE DEF SigningOut
      <4>3. SigningOut(v, k - 1)' /\ k - 1 \in 1..Len(toServer')
        BY <2>2, <3>4, <4>1, <4>2
      <4> QED BY <4>2, <4>3
    <3> HIDE DEF SigningIn, SigningOut
    <3> QED BY <2>2, <2>3, <3>1, <3>3, <3>4, <3>5
  <2> QED BY <2>5, <2>6
<1>12. CASE LoginDone
  BY <1>12 DEF LoginDone, LoginAnswer
<1>13. CASE OnClose
  BY <1>13 DEF OnClose
<1>14. CASE Push
  BY <1>14 DEF Push
<1>15. CASE Terminate
  BY <1>15 DEF Terminate
<1>16. ASSUME NEW u \in Users, OtherLogin(u) PROVE Single'
  BY <1>16 DEF OtherLogin
<1>17. ASSUME NEW u \in Users, OtherLoginout(u) PROVE Single'
  BY <1>17 DEF OtherLoginout
<1>18. CASE UNCHANGED vars
  BY <1>18 DEF vars
<1> QED BY <1>1, <1>2, <1>3, <1>4, <1>5, <1>6, <1>7, <1>8, <1>9, <1>10, <1>11, <1>12, <1>13, <1>14, <1>15, <1>16, <1>17, <1>18 DEF Next, Main, Chooses, Reader, Serves, Others

\* The inductive invariant.
ClientInv == TypeOK /\ Paired /\ Routed /\ Single

\* It holds at the start,
LEMMA InitInv == Init => ClientInv
<1> SUFFICES ASSUME Init PROVE ClientInv
  OBVIOUS
<1>1. TypeOK
  <2>1. toServer \in Seq(Requests) /\ toClient \in Seq(Answers)
    BY DEF Init
  <2>2. rwsem \in 0..1 /\ pushed \in 0..MaxPushed
    BY ClientAssumption DEF Init
  <2>3. g_isLoginSuccess \in BOOLEAN /\ dropped \in BOOLEAN
    BY DEF Init
  <2>4. g_currentUser \in Owner /\ signingIn \in Owner
    BY DEF Init, Owner
  <2>6. routes \in SUBSET Users /\ others \in SUBSET Users /\ contested \in SUBSET Users
    BY DEF Init
  <2>5. main = "menu" /\ reader = "recv" /\ server = "open"
    BY DEF Init
  <2> QED BY <2>1, <2>2, <2>3, <2>4, <2>5, <2>6 DEF TypeOK
<1>2. Paired /\ Routed /\ Single
  BY DEF Init, Paired, Routed, Single
<1> QED BY <1>1, <1>2 DEF ClientInv

\* is kept by every step,
LEMMA InvStep == ClientInv /\ [Next]_vars => ClientInv'
BY TypeStep, PairedStep, RoutedStep, SingleStep DEF ClientInv

\* and so holds for ever.
LEMMA Invariance == Spec => []ClientInv
BY InitInv, InvStep, PTL DEF Spec

\* Every reachable state is well typed, for any users and any number of pushed
\* messages.
THEOREM TypeCorrect == Spec => []TypeOK
<1>1. ClientInv => TypeOK
  BY DEF ClientInv
<1> QED BY <1>1, Invariance, PTL

\* While the program shows the menu of a signed-in user and the connection is
\* open, the server has a route to that user, or another client signed in or out
\* as the same one (client.cpp:90-92, chatservice.cpp:52, 79, 116-119).
THEOREM MenuHasRoute == Spec => []MenuMeansRoute
<1>1. ClientInv => MenuMeansRoute
  BY DEF ClientInv, Routed, MenuMeansRoute
<1> QED BY <1>1, Invariance, PTL

\* Back at the first menu, with nothing in the stream, the server has no route to
\* anybody, unless it dropped a login it read together with another message
\* (client.cpp:396-406, chatservice.cpp:113-125, 149-166, chatserver.cpp:29).
THEOREM QuietUsersAreOffline == Spec => []QuietMeansOffline
<1>1. ClientInv => QuietMeansOffline
  <2> SUFFICES ASSUME ClientInv, ~ dropped PROVE QuietMeansOffline
    BY DEF QuietMeansOffline
  <2>1. CASE server = "closed"
    BY <2>1 DEF ClientInv, Single, QuietMeansOffline
  <2>2. ASSUME server = "open", main = "menu", toServer = <<>>, NEW u \in routes PROVE FALSE
    <3>1. signingIn = None /\ \A j \in 1..Len(toClient) : toClient[j].msgid # "LOGIN_MSG_ACK"
      BY <2>2 DEF ClientInv, Paired, Waits, IsAnswer
    <3>2. u \in Users /\ u # None
      BY ClientAssumption DEF ClientInv, TypeOK
    <3>3. ~ SigningIn(u)
      BY <2>2, <3>1, <3>2 DEF SigningIn
    <3> QED BY <2>2, <3>3 DEF ClientInv, Single
  <2> QED BY <2>1, <2>2 DEF QuietMeansOffline
<1> QED BY <1>1, Invariance, PTL

\* At most one message is a question, an answer or a wake-up, and only while the
\* main thread waits.
LEMMA PairedCounts ==
    ASSUME TypeOK, Paired
    PROVE  AnswersPaired
<1> SUFFICES ASSUME main # "exited"
             PROVE  AnswersOnTheWay <= IF Waits THEN 1 ELSE 0
  BY DEF AnswersPaired, Waits
<1> DEFINE asked == {i \in 1..Len(toServer) : toServer[i].msgid \in {"LOGIN_MSG", "REG_MSG"}}
           answered == {j \in 1..Len(toClient) : toClient[j].msgid \in {"LOGIN_MSG_ACK", "REG_MSG_ACK"}}
           working == IF signingIn # None THEN 1 ELSE 0
           posting == IF reader = "post" THEN 1 ELSE 0
<1>1. AnswersOnTheWay = Cardinality(asked) + working + Cardinality(answered) + posting + rwsem
  BY DEF AnswersOnTheWay, Count
<1>2. NoAnswer <=> answered = {}
  BY DEF NoAnswer, IsAnswer
<1>3. Cardinality({}) = 0
  BY FS_EmptySet
<1>4. rwsem \in {0, 1}
  BY DEF TypeOK
<1>5. CASE asked # {}
  <2>1. /\ asked = {Len(toServer)} /\ answered = {} /\ working = 0 /\ posting = 0
        /\ rwsem = 0 /\ Waits
    BY <1>2, <1>5 DEF Paired
  <2>2. Cardinality(asked) = 1
    BY <2>1, FS_Singleton
  <2> HIDE DEF asked, answered, working, posting
  <2> QED BY <1>1, <1>3, <2>1, <2>2
<1>6. CASE asked = {} /\ signingIn # None
  <2>1. answered = {} /\ working = 1 /\ posting = 0 /\ rwsem = 0 /\ Waits
    BY <1>2, <1>6 DEF Paired
  <2> HIDE DEF asked, answered, working, posting
  <2> QED BY <1>1, <1>3, <1>6, <2>1
<1>7. CASE asked = {} /\ signingIn = None /\ answered # {}
  <2>1. PICK j \in 1..Len(toClient) : IsAnswer(toClient[j])
    BY <1>7 DEF IsAnswer
  <2>2. answered = {j} /\ working = 0 /\ posting = 0 /\ rwsem = 0 /\ Waits
    BY <1>7, <2>1 DEF Paired, IsAnswer
  <2>3. Cardinality(answered) = 1
    BY <2>2, FS_Singleton
  <2> HIDE DEF asked, answered, working, posting
  <2> QED BY <1>1, <1>3, <1>7, <2>2, <2>3
<1>8. CASE asked = {} /\ signingIn = None /\ answered = {}
  <2>1. working = 0 /\ (posting = 0 \/ (posting = 1 /\ Waits /\ rwsem = 0)) /\ (rwsem = 0 \/ Waits)
    BY <1>8 DEF Paired
  <2> HIDE DEF asked, answered, working, posting
  <2> QED BY <1>1, <1>3, <1>4, <1>8, <2>1
<1> QED BY <1>5, <1>6, <1>7, <1>8

\* Of a question, the server's work on it, its answer and the wake-up there is at
\* most one at any time, and only while the main thread waits for it: no sem_wait
\* returns for an earlier request (client.cpp:89, 113, 217-223).
THEOREM OneAnswerPerQuestion == Spec => []AnswersPaired
<1>1. ClientInv => AnswersPaired
  BY PairedCounts DEF ClientInv
<1> QED BY <1>1, Invariance, PTL
=============================================================================
