-------------------------- MODULE AgentSideProofs --------------------------
(***************************************************************************)
(* Theorems about the three components that a coding agent meets, for all  *)
(* values of their constants: the session with the server (McpSession),    *)
(* the profile that names the server (AgentIntegration) and the catalog    *)
(* that the server answers from (CatalogSelection).                        *)
(*                                                                         *)
(* The session: the lines still in the pipe are the last ones written, ids *)
(* only grow, and an id is never used twice by a connector, whatever it    *)
(* gives up or opens again: so an answer that names the line that is       *)
(* waited for was written for it.                                          *)
(* The profile: what a call has read or written stood in the profile since *)
(* it began, and it writes only where it read no entry or the record's.    *)
(* The catalog: a finite set can be sorted by any strict order, and the    *)
(* first two of the sorted candidates decide whether one beats the others. *)
(***************************************************************************)
EXTENDS McpSession, AgentIntegration, CatalogSelection,
        FiniteSetTheorems, SequenceTheorems, WellFoundedInduction, TLAPS

-----------------------------------------------------------------------------
(* The session (McpSession).                                                *)

Lines ==
  {m \in [era : {"modern", "legacy", "junk"},
          method : UNION {Methods[e] : e \in DOMAIN Methods},
          id : Ids, form : {"good", "bad", "odd"}, request : Requests \cup {NoRequest}] :
     IsLine(m)}

Connections ==
  [open : BOOLEAN, next : Nat \ {0}, stage : 0..3, waiting : Nat,
   request : Requests \cup {NoRequest}, queries : Nat,
   buffer : Seq(Answers), taken : Seq(Answers)]

TypesOK ==
  /\ peer \in {"connector", "agent"}
  /\ server \in [running : BOOLEAN, initialized : BOOLEAN, ready : BOOLEAN,
                 session : 0..MaxSessions]
  /\ server.ready => server.initialized
  /\ toServer \in Seq(Lines) /\ asked \in Seq(Lines)
  /\ toClient \in Seq(Answers) /\ answered \in Seq(Answers)
  /\ conn \in Connections

\* What the server has still to read is the end of what was written to it,
\* and the ids of the lines grow.
LinesOK ==
  /\ Len(toServer) <= Len(asked)
  /\ \A i \in 1..Len(toServer) : toServer[i] = asked[Handled + i]
  /\ \A i, j \in 1..Len(asked) :
       i < j /\ asked[i].id # NoId /\ asked[j].id # NoId => asked[i].id < asked[j].id
  /\ peer = "agent" => \A i \in 1..Len(asked) : asked[i].id <= i
  /\ peer = "connector" => \A i \in 1..Len(asked) : asked[i].id < conn.next

\* What was answered names lines that were read, in their order.
AnsweredOK ==
  /\ \A j \in 1..Len(answered) :
       answered[j].id # NoId => \E i \in 1..Handled : asked[i].id = answered[j].id
  /\ \A i, j \in 1..Len(answered) :
       i < j /\ answered[i].id # NoId /\ answered[j].id # NoId =>
         answered[i].id < answered[j].id
  /\ server.running =>
       \A i \in 1..Handled :
         asked[i].id # NoId /\ asked[i].form # "odd" =>
           \E j \in 1..Len(answered) : answered[j].id = asked[i].id

Started == Dealt("initialize", TRUE)
Confirmed == Dealt("notifications/initialized", FALSE)

HandshakeOK ==
  peer = "agent" =>
    /\ server.initialized => Started # {}
    /\ server.ready => \E j \in Confirmed : \A i \in Started : i < j

\* How far a query is, and how many ids the queries have used.
QueryOK ==
  /\ conn.open => peer = "connector"
  /\ conn.stage > 0 => conn.open /\ Len(conn.taken) = conn.stage - 1
  /\ ~conn.open => conn.taken = <<>>
  /\ Len(conn.taken) <= 3
  /\ conn.waiting # NoId => conn.stage > 0 /\ conn.waiting < conn.next
  /\ conn.queries <= MaxQueries
  /\ conn.stage = 0 => conn.next <= 3 * conn.queries + 1
  /\ conn.stage > 0 => conn.next <= 3 * conn.queries - 2 + conn.stage
  /\ conn.stage > 0 /\ conn.waiting = NoId =>
       conn.next <= 3 * conn.queries - 3 + conn.stage

\* An answer or a line with the id that is waited for is of this stage.
Own(a) == a.id = conn.waiting => a.method = Stages[conn.stage]

\* What the connector may still read, and what it went by.
PendingOK ==
  /\ \A i \in 1..Len(toClient) : toClient[i].session = server.session
  /\ peer = "connector" => \A i \in 1..Len(toClient) : toClient[i].id < conn.next
  /\ peer = "connector" => \A i \in 1..Len(conn.buffer) : conn.buffer[i].id < conn.next
  /\ conn.waiting # NoId => \A i \in 1..Len(toServer) : Own(toServer[i])
  /\ conn.waiting # NoId => \A i \in 1..Len(toClient) : Own(toClient[i])
  /\ conn.waiting # NoId =>
       \A i \in 1..Len(conn.buffer) :
         /\ Own(conn.buffer[i])
         /\ conn.buffer[i].id = conn.waiting => conn.buffer[i].session = server.session

TakenOK ==
  \A i \in 1..Len(conn.taken) :
    conn.taken[i].session = server.session /\ conn.taken[i].method = Stages[i]

McpInv ==
  /\ TypesOK /\ LinesOK /\ AnsweredOK /\ HandshakeOK /\ QueryOK /\ PendingOK /\ TakenOK

-----------------------------------------------------------------------------
(* Lines and answers.                                                       *)

LEMMA Bounds == MaxId \in Nat /\ Ids = 0..MaxId /\ MaxQueries \in Nat /\ MaxLines \in Nat
                /\ MaxSessions \in Nat \ {0} /\ MaxId = 3 * MaxQueries + MaxLines
BY BoundsAssumption DEF MaxId, Ids

LEMMA LineFields ==
  ASSUME NEW m \in Lines
  PROVE  /\ m.id \in Nat /\ m.id \in Ids
         /\ m.method \in UNION {Methods[e] : e \in DOMAIN Methods}
         /\ m.request \in Requests \cup {NoRequest}
         /\ m.era = "junk" => m.id = NoId
  BY Bounds DEF Lines, IsLine

LEMMA AnswerFields ==
  ASSUME NEW a \in Answers
  PROVE  a.id \in Nat
  BY Bounds DEF Answers

\* a is an answer of this server to m, and names it unless it could not be
\* handled.
Replies(m, a) ==
  /\ a \in Answers /\ a.id \in {m.id, NoId}
  /\ a.method = m.method /\ a.session = server.session
  /\ m.id # NoId /\ m.form # "odd" => a.id = m.id

LEMMA SomeAnswer ==
  ASSUME TypesOK, NEW m \in Lines
  PROVE  /\ \A ok \in BOOLEAN : Replies(m, Answer(m, ok))
         /\ m.id = NoId \/ m.form = "odd" => Replies(m, Unhandled(m))
<1>1. server.session \in 0..MaxSessions BY DEF TypesOK
<1>2. NoId \in Ids BY Bounds DEF NoId
<1>3. ASSUME NEW ok \in BOOLEAN PROVE Replies(m, Answer(m, ok))
  BY <1>1, LineFields DEF Answer, Answers, Replies
<1>4. ASSUME m.id = NoId \/ m.form = "odd" PROVE Replies(m, Unhandled(m))
  BY <1>1, <1>2, <1>4, LineFields DEF Unhandled, Answer, Answers, Replies
<1> QED BY <1>3, <1>4

LEMMA ReplyOf ==
  ASSUME TypesOK, NEW m \in Lines
  PROVE  Replies(m, Reply(m))
<1>1. Replies(m, ToolAnswer(m))
  <2>1. CASE m.form = "odd" BY <2>1, SomeAnswer DEF ToolAnswer
  <2>2. CASE m.form # "odd"
    <3>1. (m.form = "good") \in BOOLEAN OBVIOUS
    <3>2. Replies(m, Answer(m, m.form = "good")) BY <3>1, SomeAnswer, Zenon
    <3> QED BY <2>2, <3>2 DEF ToolAnswer
  <2> QED BY <2>1, <2>2
<1>2. Replies(m, LegacyAnswer(m))
  <2>1. CASE m.id = NoId BY <2>1, SomeAnswer DEF LegacyAnswer
  <2>2. CASE m.id # NoId /\ m.method = "tools/call" BY <1>1, <2>2 DEF LegacyAnswer
  <2>3. CASE m.id # NoId /\ m.method # "tools/call"
    <3>1. (m.form = "good" /\ m.method \in {"initialize", "tools/list"}) \in BOOLEAN OBVIOUS
    <3>2. Replies(m, Answer(m, m.form = "good" /\ m.method \in {"initialize", "tools/list"}))
      BY <3>1, SomeAnswer, Zenon
    <3> QED BY <2>3, <3>2 DEF LegacyAnswer
  <2> QED BY <2>1, <2>2, <2>3
<1>3. Replies(m, ModernAnswer(m))
  <2>1. CASE m.id # NoId /\ m.method = "tools/call" BY <1>1, <2>1 DEF ModernAnswer
  <2>2. CASE ~(m.id # NoId /\ m.method = "tools/call")
    <3>1. (/\ m.id # NoId /\ m.form = "good"
           /\ m.method \in {"server/discover", "tools/list"}) \in BOOLEAN
      OBVIOUS
    <3>2. Replies(m, Answer(m, /\ m.id # NoId /\ m.form = "good"
                               /\ m.method \in {"server/discover", "tools/list"}))
      BY <3>1, SomeAnswer, Zenon
    <3> QED BY <2>2, <3>2 DEF ModernAnswer
  <2> QED BY <2>1, <2>2
<1>4. CASE m.era = "junk" BY <1>4, LineFields, SomeAnswer DEF Reply
<1>5. CASE m.era = "modern" BY <1>3, <1>5 DEF Reply
<1>6. CASE m.era \notin {"junk", "modern"}
  <2>1. CASE m.method # "initialize" /\ ~Ready BY <1>6, <2>1, SomeAnswer DEF Reply
  <2>2. CASE ~(m.method # "initialize" /\ ~Ready) BY <1>2, <1>6, <2>2 DEF Reply
  <2> QED BY <2>1, <2>2
<1> QED BY <1>4, <1>5, <1>6

\* What the server does with the next line of its pipe.
LEMMA Served ==
  ASSUME TypesOK, LinesOK, Serve
  PROVE  \E m \in Lines :
           /\ m = Head(toServer) /\ toServer # <<>>
           /\ Len(toServer) > 0 /\ m = toServer[1] /\ m = asked[Handled + 1]
           /\ Handled \in Nat /\ Handled + 1 <= Len(asked)
           /\ toServer' \in Seq(Lines) /\ Len(toServer') = Len(toServer) - 1
           /\ \A i \in 1..Len(toServer') : toServer'[i] = toServer[i + 1]
           /\ asked' = asked /\ Handled' = Handled + 1 /\ server' = After(m)
           /\ \/ Unanswered(m) /\ UNCHANGED <<toClient, answered>>
              \/ /\ ~Unanswered(m)
                 /\ toClient' = Append(toClient, Reply(m))
                 /\ answered' = Append(answered, Reply(m))
<1>1. toServer \in Seq(Lines) /\ toServer # <<>> BY DEF TypesOK, Serve
<1>2. Len(toServer) \in Nat \ {0} BY <1>1, EmptySeq
<1>3. /\ Head(toServer) \in Lines /\ Tail(toServer) \in Seq(Lines)
      /\ Len(Tail(toServer)) = Len(toServer) - 1
      /\ \A i \in 1..Len(Tail(toServer)) : Tail(toServer)[i] = toServer[i + 1]
  BY <1>1, HeadTailProperties
<1>4. PICK m \in Lines : m = Head(toServer) BY <1>3
<1>5. m = toServer[1] BY <1>1, <1>4
<1>6. m = asked[Handled + 1] BY <1>2, <1>5 DEF LinesOK
<1>7. toServer' = Tail(toServer) /\ asked' = asked /\ server' = After(m) BY <1>4 DEF Serve
<1>8. Len(asked) \in Nat BY LenProperties DEF TypesOK
<1>9. /\ Handled \in Nat /\ Handled + 1 <= Len(asked) /\ Handled' = Handled + 1
  BY <1>2, <1>3, <1>7, <1>8 DEF LinesOK, Handled
<1>10. \/ Unanswered(m) /\ UNCHANGED <<toClient, answered>>
       \/ /\ ~Unanswered(m)
          /\ toClient' = Append(toClient, Reply(m))
          /\ answered' = Append(answered, Reply(m))
  <2>1. CASE Unanswered(m)
    BY <1>4, <2>1, ConcatEmptySeq DEF Serve, TypesOK
  <2>2. CASE ~Unanswered(m)
    BY <1>4, <2>2, ReplyOf, AppendIsConcat DEF Serve, TypesOK, Replies
  <2> QED BY <2>1, <2>2
<1> QED BY <1>1, <1>2, <1>3, <1>4, <1>5, <1>6, <1>7, <1>9, <1>10

-----------------------------------------------------------------------------
(* The server.                                                              *)

LEMMA InitMcpInv == Init => McpInv
<1> SUFFICES ASSUME Init PROVE McpInv OBVIOUS
<1>1. /\ <<>> \in Seq(Lines) /\ <<>> \in Seq(Answers)
      /\ toServer = <<>> /\ toClient = <<>> /\ asked = <<>> /\ answered = <<>>
  BY EmptySeq DEF Init
<1>2. /\ conn \in Connections /\ conn.next = 1 /\ conn.stage = 0 /\ conn.waiting = NoId
      /\ conn.queries = 0 /\ conn.buffer = <<>> /\ conn.taken = <<>> /\ ~conn.open
  BY <1>1 DEF Init, Connections, NoId
<1>3. /\ server \in [running : BOOLEAN, initialized : BOOLEAN, ready : BOOLEAN,
                     session : 0..MaxSessions]
      /\ ~server.ready /\ ~server.initialized
  <2>1. CASE peer = "agent"
    <3>1. server = [running |-> TRUE, initialized |-> FALSE, ready |-> FALSE, session |-> 1]
      BY <2>1 DEF Init, Fresh
    <3>2. 1 \in 0..MaxSessions BY Bounds
    <3> QED BY <3>1, <3>2
  <2>2. CASE peer # "agent"
    <3>1. server = [running |-> FALSE, initialized |-> FALSE, ready |-> FALSE, session |-> 0]
      BY <2>2 DEF Init, Fresh
    <3>2. 0 \in 0..MaxSessions BY Bounds
    <3> QED BY <3>1, <3>2
  <2> QED BY <2>1, <2>2
<1>4. TypesOK BY <1>1, <1>2, <1>3 DEF TypesOK, Init
<1>5. LinesOK /\ AnsweredOK BY <1>1 DEF LinesOK, AnsweredOK, Handled
<1>6. HandshakeOK BY <1>3 DEF HandshakeOK
<1>7. QueryOK BY <1>1, <1>2, Bounds DEF QueryOK
<1>8. PendingOK /\ TakenOK BY <1>1, <1>2 DEF PendingOK, TakenOK
<1> QED BY <1>4, <1>5, <1>6, <1>7, <1>8 DEF McpInv

\* A line changes the session as the handshake demands.
LEMMA AfterLine ==
  ASSUME TypesOK, NEW m \in Lines
  PROVE  /\ After(m) \in [running : BOOLEAN, initialized : BOOLEAN, ready : BOOLEAN,
                          session : 0..MaxSessions]
         /\ After(m).ready => After(m).initialized
         /\ After(m).session = server.session /\ After(m).running = server.running
         /\ After(m).initialized =>
              server.initialized \/ (/\ m.era = "legacy" /\ m.method = "initialize"
                                     /\ m.form = "good" /\ m.id # NoId)
         /\ After(m).ready =>
              \/ /\ server.ready
                 /\ ~(/\ m.era = "legacy" /\ m.method = "initialize"
                      /\ m.form = "good" /\ m.id # NoId)
              \/ /\ m.era = "legacy" /\ m.method = "notifications/initialized"
                 /\ m.form = "good" /\ m.id = NoId /\ server.initialized
<1>1. PICK r \in BOOLEAN : r = (server.ready \/ Confirms(m))
  BY DEF Confirms
<1>2. CASE m.era = "legacy" /\ IsNotification(m)
  <2>1. After(m) = [server EXCEPT !.ready = r] BY <1>1, <1>2 DEF After
  <2> QED BY <1>1, <1>2, <2>1 DEF TypesOK, IsNotification, Notifications, Confirms
<1>3. CASE /\ m.era = "legacy" /\ ~IsNotification(m)
           /\ m.method = "initialize" /\ LegacyAnswer(m).ok
  <2>1. After(m) = [server EXCEPT !.initialized = TRUE, !.ready = FALSE] BY <1>3 DEF After
  <2>2. m.id # NoId /\ m.form = "good"
    BY <1>3 DEF LegacyAnswer, Unhandled, Answer
  <2> QED BY <1>3, <2>1, <2>2 DEF TypesOK
<1>4. CASE After(m) = server
           /\ ~(m.era = "legacy" /\ m.method = "initialize" /\ LegacyAnswer(m).ok)
  <2>1. ~(m.era = "legacy" /\ m.method = "initialize" /\ m.form = "good" /\ m.id # NoId)
    BY <1>4 DEF LegacyAnswer, Answer
  <2> QED BY <1>4, <2>1 DEF TypesOK
<1> QED BY <1>2, <1>3, <1>4 DEF After, IsNotification, Notifications

LEMMA ServeTypes ==
  ASSUME McpInv, Serve
  PROVE  TypesOK'
<1> USE DEF McpInv
<1>1. PICK m \in Lines :
        /\ toServer' \in Seq(Lines) /\ server' = After(m)
        /\ \/ UNCHANGED <<toClient, answered>>
           \/ toClient' = Append(toClient, Reply(m)) /\ answered' = Append(answered, Reply(m))
  BY Served
<1>2. PICK a \in Answers : a = Reply(m) BY ReplyOf DEF Replies
<1>3. toClient' \in Seq(Answers) /\ answered' \in Seq(Answers)
  <2>1. CASE UNCHANGED <<toClient, answered>> BY <2>1 DEF TypesOK
  <2>2. CASE toClient' = Append(toClient, a) /\ answered' = Append(answered, a)
    <3>1. toClient \in Seq(Answers) /\ answered \in Seq(Answers) BY DEF TypesOK
    <3>2. Append(toClient, a) \in Seq(Answers) /\ Append(answered, a) \in Seq(Answers)
      BY <3>1, AppendProperties
    <3> QED BY <2>2, <3>2
  <2> QED BY <1>1, <1>2, <2>1, <2>2
<1>4. peer' = peer /\ asked' = asked /\ conn' = conn BY DEF Serve
<1> QED BY <1>1, <1>3, <1>4, AfterLine DEF TypesOK

LEMMA ServeLines ==
  ASSUME McpInv, Serve
  PROVE  LinesOK'
<1> USE DEF McpInv
<1>1. /\ Handled \in Nat /\ Handled + 1 <= Len(asked) /\ Handled' = Handled + 1
      /\ Len(toServer') = Len(toServer) - 1 /\ toServer' \in Seq(Lines)
      /\ \A i \in 1..Len(toServer') : toServer'[i] = toServer[i + 1]
      /\ asked' = asked
  BY Served
<1>2. Len(toServer) \in Nat /\ Len(asked) \in Nat /\ Len(toServer') \in Nat
  BY <1>1, LenProperties DEF TypesOK
<1>3. ASSUME NEW i \in 1..Len(toServer') PROVE toServer'[i] = asked'[Handled' + i]
  <2>1. i + 1 \in 1..Len(toServer) /\ Handled + (i + 1) = (Handled + 1) + i BY <1>1, <1>2
  <2> QED BY <1>1, <2>1 DEF LinesOK
<1>4. peer' = peer /\ conn' = conn BY DEF Serve
<1> QED BY <1>1, <1>2, <1>3, <1>4 DEF LinesOK

LEMMA ServeAnswered ==
  ASSUME McpInv, Serve
  PROVE  AnsweredOK'
<1> USE DEF McpInv
<1>1. PICK m \in Lines :
        /\ m = asked[Handled + 1] /\ Handled \in Nat /\ Handled + 1 <= Len(asked)
        /\ asked' = asked /\ Handled' = Handled + 1
        /\ \/ Unanswered(m) /\ UNCHANGED <<toClient, answered>>
           \/ /\ ~Unanswered(m)
              /\ toClient' = Append(toClient, Reply(m))
              /\ answered' = Append(answered, Reply(m))
  BY Served
<1>2. /\ asked \in Seq(Lines) /\ Len(asked) \in Nat /\ Len(answered) \in Nat
      /\ answered \in Seq(Answers)
  BY LenProperties DEF TypesOK
<1>3. \A i \in 1..Len(asked) : asked[i] \in Lines /\ asked[i].id \in Nat
  BY <1>2, ElementOfSeq, LineFields
<1>4. server.running BY DEF Serve
<1>5. CASE Unanswered(m) /\ UNCHANGED <<toClient, answered>>
  <2>1. m.id = NoId BY <1>5 DEF Unanswered, IsNotification
  <2>2. ASSUME NEW i \in 1..Handled', asked[i].id # NoId, asked[i].form # "odd"
        PROVE  \E j \in 1..Len(answered) : answered[j].id = asked[i].id
    <3>1. i \in 1..Handled BY <1>1, <2>1, <2>2
    <3> QED BY <1>4, <2>2, <3>1 DEF AnsweredOK
  <2>3. \A i \in 1..Handled : i \in 1..Handled' BY <1>1
  <2> QED BY <1>1, <1>5, <2>2, <2>3 DEF AnsweredOK
<1>6. CASE ~Unanswered(m) /\ answered' = Append(answered, Reply(m))
  <2>1. PICK a \in Answers : a = Reply(m) /\ Replies(m, a) BY ReplyOf DEF Replies
  <2>2. /\ Len(answered') = Len(answered) + 1 /\ answered'[Len(answered) + 1] = a
        /\ \A j \in 1..Len(answered) : answered'[j] = answered[j]
    BY <1>2, <1>6, <2>1, AppendProperties
  <2>3. \A i \in 1..Handled : i \in 1..Handled' /\ i \in 1..Len(asked) BY <1>1, <1>2
  <2>4. Handled + 1 \in 1..Handled' /\ Handled + 1 \in 1..Len(asked) BY <1>1, <1>2
  <2>5. a.id # NoId => a.id = asked[Handled + 1].id BY <1>1, <2>1 DEF Replies
  <2>6. ASSUME NEW j \in 1..Len(answered'), answered'[j].id # NoId
        PROVE  \E i \in 1..Handled' : asked[i].id = answered'[j].id
    <3>1. CASE j = Len(answered) + 1 BY <2>2, <2>4, <2>5, <2>6, <3>1
    <3>2. CASE j # Len(answered) + 1
      <4>1. j \in 1..Len(answered) BY <1>2, <2>2, <3>2
      <4>2. PICK i \in 1..Handled : asked[i].id = answered[j].id
        BY <2>2, <2>6, <4>1 DEF AnsweredOK
      <4> QED BY <2>2, <2>3, <4>1, <4>2
    <3> QED BY <3>1, <3>2
  <2>7. ASSUME NEW i \in 1..Len(answered'), NEW j \in 1..Len(answered'), i < j,
               answered'[i].id # NoId, answered'[j].id # NoId
        PROVE  answered'[i].id < answered'[j].id
    <3>1. i \in 1..Len(answered) BY <1>2, <2>2, <2>7
    <3>2. CASE j = Len(answered) + 1
      <4>1. PICK n \in 1..Handled : asked[n].id = answered[i].id
        BY <2>2, <2>7, <3>1 DEF AnsweredOK
      <4>2. n < Handled + 1 /\ n \in 1..Len(asked) BY <1>1, <1>2
      <4>3. asked[n].id # NoId /\ asked[Handled + 1].id # NoId
        BY <2>2, <2>5, <2>7, <3>1, <3>2, <4>1
      <4>4. asked[n].id < asked[Handled + 1].id
        BY <2>4, <4>2, <4>3 DEF LinesOK
      <4> QED BY <2>2, <2>5, <2>7, <3>1, <3>2, <4>1, <4>4
    <3>3. CASE j # Len(answered) + 1
      <4>1. j \in 1..Len(answered) BY <1>2, <2>2, <3>3
      <4> QED BY <2>2, <2>7, <3>1, <4>1 DEF AnsweredOK
    <3> QED BY <3>2, <3>3
  <2>8. ASSUME NEW i \in 1..Handled', asked[i].id # NoId, asked[i].form # "odd"
        PROVE  \E j \in 1..Len(answered') : answered'[j].id = asked[i].id
    <3>1. CASE i = Handled + 1
      <4>1. a.id = m.id BY <1>1, <2>1, <2>8, <3>1 DEF Replies
      <4>2. Len(answered) + 1 \in 1..Len(answered') BY <1>2, <2>2
      <4> QED BY <1>1, <2>2, <3>1, <4>1, <4>2
    <3>2. CASE i # Handled + 1
      <4>1. i \in 1..Handled BY <1>1, <3>2
      <4>2. PICK j \in 1..Len(answered) : answered[j].id = asked[i].id
        BY <1>4, <2>8, <4>1 DEF AnsweredOK
      <4>3. j \in 1..Len(answered') BY <1>2, <2>2
      <4> QED BY <2>2, <4>2, <4>3
    <3> QED BY <3>1, <3>2
  <2> QED BY <1>1, <2>6, <2>7, <2>8 DEF AnsweredOK
<1> QED BY <1>1, <1>5, <1>6

LEMMA ServeHandshake ==
  ASSUME McpInv, Serve
  PROVE  HandshakeOK'
<1> USE DEF McpInv
<1>1. PICK m \in Lines :
        /\ m = asked[Handled + 1] /\ Handled \in Nat /\ Handled + 1 <= Len(asked)
        /\ asked' = asked /\ Handled' = Handled + 1 /\ server' = After(m)
  BY Served
<1>2. SUFFICES ASSUME peer = "agent"
      PROVE  /\ server'.initialized => Started' # {}
             /\ server'.ready => \E j \in Confirmed' : \A i \in Started' : i < j
  BY DEF HandshakeOK, Serve
<1>3. \A i : i \in Started' <=>
        \/ i \in Started
        \/ /\ i = Handled + 1 /\ m.era = "legacy" /\ m.method = "initialize"
           /\ m.form = "good" /\ m.id # NoId
  BY <1>1 DEF Started, Dealt
<1>4. \A i : i \in Confirmed' <=>
        \/ i \in Confirmed
        \/ /\ i = Handled + 1 /\ m.era = "legacy" /\ m.method = "notifications/initialized"
           /\ m.form = "good" /\ m.id = NoId
  BY <1>1 DEF Confirmed, Dealt
<1>5. \A i \in Started : i < Handled + 1 BY <1>1 DEF Started, Dealt
<1>6. server'.initialized => Started' # {}
  <2>1. CASE server.initialized BY <1>2, <1>3, <2>1 DEF HandshakeOK
  <2>2. CASE ~server.initialized /\ server'.initialized
    <3>1. m.era = "legacy" /\ m.method = "initialize" /\ m.form = "good" /\ m.id # NoId
      BY <1>1, <2>2, AfterLine
    <3> QED BY <1>3, <3>1
  <2> QED BY <2>1, <2>2
<1>7. ASSUME server'.ready PROVE \E j \in Confirmed' : \A i \in Started' : i < j
  <2>1. CASE /\ server.ready
             /\ ~(/\ m.era = "legacy" /\ m.method = "initialize"
                  /\ m.form = "good" /\ m.id # NoId)
    <3>1. PICK j \in Confirmed : \A i \in Started : i < j BY <1>2, <2>1 DEF HandshakeOK
    <3> QED BY <1>3, <1>4, <2>1, <3>1
  <2>2. CASE /\ m.era = "legacy" /\ m.method = "notifications/initialized"
             /\ m.form = "good" /\ m.id = NoId
    <3>1. Handled + 1 \in Confirmed' BY <1>4, <2>2
    <3>2. \A i \in Started' : i \in Started BY <1>3, <2>2
    <3> QED BY <1>5, <3>1, <3>2
  <2> QED BY <1>1, <1>7, <2>1, <2>2, AfterLine
<1> QED BY <1>6, <1>7

LEMMA ServePending ==
  ASSUME McpInv, Serve
  PROVE  PendingOK' /\ TakenOK' /\ QueryOK'
<1> USE DEF McpInv
<1>1. PICK m \in Lines :
        /\ Len(toServer) > 0 /\ m = toServer[1] /\ m = asked[Handled + 1]
        /\ Handled \in Nat /\ Handled + 1 <= Len(asked)
        /\ toServer' \in Seq(Lines) /\ Len(toServer') = Len(toServer) - 1
        /\ \A i \in 1..Len(toServer') : toServer'[i] = toServer[i + 1]
        /\ server' = After(m)
        /\ \/ UNCHANGED toClient
           \/ toClient' = Append(toClient, Reply(m))
  BY Served
<1>2. server'.session = server.session BY <1>1, AfterLine
<1>3. peer' = peer /\ conn' = conn BY DEF Serve
<1>4. /\ Len(toServer) \in Nat /\ Len(toServer') \in Nat /\ Len(toClient) \in Nat
      /\ Len(asked) \in Nat /\ toClient \in Seq(Answers)
  BY <1>1, LenProperties DEF TypesOK
<1>5. PICK a \in Answers : a = Reply(m) /\ Replies(m, a) BY ReplyOf DEF Replies
<1>6. ASSUME NEW i \in 1..Len(toServer')
      PROVE  toServer'[i] = toServer[i + 1] /\ i + 1 \in 1..Len(toServer)
  BY <1>1, <1>4
<1>7. 1 \in 1..Len(toServer) /\ Handled + 1 \in 1..Len(asked) BY <1>1, <1>4
<1>8. ASSUME NEW i \in 1..Len(toClient')
      PROVE  \/ i \in 1..Len(toClient) /\ toClient'[i] = toClient[i]
             \/ toClient'[i] = a
  <2>1. CASE UNCHANGED toClient BY <1>8, <2>1
  <2>2. CASE toClient' = Append(toClient, a)
    <3>1. /\ Len(toClient') = Len(toClient) + 1 /\ toClient'[Len(toClient) + 1] = a
          /\ \A j \in 1..Len(toClient) : toClient'[j] = toClient[j]
      BY <1>4, <2>2, AppendProperties
    <3> QED BY <1>4, <1>8, <3>1
  <2> QED BY <1>1, <1>5, <2>1, <2>2
<1>9. a.session = server.session BY <1>5 DEF Replies
<1>10. ASSUME peer = "connector" PROVE a.id < conn.next
  <2>1. conn.next \in Nat \ {0} BY DEF TypesOK, Connections
  <2>2. m.id < conn.next BY <1>1, <1>7, <1>10 DEF LinesOK
  <2> QED BY <1>5, <2>1, <2>2 DEF Replies, NoId
<1>11. ASSUME conn.waiting # NoId PROVE Own(a)
  <2>1. Own(m) BY <1>1, <1>7, <1>11 DEF PendingOK
  <2>2. a.id \in {m.id, NoId} /\ a.method = m.method BY <1>5 DEF Replies
  <2> QED BY <1>11, <2>1, <2>2 DEF Own
<1>12. \A i \in 1..Len(toClient') : toClient'[i].session = server'.session
  BY <1>2, <1>8, <1>9 DEF PendingOK
<1>13. peer = "connector" => \A i \in 1..Len(toClient') : toClient'[i].id < conn.next
  BY <1>8, <1>10 DEF PendingOK
<1>14. conn.waiting # NoId => \A i \in 1..Len(toServer') : Own(toServer'[i])
  BY <1>6 DEF PendingOK
<1>15. conn.waiting # NoId => \A i \in 1..Len(toClient') : Own(toClient'[i])
  BY <1>8, <1>11 DEF PendingOK
<1>16. PendingOK' BY <1>2, <1>3, <1>12, <1>13, <1>14, <1>15 DEF PendingOK, Own
<1>17. TakenOK' /\ QueryOK' BY <1>2, <1>3 DEF TakenOK, QueryOK
<1> QED BY <1>16, <1>17

LEMMA ServeStep ==
  ASSUME McpInv, Serve
  PROVE  McpInv'
BY ServeTypes, ServeLines, ServeAnswered, ServeHandshake, ServePending DEF McpInv

LEMMA DieStep ==
  ASSUME McpInv, Die
  PROVE  McpInv'
<1> USE DEF McpInv
<1>1. UNCHANGED <<peer, tools, toServer, toClient, asked, answered, conn>> BY DEF Die
<1>2. /\ server' \in [running : BOOLEAN, initialized : BOOLEAN, ready : BOOLEAN,
                      session : 0..MaxSessions]
      /\ server'.ready = server.ready /\ server'.initialized = server.initialized
      /\ server'.session = server.session /\ ~server'.running
  BY DEF Die, TypesOK
<1>3. TypesOK' BY <1>1, <1>2 DEF TypesOK
<1>4. LinesOK' BY <1>1 DEF LinesOK, Handled
<1>5. AnsweredOK' BY <1>1, <1>2 DEF AnsweredOK, Handled
<1>6. HandshakeOK' BY <1>1, <1>2 DEF HandshakeOK, Started, Confirmed, Dealt, Handled
<1>7. QueryOK' /\ TakenOK' BY <1>1, <1>2 DEF QueryOK, TakenOK
<1>8. PendingOK' BY <1>1, <1>2 DEF PendingOK, Own
<1> QED BY <1>3, <1>4, <1>5, <1>6, <1>7, <1>8

-----------------------------------------------------------------------------
(* A line is written to the server.                                         *)

LEMMA LineWritten ==
  ASSUME McpInv, NEW m \in Lines, toServer' = Append(toServer, m), asked' = Append(asked, m),
         UNCHANGED <<peer, server, toClient, answered>>,
         m.id # NoId => \A i \in 1..Len(asked) : asked[i].id < m.id,
         peer = "agent" => m.id <= Len(asked) + 1 /\ conn' = conn,
         peer = "connector" => m.id < conn'.next /\ conn.next < conn'.next /\ conn'.next \in Nat
  PROVE  /\ toServer' \in Seq(Lines) /\ asked' \in Seq(Lines)
         /\ LinesOK' /\ AnsweredOK' /\ HandshakeOK'
         /\ \A i \in 1..Len(toServer') :
              (i \in 1..Len(toServer) /\ toServer'[i] = toServer[i]) \/ toServer'[i] = m
<1> USE DEF McpInv
<1>1. /\ toServer \in Seq(Lines) /\ asked \in Seq(Lines)
      /\ Len(toServer) \in Nat /\ Len(asked) \in Nat
  BY LenProperties DEF TypesOK
<1>2. /\ toServer' \in Seq(Lines) /\ Len(toServer') = Len(toServer) + 1
      /\ toServer'[Len(toServer) + 1] = m
      /\ \A i \in 1..Len(toServer) : toServer'[i] = toServer[i]
  BY <1>1, AppendProperties
<1>3. /\ asked' \in Seq(Lines) /\ Len(asked') = Len(asked) + 1
      /\ asked'[Len(asked) + 1] = m
      /\ \A i \in 1..Len(asked) : asked'[i] = asked[i]
  BY <1>1, AppendProperties
<1>4. Handled' = Handled /\ Handled \in Nat /\ Handled <= Len(asked)
  BY <1>1, <1>2, <1>3 DEF Handled, LinesOK
<1>5. \A i \in 1..Handled : i \in 1..Len(asked) /\ asked'[i] = asked[i] BY <1>1, <1>3, <1>4
<1>6. ASSUME NEW i \in 1..Len(asked')
      PROVE  (i \in 1..Len(asked) /\ asked'[i] = asked[i]) \/ (i = Len(asked) + 1 /\ asked'[i] = m)
  BY <1>1, <1>3
<1>7. ASSUME NEW i \in 1..Len(toServer')
      PROVE  \/ i \in 1..Len(toServer) /\ toServer'[i] = toServer[i]
             \/ i = Len(toServer) + 1 /\ toServer'[i] = m
  BY <1>1, <1>2
<1>8. LinesOK'
  <2>1. Len(toServer') <= Len(asked') BY <1>1, <1>2, <1>3 DEF LinesOK
  <2>2. ASSUME NEW i \in 1..Len(toServer') PROVE toServer'[i] = asked'[Handled' + i]
    <3>1. CASE i \in 1..Len(toServer)
      <4>1. Handled + i \in 1..Len(asked) BY <1>1, <1>4, <3>1 DEF Handled
      <4> QED BY <1>2, <1>3, <1>4, <3>1, <4>1 DEF LinesOK
    <3>2. CASE i = Len(toServer) + 1
      <4>1. Handled + i = Len(asked) + 1 BY <1>1, <1>4, <3>2 DEF Handled
      <4> QED BY <1>2, <1>3, <1>4, <3>2, <4>1
    <3> QED BY <1>7, <3>1, <3>2
  <2>3. ASSUME NEW i \in 1..Len(asked'), NEW j \in 1..Len(asked'), i < j,
               asked'[i].id # NoId, asked'[j].id # NoId
        PROVE  asked'[i].id < asked'[j].id
    <3>1. i \in 1..Len(asked) /\ asked'[i] = asked[i] BY <1>1, <1>3, <2>3
    <3>2. CASE j = Len(asked) + 1 BY <1>3, <2>3, <3>1, <3>2
    <3>3. CASE j \in 1..Len(asked) BY <1>3, <2>3, <3>1, <3>3 DEF LinesOK
    <3> QED BY <1>6, <3>2, <3>3
  <2>4. peer' = "agent" => \A i \in 1..Len(asked') : asked'[i].id <= i
    BY <1>6 DEF LinesOK
  <2>5. peer' = "connector" => \A i \in 1..Len(asked') : asked'[i].id < conn'.next
    <3> SUFFICES ASSUME peer = "connector", NEW i \in 1..Len(asked')
                 PROVE  asked'[i].id < conn'.next
      OBVIOUS
    <3>1. CASE i \in 1..Len(asked) /\ asked'[i] = asked[i]
      <4>1. asked[i] \in Lines BY <1>1, <3>1, ElementOfSeq
      <4>2. asked[i].id \in Nat /\ conn.next \in Nat /\ asked[i].id < conn.next
        BY <3>1, <4>1, LineFields DEF LinesOK, TypesOK, Connections
      <4> QED BY <3>1, <4>2
    <3>2. CASE asked'[i] = m BY <3>2
    <3> QED BY <1>6, <3>1, <3>2
  <2> QED BY <2>1, <2>2, <2>3, <2>4, <2>5 DEF LinesOK
<1>9. AnsweredOK' BY <1>4, <1>5 DEF AnsweredOK
<1>10. Started' = Started /\ Confirmed' = Confirmed
  BY <1>4, <1>5 DEF Started, Confirmed, Dealt
<1>11. HandshakeOK' BY <1>10 DEF HandshakeOK
<1> QED BY <1>2, <1>3, <1>7, <1>8, <1>9, <1>11

\* An agent's ids count its lines.
LEMMA AgentWritesStep ==
  ASSUME McpInv, NEW era \in DOMAIN Methods, NEW method \in Methods[era],
         NEW form \in Forms(era, method), NEW id \in {NoId, Len(asked) + 1},
         AgentWrites(era, method, id, form)
  PROVE  McpInv'
<1> USE DEF McpInv
<1>1. /\ peer = "agent" /\ Len(asked) < MaxLines /\ (era = "junk" => id = NoId)
      /\ UNCHANGED <<peer, tools, server, toClient, answered, conn>>
  BY DEF AgentWrites
<1>2. asked \in Seq(Lines) /\ Len(asked) \in Nat BY LenProperties DEF TypesOK
<1>3. id \in Ids /\ id \in Nat /\ id <= Len(asked) + 1 BY <1>1, <1>2, Bounds DEF NoId
<1>4. form \in {"good", "bad", "odd"} /\ era \in {"modern", "legacy", "junk"}
  BY DEF Forms, Methods
<1>5. PICK m \in Lines :
        m = [era |-> era, method |-> method, id |-> id, form |-> form, request |-> NoRequest]
  BY <1>1, <1>3, <1>4 DEF Lines, IsLine
<1>6. toServer' = Append(toServer, m) /\ asked' = Append(asked, m) BY <1>5 DEF AgentWrites
<1>7. m.id = id BY <1>5
<1>8. m.id # NoId => \A i \in 1..Len(asked) : asked[i].id < m.id
  <2> SUFFICES ASSUME m.id # NoId, NEW i \in 1..Len(asked) PROVE asked[i].id < m.id OBVIOUS
  <2>1. asked[i].id <= i BY <1>1 DEF LinesOK
  <2>2. asked[i] \in Lines BY <1>2, ElementOfSeq
  <2>3. asked[i].id \in Nat BY <2>2, LineFields
  <2> QED BY <1>2, <1>7, <2>1, <2>3
<1>9. /\ toServer' \in Seq(Lines) /\ asked' \in Seq(Lines)
      /\ LinesOK' /\ AnsweredOK' /\ HandshakeOK'
  BY <1>1, <1>3, <1>6, <1>7, <1>8, LineWritten
<1>10. TypesOK' BY <1>1, <1>9 DEF TypesOK
<1>11. QueryOK' /\ TakenOK' BY <1>1 DEF QueryOK, TakenOK
<1>12. conn.waiting = NoId BY <1>1 DEF QueryOK, TypesOK, Connections
<1>13. PendingOK' BY <1>1, <1>12 DEF PendingOK
<1> QED BY <1>9, <1>10, <1>11, <1>13

LEMMA IdleConnection ==
  ASSUME conn \in Connections
  PROVE  /\ Idle \in Connections /\ Idle.stage = 0 /\ Idle.waiting = NoId
         /\ Idle.open = conn.open /\ Idle.next = conn.next /\ Idle.queries = conn.queries
         /\ Idle.buffer = conn.buffer /\ Idle.taken = conn.taken
<1>1. 0 \in 0..3 /\ NoId \in Nat /\ NoRequest \in Requests \cup {NoRequest} BY DEF NoId
<1> QED BY <1>1 DEF Idle, Connections

\* A connection with other results in its hands.
LEMMA HoldsNow ==
  ASSUME NEW c \in Connections, NEW b \in Seq(Answers), NEW t \in Seq(Answers),
         conn' = [c EXCEPT !.buffer = b, !.taken = t]
  PROVE  /\ conn' \in Connections /\ conn'.stage = c.stage /\ conn'.waiting = c.waiting
         /\ conn'.open = c.open /\ conn'.next = c.next /\ conn'.queries = c.queries
         /\ conn'.buffer = b /\ conn'.taken = t
  BY DEF Connections

\* The connector's ids go on, whatever was given up before.
LEMMA WriteStep ==
  ASSUME McpInv, Write
  PROVE  McpInv'
<1> USE DEF McpInv
<1>1. /\ conn.stage \in 1..3 /\ conn.waiting = NoId /\ peer = "connector" /\ conn.open
      /\ conn \in Connections
      /\ UNCHANGED <<peer, tools, server, toClient, answered>>
  BY DEF Write, QueryOK, TypesOK, Connections
<1>2. conn.next \in Nat \ {0} /\ conn.queries \in Nat /\ conn.buffer \in Seq(Answers)
  BY <1>1 DEF Connections
<1>3. CASE /\ conn' = [conn EXCEPT !.waiting = conn.next, !.next = @ + 1]
           /\ LET m == [era |-> "modern", method |-> Stages[conn.stage], id |-> conn.next,
                        form |-> "good",
                        request |-> IF conn.stage = 3 THEN conn.request ELSE NoRequest] IN
                toServer' = Append(toServer, m) /\ asked' = Append(asked, m)
  <2>1. conn.next \in Ids
    <3>1. conn.next <= 3 * conn.queries - 3 + conn.stage /\ conn.queries <= MaxQueries
      BY <1>1 DEF QueryOK
    <3> QED BY <1>1, <1>2, <3>1, Bounds
  <2>2. Stages[conn.stage] \in {"server/discover", "tools/list", "tools/call"}
    BY <1>1 DEF Stages
  <2>3. /\ Stages[conn.stage] \in Methods["modern"] /\ "modern" \in DOMAIN Methods
        /\ "good" \in Forms("modern", Stages[conn.stage])
    BY <2>2 DEF Methods, Forms
  <2>4. (IF conn.stage = 3 THEN conn.request ELSE NoRequest) \in Requests \cup {NoRequest}
    BY <1>1 DEF Connections
  <2>5. PICK m \in Lines :
          m = [era |-> "modern", method |-> Stages[conn.stage], id |-> conn.next,
               form |-> "good",
               request |-> IF conn.stage = 3 THEN conn.request ELSE NoRequest]
    BY <2>1, <2>3, <2>4 DEF Lines, IsLine
  <2>6. m.id = conn.next /\ m.method = Stages[conn.stage] BY <2>5
  <2>7. toServer' = Append(toServer, m) /\ asked' = Append(asked, m) BY <1>3, <2>5
  <2>8. /\ conn' \in Connections /\ conn'.next = conn.next + 1 /\ conn'.waiting = conn.next
        /\ conn'.stage = conn.stage /\ conn'.open = conn.open /\ conn'.taken = conn.taken
        /\ conn'.queries = conn.queries /\ conn'.buffer = conn.buffer
    <3>1. PICK n \in Nat \ {0} : n = conn.next + 1 BY <1>2
    <3>2. conn' = [conn EXCEPT !.waiting = conn.next, !.next = n] BY <1>1, <1>3, <3>1
    <3>3. conn.next \in Nat BY <1>2
    <3>4. conn' \in Connections /\ conn'.next = n /\ conn'.waiting = conn.next
      BY <1>1, <3>2, <3>3 DEF Connections
    <3> QED BY <1>1, <3>1, <3>2, <3>4 DEF Connections
  <2>9. \A i \in 1..Len(asked) : asked[i].id < conn.next BY <1>1 DEF LinesOK
  <2>10. /\ toServer' \in Seq(Lines) /\ asked' \in Seq(Lines)
         /\ LinesOK' /\ AnsweredOK' /\ HandshakeOK'
         /\ \A i \in 1..Len(toServer') :
              (i \in 1..Len(toServer) /\ toServer'[i] = toServer[i]) \/ toServer'[i] = m
    BY <1>1, <1>2, <2>6, <2>7, <2>8, <2>9, LineWritten
  <2>11. TypesOK' BY <1>1, <2>8, <2>10 DEF TypesOK
  <2>12. QueryOK' BY <1>1, <1>2, <2>8 DEF QueryOK, NoId
  <2>13. TakenOK' BY <1>1, <2>8 DEF TakenOK
  <2>14. ASSUME NEW i \in 1..Len(toServer')
         PROVE  toServer'[i].id = conn'.waiting => toServer'[i].method = Stages[conn'.stage]
    <3>1. CASE i \in 1..Len(toServer) /\ toServer'[i] = toServer[i]
      <4>1. Handled + i \in 1..Len(asked) /\ toServer[i] = asked[Handled + i]
        <5>1. Len(asked) \in Nat /\ Len(toServer) \in Nat BY LenProperties DEF TypesOK
        <5> QED BY <3>1, <5>1 DEF LinesOK, Handled
      <4>2. asked[Handled + i].id < conn.next BY <2>9, <4>1
      <4>3. toServer'[i].id # conn'.waiting BY <1>2, <2>8, <3>1, <4>1, <4>2
      <4> QED BY <4>3
    <3>2. CASE toServer'[i] = m BY <2>6, <2>8, <3>2
    <3> QED BY <2>10, <3>1, <3>2
  <2>15. ASSUME NEW i \in 1..Len(toClient)
         PROVE  toClient[i].id # conn.next /\ toClient[i].id < conn'.next
    <3>1. toClient[i] \in Answers /\ toClient[i].id < conn.next
      BY <1>1, ElementOfSeq DEF TypesOK, PendingOK
    <3> QED BY <1>2, <2>8, <3>1, AnswerFields
  <2>16. ASSUME NEW i \in 1..Len(conn.buffer)
         PROVE conn.buffer[i].id # conn.next /\ conn.buffer[i].id < conn'.next
    <3>1. conn.buffer[i] \in Answers /\ conn.buffer[i].id < conn.next
      BY <1>1, <1>2, ElementOfSeq DEF PendingOK
    <3> QED BY <1>2, <2>8, <3>1, AnswerFields
  <2>17. PendingOK'
    <3>1. \A i \in 1..Len(toClient) : toClient[i].session = server.session
      BY DEF PendingOK
    <3> QED BY <1>1, <2>8, <2>14, <2>15, <2>16, <3>1 DEF PendingOK, Own
  <2> QED BY <2>10, <2>11, <2>12, <2>13, <2>17
<1>4. CASE /\ ~server.running
           /\ conn' = [Idle EXCEPT !.next = @ + 1, !.taken = <<>>]
           /\ UNCHANGED <<toServer, asked>>
  <2>1. <<>> \in Seq(Answers) BY EmptySeq
  <2>2. /\ conn' \in Connections /\ conn'.next = conn.next + 1 /\ conn'.waiting = NoId
        /\ conn'.stage = 0 /\ conn'.open = conn.open /\ conn'.taken = <<>>
        /\ conn'.queries = conn.queries /\ conn'.buffer = conn.buffer
    <3>1. PICK n \in Nat \ {0} : n = conn.next + 1 BY <1>2
    <3>2. PICK c \in Connections : c = Idle BY <1>1, IdleConnection
    <3>3. conn' = [c EXCEPT !.next = n, !.taken = <<>>] BY <1>1, <1>4, <3>1, <3>2, IdleConnection
    <3>4. conn' \in Connections BY <2>1, <3>3 DEF Connections
    <3> QED BY <1>1, <3>1, <3>2, <3>3, <3>4, IdleConnection DEF Connections
  <2>3. TypesOK' BY <1>1, <1>4, <2>2 DEF TypesOK
  <2>4. QueryOK' BY <1>1, <1>2, <2>2, EmptySeq DEF QueryOK
  <2>5. AnsweredOK' /\ HandshakeOK'
    BY <1>1, <1>4 DEF AnsweredOK, HandshakeOK, Started, Confirmed, Dealt, Handled
  <2>6. TakenOK' BY <2>2 DEF TakenOK
  <2>7. ASSUME NEW i \in 1..Len(asked) PROVE asked[i].id < conn'.next
    <3>1. asked[i] \in Lines /\ asked[i].id < conn.next
      BY <1>1, ElementOfSeq DEF TypesOK, LinesOK
    <3> QED BY <1>2, <2>2, <3>1, LineFields
  <2>8. LinesOK' BY <1>1, <1>4, <2>7 DEF LinesOK, Handled
  <2>9. ASSUME NEW i \in 1..Len(toClient) PROVE toClient[i].id < conn'.next
    <3>1. toClient[i] \in Answers /\ toClient[i].id < conn.next
      BY <1>1, ElementOfSeq DEF TypesOK, PendingOK
    <3> QED BY <1>2, <2>2, <3>1, AnswerFields
  <2>10. ASSUME NEW i \in 1..Len(conn.buffer) PROVE conn.buffer[i].id < conn'.next
    <3>1. conn.buffer[i] \in Answers /\ conn.buffer[i].id < conn.next
      BY <1>1, <1>2, ElementOfSeq DEF PendingOK
    <3> QED BY <1>2, <2>2, <3>1, AnswerFields
  <2>11. PendingOK' BY <1>1, <2>2, <2>9, <2>10 DEF PendingOK
  <2> QED BY <2>3, <2>4, <2>5, <2>6, <2>8, <2>11
<1> QED BY <1>3, <1>4 DEF Write

-----------------------------------------------------------------------------
(* The connector reads and gives up.                                        *)

\* The connector changes nothing but its own state.
LEMMA ConnectorOnly ==
  ASSUME McpInv, UNCHANGED <<peer, server, toServer, asked, answered>>,
         conn' \in Connections, conn'.next = conn.next, toClient' \in Seq(Answers)
  PROVE  TypesOK' /\ LinesOK' /\ AnsweredOK' /\ HandshakeOK'
<1> USE DEF McpInv
<1>1. TypesOK' BY DEF TypesOK
<1>2. LinesOK' BY DEF LinesOK, Handled
<1>3. AnsweredOK' BY DEF AnsweredOK, Handled
<1>4. HandshakeOK' BY DEF HandshakeOK, Started, Confirmed, Dealt, Handled
<1> QED BY <1>1, <1>2, <1>3, <1>4

\* What is taken from a pipe or a buffer is part of it.
LEMMA PartOf ==
  ASSUME NEW s \in Seq(Answers), NEW n \in 1..Len(s)
  PROVE  /\ SubSeq(s, 1, n) \in Seq(Answers) /\ SubSeq(s, n + 1, Len(s)) \in Seq(Answers)
         /\ \A i \in 1..Len(SubSeq(s, 1, n)) : i \in 1..Len(s) /\ SubSeq(s, 1, n)[i] = s[i]
         /\ \A i \in 1..Len(SubSeq(s, n + 1, Len(s))) :
              \E j \in 1..Len(s) : SubSeq(s, n + 1, Len(s))[i] = s[j]
<1>1. Len(s) \in Nat BY LenProperties
<1>2. \A i \in 1..Len(s) : s[i] \in Answers BY ElementOfSeq
<1>3. /\ SubSeq(s, 1, n) \in Seq(Answers) /\ Len(SubSeq(s, 1, n)) = n
      /\ \A i \in 1..n : SubSeq(s, 1, n)[i] = s[i]
  <2>1. \A i \in 1..n : s[i] \in Answers BY <1>1, <1>2
  <2> QED BY <1>1, <2>1, SubSeqProperties
<1>4. /\ SubSeq(s, n + 1, Len(s)) \in Seq(Answers)
      /\ Len(SubSeq(s, n + 1, Len(s))) = IF n + 1 <= Len(s) THEN Len(s) - n ELSE 0
      /\ \A i \in 1..(Len(s) - n) : SubSeq(s, n + 1, Len(s))[i] = s[n + i]
  <2>1. \A i \in (n + 1)..Len(s) : s[i] \in Answers BY <1>1, <1>2
  <2>2. n + 1 \in Int /\ Len(s) \in Int /\ Len(s) - (n + 1) + 1 = Len(s) - n BY <1>1
  <2>3. \A i \in 1..(Len(s) - n) : n + 1 + i - 1 = n + i BY <1>1
  <2> QED BY <2>1, <2>2, <2>3, SubSeqProperties
<1>5. ASSUME NEW i \in 1..Len(SubSeq(s, n + 1, Len(s)))
      PROVE  \E j \in 1..Len(s) : SubSeq(s, n + 1, Len(s))[i] = s[j]
  <2>1. i \in 1..(Len(s) - n) /\ n + i \in 1..Len(s) BY <1>1, <1>4
  <2> QED BY <1>4, <2>1
<1>6. ASSUME NEW i \in 1..Len(SubSeq(s, 1, n))
      PROVE  i \in 1..Len(s) /\ SubSeq(s, 1, n)[i] = s[i]
  <2>1. i \in 1..n BY <1>3, <1>6
  <2>2. i \in 1..Len(s) BY <1>1, <2>1
  <2> QED BY <1>3, <2>1, <2>2
<1>7. SubSeq(s, 1, n) \in Seq(Answers) BY <1>3
<1>8. SubSeq(s, n + 1, Len(s)) \in Seq(Answers) BY <1>4
<1> QED BY <1>5, <1>6, <1>7, <1>8

LEMMA ReadStep ==
  ASSUME McpInv, NEW n \in 1..Len(toClient), Read(n)
  PROVE  McpInv'
<1> USE DEF McpInv
<1>1. /\ conn.waiting # NoId /\ conn.buffer = <<>>
      /\ conn' = [conn EXCEPT !.buffer = SubSeq(toClient, 1, n)]
      /\ toClient' = SubSeq(toClient, n + 1, Len(toClient))
      /\ UNCHANGED <<peer, tools, server, toServer, asked, answered>>
  BY DEF Read
<1>2. /\ SubSeq(toClient, 1, n) \in Seq(Answers) /\ toClient' \in Seq(Answers)
      /\ \A i \in 1..Len(SubSeq(toClient, 1, n)) :
           i \in 1..Len(toClient) /\ SubSeq(toClient, 1, n)[i] = toClient[i]
      /\ \A i \in 1..Len(toClient') : \E j \in 1..Len(toClient) : toClient'[i] = toClient[j]
  BY <1>1, PartOf DEF TypesOK
<1>3. /\ conn' \in Connections /\ conn'.buffer = SubSeq(toClient, 1, n)
      /\ conn'.next = conn.next /\ conn'.waiting = conn.waiting /\ conn'.stage = conn.stage
      /\ conn'.open = conn.open /\ conn'.taken = conn.taken /\ conn'.queries = conn.queries
  BY <1>1, <1>2 DEF Connections, TypesOK
<1>4. TypesOK' /\ LinesOK' /\ AnsweredOK' /\ HandshakeOK'
  BY <1>1, <1>2, <1>3, ConnectorOnly
<1>5. QueryOK' /\ TakenOK' BY <1>1, <1>3 DEF QueryOK, TakenOK
<1>6. ASSUME NEW i \in 1..Len(conn'.buffer)
      PROVE  i \in 1..Len(toClient) /\ conn'.buffer[i] = toClient[i]
  BY <1>2, <1>3
<1>7. PendingOK'
  <2>1. \A i \in 1..Len(toClient') :
          /\ toClient'[i].session = server'.session
          /\ peer' = "connector" => toClient'[i].id < conn'.next
          /\ toClient'[i].id = conn'.waiting => toClient'[i].method = Stages[conn'.stage]
    <3> SUFFICES ASSUME NEW i \in 1..Len(toClient')
                 PROVE  /\ toClient'[i].session = server'.session
                        /\ peer' = "connector" => toClient'[i].id < conn'.next
                        /\ toClient'[i].id = conn'.waiting =>
                             toClient'[i].method = Stages[conn'.stage]
      OBVIOUS
    <3>1. PICK j \in 1..Len(toClient) : toClient'[i] = toClient[j] BY <1>2
    <3>2. PICK a : a = toClient[j] /\ a = toClient'[i] BY <3>1
    <3>3. /\ a.session = server.session
          /\ peer = "connector" => a.id < conn.next
      BY <3>2 DEF PendingOK
    <3>4. a.id = conn.waiting => a.method = Stages[conn.stage]
      BY <1>1, <3>2 DEF PendingOK, Own
    <3> QED BY <1>1, <1>3, <3>2, <3>3, <3>4
  <2>2. \A i \in 1..Len(conn'.buffer) :
          /\ conn'.buffer[i].session = server'.session
          /\ peer' = "connector" => conn'.buffer[i].id < conn'.next
          /\ conn'.buffer[i].id = conn'.waiting => conn'.buffer[i].method = Stages[conn'.stage]
    BY <1>1, <1>3, <1>6 DEF PendingOK, Own
  <2>3. \A i \in 1..Len(toServer') :
          toServer'[i].id = conn'.waiting => toServer'[i].method = Stages[conn'.stage]
    BY <1>1, <1>3 DEF PendingOK, Own
  <2> QED BY <2>1, <2>2, <2>3 DEF PendingOK, Own
<1> QED BY <1>4, <1>5, <1>7

\* The connector gives up, or is left with some of its buffer.
LEMMA IdleStep ==
  ASSUME McpInv, UNCHANGED <<peer, server, toServer, toClient, asked, answered>>,
         conn' \in Connections, conn'.next = conn.next, conn'.open = conn.open,
         conn'.stage = 0, conn'.waiting = NoId, conn'.queries = conn.queries,
         conn.stage > 0,
         \A i \in 1..Len(conn'.buffer) :
           \E j \in 1..Len(conn.buffer) : conn'.buffer[i] = conn.buffer[j],
         Len(conn'.taken) <= 3, TakenOK'
  PROVE  McpInv'
<1> USE DEF McpInv
<1>1. TypesOK' /\ LinesOK' /\ AnsweredOK' /\ HandshakeOK'
  BY ConnectorOnly DEF TypesOK
<1>2. conn.next \in Nat /\ conn.queries \in Nat /\ conn.stage \in 1..3 /\ conn.open
  BY DEF TypesOK, Connections, QueryOK
<1>3. QueryOK' BY <1>2 DEF QueryOK
<1>4. PendingOK' BY DEF PendingOK
<1> QED BY <1>1, <1>3, <1>4

LEMMA GiveUpStep ==
  ASSUME McpInv, GiveUp
  PROVE  McpInv'
<1> USE DEF McpInv
<1>1. /\ conn' = [Idle EXCEPT !.taken = <<>>] /\ conn.stage > 0
      /\ UNCHANGED <<peer, tools, server, toServer, toClient, asked, answered>>
  BY DEF GiveUp, QueryOK
<1>2. <<>> \in Seq(Answers) BY EmptySeq
<1>3. /\ conn' \in Connections /\ conn'.next = conn.next /\ conn'.open = conn.open
      /\ conn'.stage = 0 /\ conn'.waiting = NoId /\ conn'.queries = conn.queries
      /\ conn'.buffer = conn.buffer /\ conn'.taken = <<>>
  <2>1. conn \in Connections BY DEF TypesOK
  <2>2. PICK c \in Connections :
          /\ c = Idle /\ c.stage = 0 /\ c.waiting = NoId /\ c.open = conn.open
          /\ c.next = conn.next /\ c.queries = conn.queries /\ c.buffer = conn.buffer
    BY <2>1, IdleConnection
  <2>3. PICK b \in Seq(Answers), t \in Seq(Answers) : b = conn.buffer /\ t = <<>>
    BY <1>2, <2>1 DEF Connections
  <2>4. conn' = [c EXCEPT !.buffer = b, !.taken = t]
    BY <1>1, <2>2, <2>3 DEF Connections
  <2> QED BY <2>2, <2>3, <2>4, HoldsNow
<1>4. TakenOK' /\ Len(conn'.taken) <= 3 BY <1>3 DEF TakenOK
<1> QED BY <1>1, <1>3, <1>4, IdleStep

\* An answer is taken only if it names the line that is waited for; then it
\* is of this stage and of the server that runs.
LEMMA TakeStep ==
  ASSUME McpInv, Take
  PROVE  McpInv'
<1> USE DEF McpInv
<1>1. /\ conn.waiting # NoId /\ conn.buffer # <<>> /\ conn.buffer \in Seq(Answers)
      /\ conn.stage \in 1..3 /\ conn.open /\ Len(conn.taken) = conn.stage - 1
      /\ conn.taken \in Seq(Answers) /\ conn \in Connections
      /\ UNCHANGED <<peer, tools, server, toServer, toClient, asked, answered>>
  BY DEF Take, QueryOK, TypesOK, Connections
<1>2. Len(conn.buffer) \in Nat \ {0} BY <1>1, EmptySeq
<1>3. PICK rest \in Seq(Answers) :
        /\ rest = Tail(conn.buffer) /\ Len(rest) = Len(conn.buffer) - 1
        /\ \A i \in 1..Len(rest) : rest[i] = conn.buffer[i + 1]
  BY <1>1, HeadTailProperties
<1>4. PICK a \in Answers : a = Head(conn.buffer) /\ a = conn.buffer[1]
  BY <1>1, <1>2, HeadTailProperties
<1>5. \A i \in 1..Len(rest) : \E j \in 1..Len(conn.buffer) : rest[i] = conn.buffer[j]
  <2> SUFFICES ASSUME NEW i \in 1..Len(rest)
               PROVE  \E j \in 1..Len(conn.buffer) : rest[i] = conn.buffer[j]
    OBVIOUS
  <2>1. i + 1 \in 1..Len(conn.buffer) BY <1>2, <1>3
  <2> QED BY <1>3, <2>1
<1>6. CASE ~Suits(a)
  <2>1. conn' = [Idle EXCEPT !.buffer = rest, !.taken = <<>>] BY <1>3, <1>4, <1>6 DEF Take
  <2>2. <<>> \in Seq(Answers) BY EmptySeq
  <2>3. /\ conn' \in Connections /\ conn'.next = conn.next /\ conn'.open = conn.open
        /\ conn'.stage = 0 /\ conn'.waiting = NoId /\ conn'.queries = conn.queries
        /\ conn'.buffer = rest /\ conn'.taken = <<>>
    <3>1. PICK c \in Connections :
            /\ c = Idle /\ c.stage = 0 /\ c.waiting = NoId /\ c.open = conn.open
            /\ c.next = conn.next /\ c.queries = conn.queries
      BY <1>1, IdleConnection
    <3>2. PICK t \in Seq(Answers) : t = <<>> BY <2>2
    <3>3. conn' = [c EXCEPT !.buffer = rest, !.taken = t] BY <2>1, <3>1, <3>2
    <3> QED BY <3>1, <3>2, <3>3, HoldsNow
  <2>4. TakenOK' /\ Len(conn'.taken) <= 3 BY <2>3 DEF TakenOK
  <2> QED BY <1>1, <1>5, <2>3, <2>4, IdleStep
<1>7. CASE Suits(a)
  <2>1. a.method = Stages[conn.stage] /\ a.session = server.session
    <3>1. a.id = conn.waiting BY <1>7 DEF Suits, Matches
    <3>2. 1 \in 1..Len(conn.buffer) BY <1>2
    <3> QED BY <1>1, <1>4, <3>1, <3>2 DEF PendingOK, Own
  <2>2. PICK took \in Seq(Answers) :
          /\ took = Append(conn.taken, a) /\ Len(took) = conn.stage
          /\ took[conn.stage] = a
          /\ \A i \in 1..(conn.stage - 1) : took[i] = conn.taken[i]
    <3>1. PICK t \in Seq(Answers) : t = Append(conn.taken, a) BY <1>1, AppendProperties
    <3>2. /\ Len(t) = Len(conn.taken) + 1 /\ t[Len(conn.taken) + 1] = a
          /\ \A i \in 1..Len(conn.taken) : t[i] = conn.taken[i]
      BY <1>1, <3>1, AppendProperties
    <3>3. Len(conn.taken) + 1 = conn.stage BY <1>1
    <3> QED BY <1>1, <3>1, <3>2, <3>3
  <2>3. \A i \in 1..Len(took) :
          took[i].session = server.session /\ took[i].method = Stages[i]
    <3> SUFFICES ASSUME NEW i \in 1..Len(took)
                 PROVE  took[i].session = server.session /\ took[i].method = Stages[i]
      OBVIOUS
    <3>1. CASE i = conn.stage BY <2>1, <2>2, <3>1
    <3>2. CASE i # conn.stage
      <4>1. i \in 1..Len(conn.taken) /\ i \in 1..(conn.stage - 1) BY <1>1, <2>2, <3>2
      <4> QED BY <2>2, <4>1 DEF TakenOK
    <3> QED BY <3>1, <3>2
  <2>4. CASE conn.stage < 3
    <3>1. conn' = [conn EXCEPT !.stage = @ + 1, !.waiting = NoId, !.buffer = rest,
                               !.taken = Append(@, a)]
      BY <1>3, <1>4, <1>7, <2>4 DEF Take
    <3>2. /\ conn' \in Connections /\ conn'.next = conn.next /\ conn'.open = conn.open
          /\ conn'.stage = conn.stage + 1 /\ conn'.waiting = NoId
          /\ conn'.queries = conn.queries /\ conn'.buffer = rest /\ conn'.taken = took
      <4>1. PICK n \in 0..3 : n = conn.stage + 1 BY <1>1, <2>4
      <4>2. PICK z \in Nat : z = NoId BY DEF NoId
      <4>3. PICK c \in Connections : c = [conn EXCEPT !.stage = n, !.waiting = z]
        BY <1>1 DEF Connections
      <4>4. conn' = [c EXCEPT !.buffer = rest, !.taken = took]
        BY <1>1, <2>2, <3>1, <4>1, <4>2, <4>3 DEF Connections
      <4>5. /\ c.stage = n /\ c.waiting = z /\ c.next = conn.next /\ c.open = conn.open
            /\ c.queries = conn.queries
        BY <1>1, <4>3 DEF Connections
      <4>6. /\ conn' \in Connections /\ conn'.stage = c.stage /\ conn'.waiting = c.waiting
            /\ conn'.open = c.open /\ conn'.next = c.next /\ conn'.queries = c.queries
            /\ conn'.buffer = rest /\ conn'.taken = took
        BY <4>4, HoldsNow
      <4> QED BY <4>1, <4>2, <4>5, <4>6
    <3>3. TypesOK' /\ LinesOK' /\ AnsweredOK' /\ HandshakeOK'
      BY <1>1, <3>2, ConnectorOnly DEF TypesOK
    <3>4. conn.next \in Nat /\ conn.queries \in Nat BY <1>1 DEF Connections
    <3>5. QueryOK'
      <4>1. conn.next <= 3 * conn.queries - 2 + conn.stage BY <1>1 DEF QueryOK
      <4>2. conn'.next <= 3 * conn'.queries - 3 + conn'.stage BY <1>1, <3>2, <3>4, <4>1
      <4>3. conn'.next <= 3 * conn'.queries - 2 + conn'.stage BY <1>1, <3>2, <3>4, <4>1
      <4>4. Len(conn'.taken) = conn'.stage - 1 /\ Len(conn'.taken) <= 3
        BY <1>1, <2>2, <2>4, <3>2
      <4>5. conn'.stage > 0 /\ conn'.queries <= MaxQueries /\ conn'.open /\ peer' = "connector"
        BY <1>1, <3>2 DEF QueryOK
      <4> QED BY <3>2, <4>2, <4>3, <4>4, <4>5 DEF QueryOK
    <3>6. TakenOK' BY <1>1, <2>3, <3>2 DEF TakenOK
    <3>7. PendingOK' BY <1>1, <1>5, <3>2 DEF PendingOK
    <3> QED BY <3>3, <3>5, <3>6, <3>7
  <2>5. CASE ~(conn.stage < 3)
    <3>1. conn' = [Idle EXCEPT !.buffer = rest, !.taken = Append(@, a)]
      BY <1>3, <1>4, <1>7, <2>5 DEF Take
    <3>2. /\ conn' \in Connections /\ conn'.next = conn.next /\ conn'.open = conn.open
          /\ conn'.stage = 0 /\ conn'.waiting = NoId /\ conn'.queries = conn.queries
          /\ conn'.buffer = rest /\ conn'.taken = took
      <4>1. PICK c \in Connections :
              /\ c = Idle /\ c.stage = 0 /\ c.waiting = NoId /\ c.open = conn.open
              /\ c.next = conn.next /\ c.queries = conn.queries /\ c.taken = conn.taken
        BY <1>1, IdleConnection
      <4>2. conn' = [c EXCEPT !.buffer = rest, !.taken = took]
        BY <1>1, <2>2, <3>1, <4>1 DEF Connections
      <4> QED BY <4>1, <4>2, HoldsNow
    <3>3. TakenOK' /\ Len(conn'.taken) <= 3 BY <1>1, <2>2, <2>3, <3>2 DEF TakenOK
    <3> QED BY <1>1, <1>5, <3>2, <3>3, IdleStep
  <2> QED BY <2>4, <2>5
<1> QED BY <1>6, <1>7

LEMMA BeginQueryStep ==
  ASSUME McpInv, NEW r \in Requests, BeginQuery(r)
  PROVE  McpInv'
<1> USE DEF McpInv
<1>1. /\ conn.open /\ conn.stage = 0 /\ conn.queries < MaxQueries /\ conn \in Connections
      /\ conn.waiting = NoId
      /\ UNCHANGED <<peer, tools, server, toServer, toClient, asked, answered>>
  BY DEF BeginQuery, TypesOK, QueryOK, Connections
<1>2. <<>> \in Seq(Answers) /\ conn.queries \in Nat /\ conn.next \in Nat
  BY <1>1, EmptySeq DEF Connections
<1>3. /\ conn' \in Connections /\ conn'.next = conn.next /\ conn'.open = conn.open
      /\ conn'.stage = 1 /\ conn'.waiting = conn.waiting
      /\ conn'.queries = conn.queries + 1 /\ conn'.buffer = conn.buffer /\ conn'.taken = <<>>
  <2>1. PICK n \in Nat : n = conn.queries + 1 BY <1>2
  <2>2. PICK c \in Connections : c = [conn EXCEPT !.stage = 1, !.request = r, !.queries = n]
    <3>1. r \in Requests \cup {NoRequest} /\ 1 \in 0..3 OBVIOUS
    <3> QED BY <1>1, <3>1 DEF Connections
  <2>3. /\ c.stage = 1 /\ c.waiting = conn.waiting /\ c.next = conn.next /\ c.open = conn.open
        /\ c.queries = n /\ c.buffer = conn.buffer
    BY <1>1, <2>2 DEF Connections
  <2>4. PICK b \in Seq(Answers), t \in Seq(Answers) : b = conn.buffer /\ t = <<>>
    BY <1>1, <1>2 DEF Connections
  <2>5. conn' = [c EXCEPT !.buffer = b, !.taken = t]
    BY <1>1, <2>1, <2>2, <2>4 DEF BeginQuery, Connections
  <2> QED BY <2>1, <2>3, <2>4, <2>5, HoldsNow
<1>4. TypesOK' /\ LinesOK' /\ AnsweredOK' /\ HandshakeOK'
  BY <1>1, <1>3, ConnectorOnly DEF TypesOK
<1>5. QueryOK' BY <1>1, <1>2, <1>3, Bounds DEF QueryOK
<1>6. TakenOK' /\ PendingOK' BY <1>1, <1>3 DEF TakenOK, PendingOK
<1> QED BY <1>4, <1>5, <1>6

\* A new server: the pipes are new, the ids and the buffer go on.
LEMMA OpenStep ==
  ASSUME McpInv, Open
  PROVE  McpInv'
<1> USE DEF McpInv
<1>1. /\ peer = "connector" /\ ~conn.open /\ server.session < MaxSessions
      /\ peer' = peer /\ conn' = [conn EXCEPT !.open = TRUE]
      /\ server' = [running |-> TRUE, initialized |-> FALSE, ready |-> FALSE,
                    session |-> server.session + 1]
      /\ toServer' = <<>> /\ toClient' = <<>> /\ asked' = <<>> /\ answered' = <<>>
  BY DEF Open, Fresh
<1>2. /\ conn' \in Connections /\ conn'.next = conn.next /\ conn'.open
      /\ conn'.stage = conn.stage /\ conn'.waiting = conn.waiting
      /\ conn'.queries = conn.queries /\ conn'.buffer = conn.buffer /\ conn'.taken = conn.taken
  BY <1>1 DEF TypesOK, Connections
<1>3. <<>> \in Seq(Lines) /\ <<>> \in Seq(Answers) BY EmptySeq
<1>4. server.session + 1 \in 0..MaxSessions BY <1>1, Bounds DEF TypesOK
<1>5. TypesOK' BY <1>1, <1>2, <1>3, <1>4 DEF TypesOK
<1>6. LinesOK' /\ AnsweredOK' /\ HandshakeOK'
  BY <1>1 DEF LinesOK, AnsweredOK, HandshakeOK, Handled
<1>7. QueryOK' BY <1>1, <1>2 DEF QueryOK
<1>8. conn.taken = <<>> /\ conn.waiting = NoId
  BY <1>1 DEF QueryOK, TypesOK, Connections
<1>9. TakenOK' /\ PendingOK' BY <1>1, <1>2, <1>8 DEF TakenOK, PendingOK
<1> QED BY <1>5, <1>6, <1>7, <1>9

LEMMA CloseStep ==
  ASSUME McpInv, Close
  PROVE  McpInv'
<1> USE DEF McpInv
<1>1. /\ conn.open /\ conn.stage = 0 /\ peer = "connector"
      /\ conn' = [conn EXCEPT !.open = FALSE, !.taken = <<>>]
      /\ server' = [server EXCEPT !.running = FALSE]
      /\ toServer' = <<>> /\ toClient' = <<>>
      /\ UNCHANGED <<peer, tools, asked, answered>>
  BY DEF Close, QueryOK
<1>2. <<>> \in Seq(Lines) /\ <<>> \in Seq(Answers) BY EmptySeq
<1>3. /\ conn' \in Connections /\ conn'.next = conn.next /\ ~conn'.open
      /\ conn'.stage = conn.stage /\ conn'.waiting = conn.waiting
      /\ conn'.queries = conn.queries /\ conn'.buffer = conn.buffer /\ conn'.taken = <<>>
  BY <1>1, <1>2 DEF TypesOK, Connections
<1>4. /\ server' \in [running : BOOLEAN, initialized : BOOLEAN, ready : BOOLEAN,
                      session : 0..MaxSessions]
      /\ ~server'.running /\ server'.ready = server.ready
      /\ server'.initialized = server.initialized
  BY <1>1 DEF TypesOK
<1>5. TypesOK' BY <1>1, <1>2, <1>3, <1>4 DEF TypesOK
<1>6. Len(asked) \in Nat /\ Len(toServer) \in Nat BY LenProperties DEF TypesOK
<1>7. Len(toServer') = 0 /\ Handled' = Len(asked) /\ Handled <= Len(asked)
  BY <1>1, <1>6 DEF Handled
<1>8. LinesOK' BY <1>1, <1>3, <1>6, <1>7 DEF LinesOK
<1>9. AnsweredOK'
  <2>1. \A i \in 1..Handled : i \in 1..Handled' BY <1>6, <1>7 DEF Handled
  <2> QED BY <1>1, <1>4, <2>1 DEF AnsweredOK
<1>10. HandshakeOK' BY <1>1 DEF HandshakeOK
<1>11. QueryOK' BY <1>1, <1>3 DEF QueryOK
<1>12. conn.waiting = NoId BY <1>1 DEF QueryOK, TypesOK, Connections
<1>13. TakenOK' /\ PendingOK' BY <1>1, <1>3, <1>12 DEF TakenOK, PendingOK
<1> QED BY <1>5, <1>8, <1>9, <1>10, <1>11, <1>13

-----------------------------------------------------------------------------
(* The theorems.                                                            *)

LEMMA NextMcpInv == McpInv /\ [Next]_vars => McpInv'
<1> SUFFICES ASSUME McpInv, [Next]_vars PROVE McpInv' OBVIOUS
<1>1. CASE Serve \/ Die \/ Open \/ Close \/ Write \/ Take \/ GiveUp
  BY <1>1, ServeStep, DieStep, OpenStep, CloseStep, WriteStep, TakeStep, GiveUpStep
<1>2. CASE \E era \in DOMAIN Methods : \E method \in Methods[era] :
             \E form \in Forms(era, method), id \in {NoId, Len(asked) + 1} :
               AgentWrites(era, method, id, form)
  BY <1>2, AgentWritesStep
<1>3. CASE \E r \in Requests : BeginQuery(r) BY <1>3, BeginQueryStep
<1>4. CASE \E n \in 1..Len(toClient) : Read(n) BY <1>4, ReadStep
<1>5. CASE UNCHANGED vars
  <2>1. UNCHANGED <<peer, server, toServer, toClient, asked, answered, conn>>
    BY <1>5 DEF vars
  <2>2. TypesOK' /\ LinesOK' /\ AnsweredOK' /\ HandshakeOK'
    BY <2>1, ConnectorOnly DEF McpInv, TypesOK
  <2>3. QueryOK' /\ TakenOK' BY <2>1 DEF McpInv, QueryOK, TakenOK
  <2>4. PendingOK' BY <2>1 DEF McpInv, PendingOK, Own
  <2> QED BY <2>2, <2>3, <2>4 DEF McpInv
<1> QED BY <1>1, <1>2, <1>3, <1>4, <1>5 DEF Next

LEMMA AlwaysMcpInv == Spec => []McpInv
BY InitMcpInv, NextMcpInv, PTL DEF Spec

\* Lines, answers, the server and the connector keep their types.
\* (mcp_protocol.py, mcp_server.py, connector.py)
THEOREM SessionTypes == Spec => []TypeOK
<1>1. McpInv => TypeOK
  <2> SUFFICES ASSUME McpInv PROVE TypeOK OBVIOUS
  <2> USE DEF McpInv
  <2>1. \A pipe \in {toServer, asked} : \A i \in DOMAIN pipe : IsLine(pipe[i])
    <3> SUFFICES ASSUME NEW pipe \in {toServer, asked}, NEW i \in DOMAIN pipe
                 PROVE  IsLine(pipe[i])
      OBVIOUS
    <3>1. pipe \in Seq(Lines) BY DEF TypesOK
    <3>2. pipe[i] \in Lines BY <3>1, LenProperties, ElementOfSeq
    <3> QED BY <3>2 DEF Lines
  <2>2. \A pipe \in {toClient, answered, conn.buffer, conn.taken} :
          \A i \in DOMAIN pipe : pipe[i] \in Answers
    <3> SUFFICES ASSUME NEW pipe \in {toClient, answered, conn.buffer, conn.taken},
                        NEW i \in DOMAIN pipe
                 PROVE  pipe[i] \in Answers
      OBVIOUS
    <3>1. pipe \in Seq(Answers) BY DEF TypesOK, Connections
    <3> QED BY <3>1, LenProperties, ElementOfSeq
  <2>3. conn.next \in Nat \ {0} /\ conn.stage \in 0..3 /\ conn.waiting \in Nat
        /\ conn.queries \in Nat
    BY DEF TypesOK, Connections
  <2>4. conn.next \in 1..(MaxId + 1)
    <3>1. conn.next <= 3 * conn.queries + 1 BY <2>3 DEF QueryOK
    <3>2. conn.queries <= MaxQueries BY DEF QueryOK
    <3> QED BY <2>3, <3>1, <3>2, Bounds
  <2>5. conn.waiting \in Ids
    <3>1. conn.waiting = NoId \/ conn.waiting < conn.next BY DEF QueryOK
    <3> QED BY <2>3, <2>4, <3>1, Bounds DEF NoId
  <2> QED BY <2>1, <2>2, <2>3, <2>4, <2>5 DEF TypeOK, TypesOK, QueryOK
<1> QED BY <1>1, AlwaysMcpInv, PTL

\* Each answer a query goes by comes from the server that runs now and answers
\* the method of that stage, for any number of queries, time-outs and servers.
\* (connector.py: McpStdioConnector._request, query.)
THEOREM AnswerIsAlwaysOwn == Spec => []AnswerIsOwn
<1>1. McpInv => AnswerIsOwn
  BY LenProperties DEF McpInv, TypesOK, Connections, TakenOK, AnswerIsOwn
<1> QED BY <1>1, AlwaysMcpInv, PTL

\* Every well-formed request with an id is answered under it, once and in
\* order, for any number of lines of both eras.  (mcp_server.py: main;
\* mcp_protocol.py: McpToolSession.handle.)
THEOREM AnswersAlwaysInOrder == Spec => []AnswersInOrder
<1>1. McpInv => AnswersInOrder
  <2> SUFFICES ASSUME McpInv PROVE AnswersInOrder OBVIOUS
  <2>1. DOMAIN answered = 1..Len(answered) BY LenProperties DEF McpInv, TypesOK
  <2> QED BY <2>1 DEF McpInv, AnsweredOK, AnswersInOrder
<1> QED BY <1>1, AlwaysMcpInv, PTL

\* A session that serves initialization-era requests has been through the
\* whole handshake since the last initialize it accepted.  (mcp_protocol.py:
\* McpToolSession.)
THEOREM AlwaysReadyAfterHandshake == Spec => []ReadyAfterHandshake
<1>1. McpInv => ReadyAfterHandshake
  BY DEF McpInv, TypesOK, HandshakeOK, ReadyAfterHandshake, Ready, Started, Confirmed
<1> QED BY <1>1, AlwaysMcpInv, PTL

-----------------------------------------------------------------------------
(* The agent's profile, which names the server (AgentIntegration).          *)

\* Only a connect carries a descriptor; it reaches its second file when it has
\* put the descriptor into the first, and it only writes where it read no
\* entry; a disconnect only writes where it read the entry of the record.
\* What a call has read, and what stands now, are among what stood.
HasRead == {"state", "write", "verify", "record"}

CallOK(c) ==
  LET k == call[c] IN
  /\ k.op # "connect" <=> k.descriptor = Absent
  /\ k.op = "connect" /\ k.step \in {"verify", "record"} => k.descriptor \in held[c]
  /\ k.step = "verify" => k.op = "connect"
  /\ k.step = "write" => MayConnect(k) \/ Removes(k)
  /\ k.step \in HasRead /\ k.profile.entry \in Catalogs => k.profile.entry \in held[c]

AgentInv ==
  /\ IntegrationTypeOK
  /\ \A c \in Calls : CallOK(c)

LEMMA AgentInit == IntegrationInit => AgentInv
<1> SUFFICES ASSUME IntegrationInit PROVE AgentInv
  OBVIOUS
<1>1. IntegrationTypeOK
  BY EntriesAssumption
     DEF IntegrationInit, IntegrationTypeOK, NewCall, CallStates, Empty, Profiles, Ended, Paths
<1>2. \A c \in Calls : CallOK(c)
  BY DEF IntegrationInit, CallOK, NewCall, HasRead
<1>3. QED
  BY <1>1, <1>2 DEF AgentInv

\* What is loaded is a profile.
LEMMA LoadedType ==
  ASSUME IntegrationTypeOK, NEW path \in Paths
  PROVE  Loaded(path) \in Profiles
  BY DEF IntegrationTypeOK, Loaded, Profiles, Empty

\* An ended call is well-formed and has nothing left to do.
LEMMA EndedType ==
  ASSUME NEW report \in Ended
  PROVE  /\ Ends(report) \in CallStates
         /\ Ends(report).op = "none" /\ Ends(report).step = report
         /\ Ends(report).descriptor = Absent
         /\ Ends(report).step \notin HasRead
  BY DEF HasRead, Ends, NewCall, CallStates, Ended, Paths, Profiles,
         Empty

\* While a call runs it forgets nothing that stood, and adds what stands now.
LEMMA HeldGrows ==
  ASSUME AgentInv, Observed, NEW c \in Calls
  PROVE  /\ held' \in [Calls -> SUBSET Catalogs]
         /\ call'[c].step \notin Ended => held[c] \subseteq held'[c]
         /\ call'[c].step \notin Ended /\ Loaded(call[c].path).entry' \in Catalogs =>
              Loaded(call[c].path).entry' \in held'[c]
<1>1. held \in [Calls -> SUBSET Catalogs]
  BY DEF AgentInv, IntegrationTypeOK
<1>2. \A b \in Calls : Standing(b)' \subseteq Catalogs
  BY DEF Standing
<1>3. held' = [b \in Calls |->
                 IF call'[b].step \in Ended THEN {} ELSE held[b] \cup Standing(b)']
  BY DEF Observed
<1>4. held' \in [Calls -> SUBSET Catalogs]
  BY <1>1, <1>2, <1>3
<1>5. call'[c].step \notin Ended => held'[c] = held[c] \cup Standing(c)'
  BY <1>3
<1>6. call'[c].step \notin Ended =>
        Standing(c)' = Catalogs \cap {Loaded(call[c].path).entry'}
  BY DEF Standing
<1>7. QED
  BY <1>4, <1>5, <1>6

\* A step of a call that leaves the files alone and moves the call to a state
\* that is right keeps the invariant; so does a change of the files around it.
LEMMA AgentStep ==
  ASSUME AgentInv, NEW c \in Calls, NEW k \in CallStates,
         call' = [call EXCEPT ![c] = k], Observed,
         UNCHANGED <<migrated, edits>>,
         profile' \in [Paths -> Profiles \cup {Absent}],
         owned' \in Catalogs \cup {Absent},
         k.op # "connect" <=> k.descriptor = Absent,
         k.op = "connect" /\ k.step \in {"verify", "record"} => k.descriptor \in held'[c],
         k.step = "verify" => k.op = "connect",
         k.step = "write" => MayConnect(k) \/ Removes(k),
         k.step \in HasRead /\ k.profile.entry \in Catalogs => k.profile.entry \in held'[c]
  PROVE  AgentInv'
<1>1. call'[c] = k /\ \A b \in Calls : b # c => call'[b] = call[b]
  BY DEF AgentInv, IntegrationTypeOK
<1>2. IntegrationTypeOK'
  BY <1>1, HeldGrows DEF AgentInv, IntegrationTypeOK
<1>3. ASSUME NEW b \in Calls
      PROVE  CallOK(b)'
  <2>1. CASE b = c
    BY <1>1, <2>1 DEF CallOK
  <2>2. CASE b # c
    <3>1. call'[b] = call[b] /\ CallOK(b)
      BY <1>1, <2>2 DEF AgentInv
    <3>2. call[b].step \in HasRead => held[b] \subseteq held'[b]
      BY <3>1, HeldGrows DEF HasRead, Ended
    <3>3. QED
      BY <3>1, <3>2 DEF CallOK, HasRead
  <2>3. QED
    BY <2>1, <2>2
<1>4. QED
  BY <1>2, <1>3 DEF AgentInv

LEMMA AgentNext == AgentInv /\ [IntegrationNext]_integrationVars => AgentInv'
<1> SUFFICES ASSUME AgentInv, [IntegrationNext]_integrationVars PROVE AgentInv'
  OBVIOUS
<1> USE DEF CallStates
<1>1. ASSUME NEW c \in Calls, NEW op \in {"connect", "disconnect", "status"},
             NEW d \in Catalogs \cup {Absent}, op # "connect" <=> d = Absent,
             Begin(c, op, d)
      PROVE  AgentInv'
  <2> DEFINE k == [NewCall EXCEPT !.op = op, !.descriptor = d, !.step = "profile",
                                        !.path = Selected]
  <2>1. /\ k \in CallStates /\ k.op = op /\ k.descriptor = d /\ k.step = "profile"
        /\ k.step \notin HasRead
    BY DEF NewCall, Selected, Paths, Profiles, Empty, HasRead
  <2> HIDE DEF k
  <2>2. call' = [call EXCEPT ![c] = k] /\ UNCHANGED <<profile, migrated, owned, edits>> /\ Observed
    BY <1>1 DEF Begin, k
  <2>3. QED
    BY <1>1, <2>1, <2>2, AgentStep DEF AgentInv, IntegrationTypeOK
<1>2. ASSUME NEW c \in Calls, ReadProfile(c)
      PROVE  AgentInv'
  <2> DEFINE k == [call[c] EXCEPT !.step = "state", !.profile = Loaded(call[c].path)]
  <2>1. call[c] \in CallStates
    BY DEF AgentInv, IntegrationTypeOK
  <2>2. Loaded(call[c].path) \in Profiles
    BY <2>1, LoadedType DEF AgentInv
  <2>3. /\ k \in CallStates /\ k.op = call[c].op /\ k.step = "state"
        /\ k.descriptor = call[c].descriptor
        /\ k.profile.entry = Loaded(call[c].path).entry /\ k.path = call[c].path
    BY <2>1, <2>2
  <2>4. k.op # "connect" <=> k.descriptor = Absent
    BY <2>3 DEF AgentInv, CallOK
  <2> HIDE DEF k
  <2>5. call' = [call EXCEPT ![c] = k] /\ UNCHANGED <<profile, migrated, owned, edits>> /\ Observed
    BY <1>2 DEF ReadProfile, k
  <2>6. k.profile.entry \in Catalogs => k.profile.entry \in held'[c]
    <3>1. call'[c].step \notin Ended
      BY <2>3, <2>5 DEF Ended, AgentInv, IntegrationTypeOK
    <3>2. Loaded(call[c].path).entry' = k.profile.entry
      <4>1. call'[c].path = call[c].path /\ profile' = profile
        BY <2>3, <2>5 DEF AgentInv, IntegrationTypeOK
      <4>2. QED
        BY <2>3, <4>1 DEF Loaded
    <3>3. Observed
      BY <2>5
    <3>4. Loaded(call[c].path).entry' \in Catalogs => Loaded(call[c].path).entry' \in held'[c]
      BY <3>1, <3>3, HeldGrows
    <3>5. QED
      BY <3>2, <3>4
  <2>7. QED
    BY <2>3, <2>4, <2>5, <2>6, AgentStep DEF AgentInv, IntegrationTypeOK
<1>3. ASSUME NEW c \in Calls, ReadState(c)
      PROVE  AgentInv'
  <2> DEFINE k == [call[c] EXCEPT !.owned = owned]
  <2>1. /\ call[c] \in CallStates /\ owned \in Catalogs \cup {Absent}
        /\ call[c].op # "connect" <=> call[c].descriptor = Absent
    BY DEF AgentInv, IntegrationTypeOK, CallOK
  <2>2. /\ k \in CallStates /\ k.op = call[c].op /\ k.descriptor = call[c].descriptor
        /\ k.profile = call[c].profile
    BY <2>1
  <2> HIDE DEF k
  <2>3. UNCHANGED <<profile, migrated, owned, edits>> /\ Observed
    BY <1>3 DEF ReadState
  <2>4. CASE Goes(k) = "done"
    <3>1. Outcome(k) \in Ended
      BY DEF Outcome, Ended
    <3>2. call' = [call EXCEPT ![c] = Ends(Outcome(k))]
      BY <1>3, <2>4 DEF ReadState, k
    <3>3. Ends(Outcome(k)).step \notin {"verify", "record", "write"}
      BY <3>1, EndedType DEF Ended
    <3>4. QED
      BY <2>3, <3>1, <3>2, <3>3, EndedType, AgentStep
         DEF AgentInv, IntegrationTypeOK
  <2>5. CASE Goes(k) # "done"
    <3> DEFINE n == [k EXCEPT !.step = Goes(k)]
    <3>1. call' = [call EXCEPT ![c] = n]
      BY <1>3, <2>5 DEF ReadState, k
    <3>2. Goes(k) \in {"write", "record"}
      BY <2>5 DEF Goes
    <3>3. /\ n \in CallStates /\ n.op = k.op /\ n.descriptor = k.descriptor
          /\ n.step = Goes(k) /\ n.profile = k.profile /\ n.owned = k.owned
      BY <2>2, <3>2
    <3> HIDE DEF n
    <3>4. n.step = "write" => MayConnect(n) \/ Removes(n)
      BY <3>3 DEF Goes, MayConnect, Removes
    <3>5. n.step = "record" => n.op = "disconnect"
      BY <3>2, <3>3 DEF Goes, Forgets
    <3>6. n.step # "verify"
      BY <3>2, <3>3
    <3>7. n.profile.entry \in Catalogs => n.profile.entry \in held'[c]
      <4>1. call[c].step = "state" /\ CallOK(c)
        BY <1>3 DEF ReadState, AgentInv
      <4>2. call'[c].step \notin Ended
        BY <3>1, <3>2, <3>3 DEF Ended, AgentInv, IntegrationTypeOK
      <4>3. held[c] \subseteq held'[c]
        BY <2>3, <4>2, HeldGrows
      <4>4. QED
        BY <2>2, <3>3, <4>1, <4>3 DEF CallOK, HasRead
    <3>8. QED
      BY <2>1, <2>2, <2>3, <3>1, <3>3, <3>4, <3>5, <3>6, <3>7, AgentStep
         DEF AgentInv, IntegrationTypeOK
  <2>6. QED
    BY <2>4, <2>5
<1>4. ASSUME NEW c \in Calls, WriteProfile(c)
      PROVE  AgentInv'
  <2> DEFINE k == [call[c] EXCEPT !.step = IF call[c].op = "connect" THEN "verify" ELSE "record",
                                  !.profile = Empty, !.owned = Absent]
  <2>1. /\ call[c] \in CallStates
        /\ call[c].op # "connect" <=> call[c].descriptor = Absent
        /\ call[c].step = "write"
        /\ MayConnect(call[c]) \/ Removes(call[c])
    BY <1>4 DEF AgentInv, IntegrationTypeOK, CallOK, WriteProfile
  <2>2. /\ k \in CallStates /\ k.op = call[c].op /\ k.descriptor = call[c].descriptor
        /\ k.step = IF call[c].op = "connect" THEN "verify" ELSE "record"
        /\ k.path = call[c].path /\ k.profile.entry = Absent
    BY <2>1 DEF CallStates, Profiles, Empty
  <2> HIDE DEF k
  <2>3. /\ call' = [call EXCEPT ![c] = k] /\ UNCHANGED <<migrated, owned, edits>>
        /\ Observed
        /\ profile' = [profile EXCEPT ![call[c].path] = Rewritten(call[c])]
    BY <1>4, <2>2 DEF WriteProfile, k
  <2>4. Rewritten(call[c]) \in Profiles
    BY <2>1 DEF Rewritten, Profiles, Entries
  <2>5. profile' \in [Paths -> Profiles \cup {Absent}]
    BY <2>3, <2>4 DEF AgentInv, IntegrationTypeOK
  <2>6. /\ held[c] \subseteq held'[c]
        /\ Loaded(call[c].path).entry' \in Catalogs =>
             Loaded(call[c].path).entry' \in held'[c]
    <3>1. call'[c].step \notin Ended
      BY <2>2, <2>3 DEF Ended, AgentInv, IntegrationTypeOK
    <3>2. QED
      BY <2>3, <3>1, HeldGrows
  <2>7. k.op = "connect" => k.descriptor \in held'[c]
    <3>1. profile'[call[c].path] = Rewritten(call[c])
      BY <2>1, <2>3 DEF AgentInv, IntegrationTypeOK
    <3>2. Loaded(call[c].path)' = profile'[call'[c].path]
      BY <2>2, <2>3, <2>4, <3>1, NoProfileAssumption
         DEF Loaded, AgentInv, IntegrationTypeOK
    <3>3. Loaded(call[c].path).entry' = Rewritten(call[c]).entry
      BY <2>2, <2>3, <3>1, <3>2 DEF AgentInv, IntegrationTypeOK
    <3>4. call[c].op = "connect" => Rewritten(call[c]).entry = call[c].descriptor
      BY <2>1 DEF Rewritten, Profiles
    <3>5. call[c].op = "connect" => call[c].descriptor \in Catalogs
      BY <2>1
    <3>6. QED
      BY <2>2, <2>6, <3>3, <3>4, <3>5
  <2>8. k.profile.entry \in Catalogs => k.profile.entry \in held'[c]
    BY <2>2, EntriesAssumption
  <2>9. QED
    BY <2>1, <2>2, <2>3, <2>5, <2>7, <2>8, AgentStep
       DEF AgentInv, IntegrationTypeOK
<1>5. ASSUME NEW c \in Calls, VerifyProfile(c)
      PROVE  AgentInv'
  <2>1. /\ call[c] \in CallStates /\ call[c].step = "verify" /\ call[c].op = "connect"
        /\ call[c].descriptor # Absent /\ call[c].descriptor \in held[c]
        /\ call[c].profile.entry \in Catalogs => call[c].profile.entry \in held[c]
        /\ UNCHANGED <<profile, migrated, owned, edits>> /\ Observed
    BY <1>5 DEF AgentInv, IntegrationTypeOK, CallOK, VerifyProfile, HasRead
  <2>2. CASE call' = [call EXCEPT ![c] = Ends("failed")]
    <3>1. Ends("failed").step = "failed"
      BY EndedType DEF Ended
    <3>2. QED
      BY <2>1, <2>2, <3>1, EndedType, AgentStep
         DEF AgentInv, IntegrationTypeOK, Ended
  <2>3. CASE call' = [call EXCEPT ![c] = [call[c] EXCEPT !.step = "record"]]
    <3> DEFINE k == [call[c] EXCEPT !.step = "record"]
    <3>1. /\ k \in CallStates /\ k.op = "connect" /\ k.step = "record"
          /\ k.descriptor = call[c].descriptor /\ k.profile = call[c].profile
      BY <2>1
    <3>2. call' = [call EXCEPT ![c] = k]
      BY <2>3
    <3> HIDE DEF k
    <3>3. call'[c].step \notin Ended
      BY <3>1, <3>2 DEF Ended, AgentInv, IntegrationTypeOK
    <3>4. held[c] \subseteq held'[c]
      BY <2>1, <3>3, HeldGrows
    <3>5. QED
      BY <2>1, <3>1, <3>2, <3>4, AgentStep DEF AgentInv, IntegrationTypeOK
  <2>4. QED
    BY <1>5, <2>2, <2>3 DEF VerifyProfile
<1>6. ASSUME NEW c \in Calls, WriteState(c)
      PROVE  AgentInv'
  <2>1. /\ call[c] \in CallStates /\ call[c].step = "record"
        /\ call[c].op # "connect" <=> call[c].descriptor = Absent
    BY <1>6 DEF AgentInv, IntegrationTypeOK, CallOK, WriteState
  <2>2. /\ owned' \in Catalogs \cup {Absent}
        /\ UNCHANGED <<profile, migrated, edits>> /\ Observed
    BY <1>6, <2>1 DEF WriteState, Recorded
  <2>3. PICK report \in {"connected", "disconnected"} :
          call' = [call EXCEPT ![c] = Ends(report)]
    BY <1>6 DEF WriteState
  <2>4. report \in Ended /\ report \notin {"verify", "record", "write"}
    BY DEF Ended
  <2>5. /\ Ends(report) \in CallStates
        /\ Ends(report).op = "none" /\ Ends(report).step = report
        /\ Ends(report).descriptor = Absent /\ Ends(report).step \notin HasRead
    BY <2>4, EndedType
  <2> HIDE DEF CallStates
  <2>6. QED
    BY <2>2, <2>3, <2>4, <2>5, AgentStep DEF AgentInv, IntegrationTypeOK
<1>7. ASSUME NEW c \in Calls, Stop(c)
      PROVE  AgentInv'
  <2>1. Ends("failed").step = "failed" /\ "failed" \in Ended
    BY EndedType DEF Ended
  <2>2. call' = [call EXCEPT ![c] = Ends("failed")]
        /\ UNCHANGED <<profile, migrated, owned, edits>> /\ Observed
    BY <1>7 DEF Stop
  <2>3. QED
    BY <2>1, <2>2, EndedType, AgentStep DEF AgentInv, IntegrationTypeOK
<1>8. ASSUME UNCHANGED <<call, owned>>, Observed,
             profile' \in [Paths -> Profiles \cup {Absent}],
             migrated' \in BOOLEAN, edits' \in 0..MaxEdits
      PROVE  AgentInv'
  <2>1. IntegrationTypeOK'
    <3>1. held' \in [Calls -> SUBSET Catalogs]
      <4>1. held \in [Calls -> SUBSET Catalogs] BY DEF AgentInv, IntegrationTypeOK
      <4>2. \A c \in Calls : Standing(c)' \subseteq Catalogs BY DEF Standing
      <4>3. QED BY <1>8, <4>1, <4>2 DEF Observed
    <3>2. QED
      BY <1>8, <3>1 DEF AgentInv, IntegrationTypeOK
  <2>2. ASSUME NEW c \in Calls
        PROVE  CallOK(c)'
    <3>1. call'[c] = call[c] /\ CallOK(c)
      BY <1>8 DEF AgentInv
    <3>2. call[c].step \in HasRead => held[c] \subseteq held'[c]
      BY <1>8, <3>1, HeldGrows DEF HasRead, Ended
    <3>3. QED
      BY <3>1, <3>2 DEF CallOK, HasRead
  <2>3. QED
    BY <2>1, <2>2 DEF AgentInv
<1>9. ASSUME NEW path \in Paths, NEW p \in Profiles, Edit(path, p)
      PROVE  AgentInv'
  <2>1. profile' \in [Paths -> Profiles \cup {Absent}]
    BY <1>9 DEF Edit, AgentInv, IntegrationTypeOK
  <2>2. edits' \in 0..MaxEdits
    BY <1>9, EntriesAssumption DEF Edit, AgentInv, IntegrationTypeOK
  <2>3. QED
    BY <1>8, <1>9, <2>1, <2>2 DEF Edit, AgentInv, IntegrationTypeOK
<1>10. ASSUME Migrate
       PROVE  AgentInv'
  <2>1. profile["legacy"] \in Profiles \cup {Absent}
        /\ profile["modern"] \in Profiles \cup {Absent}
    BY DEF AgentInv, IntegrationTypeOK, Paths
  <2>2. profile' \in [Paths -> Profiles \cup {Absent}]
    BY <1>10, <2>1 DEF Migrate, AgentInv, IntegrationTypeOK
  <2>3. edits' \in 0..MaxEdits
    BY <1>10, EntriesAssumption DEF Migrate, AgentInv, IntegrationTypeOK
  <2>4. QED
    BY <1>8, <1>10, <2>2, <2>3 DEF Migrate
<1>11. CASE UNCHANGED integrationVars
  BY <1>11 DEF integrationVars, AgentInv, IntegrationTypeOK, CallOK,
               MayConnect, Removes
<1>12. ASSUME NEW c \in Calls, NEW d \in Catalogs, Begin(c, "connect", d)
       PROVE  AgentInv'
  BY <1>1, <1>12, EntriesAssumption
<1>13. ASSUME NEW c \in Calls, NEW op \in {"disconnect", "status"}, Begin(c, op, Absent)
       PROVE  AgentInv'
  BY <1>1, <1>13
<1>14. QED
  BY <1>2, <1>3, <1>4, <1>5, <1>6, <1>7, <1>9, <1>10, <1>11, <1>12, <1>13 DEF IntegrationNext

LEMMA AlwaysAgentInv == IntegrationSpec => []AgentInv
  BY AgentInit, AgentNext, PTL DEF IntegrationSpec

\* The variables of AgentIntegration keep their types.
THEOREM AgentTypes == IntegrationSpec => []IntegrationTypeOK
<1>1. AgentInv => IntegrationTypeOK
  BY DEF AgentInv
<1>2. QED
  BY <1>1, AlwaysAgentInv, PTL

\* What a call reports connected the record names, and it stood in the profile
\* while the call ran, however many calls, kills and edits there were.
THEOREM ConnectedIsAlwaysTrue == IntegrationSpec => ConnectedIsTrue
<1>1. ASSUME AgentInv, [IntegrationNext]_integrationVars, NEW c \in Calls,
             call[c].step # "connected", call'[c].step = "connected"
      PROVE  owned' \in held[c]
  <2>1. /\ call \in [Calls -> CallStates] /\ call[c] \in CallStates
        /\ owned \in Catalogs \cup {Absent} /\ CallOK(c)
    BY <1>1 DEF AgentInv, IntegrationTypeOK
  <2>2. CASE WriteState(c)
    <3>1. Ends(IF call[c].op = "connect" THEN "connected" ELSE "disconnected").step
            = IF call[c].op = "connect" THEN "connected" ELSE "disconnected"
      BY EndedType DEF Ended
    <3>2. call[c].op = "connect" /\ call[c].step = "record" /\ owned' = call[c].descriptor
      BY <1>1, <2>1, <2>2, <3>1 DEF WriteState, Recorded
    <3>3. QED
      BY <2>1, <3>2 DEF CallOK
  <2>3. CASE ReadState(c)
    <3> DEFINE k == [call[c] EXCEPT !.owned = owned]
    <3>1. /\ k.op = call[c].op /\ k.profile = call[c].profile /\ k.owned = owned
          /\ k.descriptor = call[c].descriptor /\ call[c].step = "state" /\ owned' = owned
      BY <2>1, <2>3 DEF CallStates, ReadState
    <3>2. /\ Goes(k) = "done" => call'[c] = Ends(Outcome(k))
          /\ Goes(k) # "done" => call'[c] = [k EXCEPT !.step = Goes(k)]
      BY <2>1, <2>3 DEF ReadState
    <3>3. Goes(k) = "done"
      <4>1. Goes(k) \in {"done", "write", "record"}
        BY DEF Goes
      <4>2. Goes(k) # "done" => call'[c].step = Goes(k)
        BY <2>1, <3>2 DEF CallStates
      <4>3. QED
        BY <1>1, <4>1, <4>2
    <3> HIDE DEF k
    <3>4. Outcome(k) = "connected"
      <4>1. Outcome(k) \in Ended
        BY DEF Outcome, Ended
      <4>2. QED
        BY <1>1, <3>2, <3>3, <4>1, EndedType
    <3>5. call[c].profile.entry = owned /\ owned # Absent
      BY <2>1, <3>1, <3>4, EntriesAssumption DEF Outcome, CallOK, CallStates
    <3>6. QED
      BY <2>1, <3>1, <3>5 DEF CallOK, HasRead
  <2>4. ~(WriteState(c) \/ ReadState(c)) => call'[c].step = call[c].step \/ call'[c].step # "connected"
    <3>1. Ends("failed").step = "failed"
      BY EndedType DEF Ended
    <3>2. ASSUME NEW b \in Calls \ {c},
                 \/ \E op, d : Begin(b, op, d)
                 \/ ReadProfile(b) \/ ReadState(b) \/ WriteProfile(b)
                 \/ VerifyProfile(b) \/ WriteState(b) \/ Stop(b)
          PROVE  call'[c] = call[c]
      BY <2>1, <3>2 DEF Begin, ReadProfile, ReadState, WriteProfile, VerifyProfile,
                        WriteState, Stop
    <3>3. ASSUME NEW op, NEW d, Begin(c, op, d) PROVE call'[c].step = "profile"
      BY <2>1, <3>3 DEF Begin, NewCall
    <3>4. ASSUME ReadProfile(c) PROVE call'[c].step = "state"
      BY <2>1, <3>4 DEF ReadProfile, CallStates
    <3>5. ASSUME WriteProfile(c) PROVE call'[c].step \in {"verify", "record"}
      BY <2>1, <3>5 DEF WriteProfile, CallStates
    <3>6. ASSUME VerifyProfile(c) PROVE call'[c].step \in {"failed", "record"}
      BY <2>1, <3>1, <3>6 DEF VerifyProfile, CallStates
    <3>7. ASSUME Stop(c) PROVE call'[c].step = "failed"
      BY <2>1, <3>1, <3>7 DEF Stop
    <3>8. (\E path \in Paths, p \in Profiles : Edit(path, p)) \/ Migrate
            \/ UNCHANGED integrationVars => call' = call
      BY DEF Edit, Migrate, integrationVars
    <3>9. QED
      BY <1>1, <3>2, <3>3, <3>4, <3>5, <3>6, <3>7, <3>8 DEF IntegrationNext
  <2>5. QED
    BY <1>1, <2>2, <2>3, <2>4
<1>2. AgentInv /\ [IntegrationNext]_integrationVars =>
        \A c \in Calls :
          call[c].step # "connected" /\ call'[c].step = "connected" => owned' \in held[c]
  BY <1>1
<1>3. QED
  BY <1>2, AlwaysAgentInv, PTL DEF IntegrationSpec, ConnectedIsTrue

\* A call that writes a profile loses no entry that it read and that still
\* stands, neither one of the others nor the owner's.
THEOREM OwnerEntriesAlwaysStay == IntegrationSpec => OwnerEntriesStay
<1> DEFINE Stay(c, path) ==
      /\ call[c].profile.others \cap Loaded(path).others \subseteq profile'[path].others
      /\ Loaded(path).entry \in OwnerEntries => Loaded(path).entry # call[c].profile.entry
<1>1. ASSUME AgentInv, [IntegrationNext]_integrationVars, NEW c \in Calls, NEW path \in Paths,
             call'[c] # call[c], profile'[path] # profile[path]
      PROVE  Stay(c, path)
  <2>1. WriteProfile(c)
    <3>1. call \in [Calls -> CallStates]
      BY <1>1 DEF AgentInv, IntegrationTypeOK
    <3>2. ASSUME NEW q \in Paths, NEW p \in Profiles PROVE ~Edit(q, p)
      BY <1>1 DEF Edit
    <3>3. ~Migrate
      BY <1>1 DEF Migrate
    <3>4. ASSUME NEW b \in Calls
          PROVE  /\ \A op, d : ~Begin(b, op, d)
                 /\ ~ReadProfile(b) /\ ~ReadState(b)
                 /\ ~VerifyProfile(b) /\ ~WriteState(b) /\ ~Stop(b)
      BY <1>1 DEF Begin, ReadProfile, ReadState, VerifyProfile,
                  WriteState, Stop
    <3>5. PICK b \in Calls : WriteProfile(b)
      BY <1>1, <3>2, <3>3, <3>4 DEF IntegrationNext, integrationVars
    <3>6. b = c
      BY <1>1, <3>1, <3>5 DEF WriteProfile
    <3>7. QED
      BY <3>5, <3>6
  <2>2. /\ call[c] \in CallStates /\ call[c].step = "write"
        /\ MayConnect(call[c]) \/ Removes(call[c])
        /\ profile' = [profile EXCEPT ![call[c].path] = Rewritten(call[c])]
        /\ profile \in [Paths -> Profiles \cup {Absent}]
    BY <1>1, <2>1 DEF AgentInv, IntegrationTypeOK, CallOK, WriteProfile
  <2>3. call[c].path = path /\ profile'[path] = Rewritten(call[c])
    BY <1>1, <2>2
  <2>4. Rewritten(call[c]).others = call[c].profile.others
    BY <2>2 DEF Rewritten, CallStates, Profiles
  <2>5. call[c].profile.entry \notin OwnerEntries
    BY <2>2, EntriesAssumption DEF MayConnect, Removes, CallStates
  <2>6. QED
    BY <2>3, <2>4, <2>5
<1>2. AgentInv /\ [IntegrationNext]_integrationVars =>
        \A c \in Calls, path \in Paths :
          call'[c] # call[c] /\ profile'[path] # profile[path] => Stay(c, path)
  BY <1>1
<1>3. QED
  BY <1>2, AlwaysAgentInv, PTL DEF IntegrationSpec, OwnerEntriesStay

-----------------------------------------------------------------------------
(* Sorting a finite set.                                                    *)

\* Among finitely many sets some one includes no other of them.
LEMMA LeastSet ==
  ASSUME NEW S, IsFiniteSet(S), NEW Sets \in SUBSET SUBSET S, Sets # {}
  PROVE  \E T \in Sets : \A U \in Sets : U \subseteq T => U = T
<1>1. IsWellFoundedOn(StrictSubsetOrdering(S), SUBSET S)
  BY FS_StrictSubsetOrderingWellFounded, FS_FiniteSubsetsOfFinite
<1>2. PICK T \in Sets : \A U \in Sets : ~(<<U, T>> \in StrictSubsetOrdering(S))
  BY <1>1, WFMin
<1>3. ASSUME NEW U \in Sets, U \subseteq T, U # T
      PROVE  FALSE
  <2>1. <<U, T>> \in (SUBSET S) \X (SUBSET S)
    OBVIOUS
  <2>2. QED
    BY <1>2, <1>3, <2>1 DEF StrictSubsetOrdering
<1>4. QED
  BY <1>3

\* A strict order leaves some element of a finite set before no other one.
LEMMA LastElement ==
  ASSUME NEW S, IsFiniteSet(S), S # {}, NEW R,
         \A x \in S : <<x, x>> \notin R,
         \A x, y, z \in S : <<x, y>> \in R /\ <<y, z>> \in R => <<x, z>> \in R
  PROVE  \E x \in S : \A y \in S : <<x, y>> \notin R
<1> DEFINE Later(x) == {y \in S : <<x, y>> \in R}
           Laters == {Later(x) : x \in S}
<1>1. Laters \in SUBSET SUBSET S /\ Laters # {}
  <2>1. PICK x \in S : TRUE
    OBVIOUS
  <2>2. Later(x) \in Laters
    BY <2>1
  <2>3. \A T \in Laters : T \subseteq S
    OBVIOUS
  <2> HIDE DEF Laters
  <2>4. QED
    BY <2>2, <2>3
<1>2. PICK T \in Laters : \A U \in Laters : U \subseteq T => U = T
  <2> HIDE DEF Laters
  <2>1. QED
    BY <1>1, LeastSet
<1>3. PICK x \in S : T = Later(x)
  BY <1>2
<1>4. ASSUME NEW y \in S, <<x, y>> \in R
      PROVE  FALSE
  <2>1. Later(y) \subseteq Later(x) /\ y \in Later(x) /\ y \notin Later(y)
    BY <1>4
  <2>2. Later(y) \in Laters
    OBVIOUS
  <2> HIDE DEF Later, Laters
  <2>3. QED
    BY <1>2, <1>3, <2>1, <2>2
<1>5. QED
  BY <1>4

\* A finite set can be sorted by a strict order, whatever ties it leaves.
LEMMA Sorting ==
  ASSUME NEW S, IsFiniteSet(S), NEW R,
         \A x \in S : <<x, x>> \notin R,
         \A x, y, z \in S : <<x, y>> \in R /\ <<y, z>> \in R => <<x, z>> \in R
  PROVE  \E s \in SetToSeqs(S) :
           \A i, j \in 1..Cardinality(S) : i < j => <<s[j], s[i]>> \notin R
<1> DEFINE Sorts(T) == {s \in SetToSeqs(T) :
                          \A i, j \in 1..Cardinality(T) : i < j => <<s[j], s[i]>> \notin R}
           Unsorted == {T \in SUBSET S : Sorts(T) = {}}
<1> SUFFICES ASSUME Unsorted # {} PROVE FALSE
  <2>1. S \notin Unsorted
    OBVIOUS
  <2>2. QED
    BY <2>1
<1>1. PICK T \in Unsorted : \A U \in Unsorted : U \subseteq T => U = T
  <2>1. Unsorted \in SUBSET SUBSET S
    OBVIOUS
  <2> HIDE DEF Unsorted
  <2>2. QED
    BY <2>1, LeastSet
<1>2. T \in SUBSET S /\ Sorts(T) = {} /\ IsFiniteSet(T)
  BY <1>1, FS_Subset
<1>3. T # {}
  <2> SUFFICES ASSUME T = {} PROVE FALSE
    OBVIOUS
  <2>1. Cardinality(T) = 0 /\ 1..0 = {}
    BY FS_EmptySet
  <2>2. [i \in 1..0 |-> 0] \in [1..0 -> T]
    BY <2>1
  <2>3. [i \in 1..0 |-> 0] \in Sorts(T)
    BY <2>1, <2>2 DEF SetToSeqs
  <2>4. QED
    BY <1>2, <2>3
<1>4. PICK x \in T : \A y \in T : <<x, y>> \notin R
  BY <1>2, <1>3, LastElement
<1> DEFINE U == T \ {x}
           n == Cardinality(T)
<1>5. /\ IsFiniteSet(U) /\ n \in Nat \ {0} /\ Cardinality(U) = n - 1
  BY <1>2, <1>3, FS_RemoveElement, FS_CardinalityType, FS_EmptySet
<1>6. PICK s \in Sorts(U) : TRUE
  <2>1. U \notin Unsorted
    <3>1. U \subseteq T /\ U # T
      OBVIOUS
    <3> HIDE DEF Unsorted, U
    <3>2. QED
      BY <1>1, <3>1
  <2>2. U \in SUBSET S
    BY <1>2
  <2>3. QED
    BY <2>1, <2>2
<1>7. /\ s \in [1..(n - 1) -> U]
      /\ \A i, j \in 1..(n - 1) : i # j => s[i] # s[j]
      /\ \A i, j \in 1..(n - 1) : i < j => <<s[j], s[i]>> \notin R
  BY <1>5, <1>6 DEF SetToSeqs
<1> DEFINE t == [i \in 1..n |-> IF i = n THEN x ELSE s[i]]
<1> HIDE DEF n
<1>8. \A i \in 1..n : i # n => i \in 1..(n - 1)
  BY <1>5
<1>9. t \in [1..n -> T]
  BY <1>7, <1>8
<1>10. \A i, j \in 1..n : i # j => t[i] # t[j]
  BY <1>7, <1>8
<1>11. \A i, j \in 1..n : i < j => <<t[j], t[i]>> \notin R
  <2> SUFFICES ASSUME NEW i \in 1..n, NEW j \in 1..n, i < j PROVE <<t[j], t[i]>> \notin R
    OBVIOUS
  <2>1. i # n /\ i \in 1..(n - 1) /\ t[i] = s[i] /\ s[i] \in T
    BY <1>5, <1>7
  <2>2. CASE j = n
    BY <1>4, <2>1, <2>2
  <2>3. CASE j # n
    BY <1>7, <1>8, <2>1, <2>3
  <2>4. QED
    BY <2>2, <2>3
<1> HIDE DEF t
<1>12. t \in Sorts(T)
  BY <1>9, <1>10, <1>11 DEF SetToSeqs, n
<1>13. QED
  BY <1>2, <1>12

\* An enumeration misses no element.
LEMMA EnumerationCovers ==
  ASSUME NEW S, IsFiniteSet(S), NEW s \in SetToSeqs(S), NEW x \in S
  PROVE  \E i \in 1..Cardinality(S) : s[i] = x
<1>1. Cardinality(S) \in Nat
  BY FS_CardinalityType
<1>2. IsFiniteSet(1..Cardinality(S)) /\ Cardinality(1..Cardinality(S)) = Cardinality(S)
  BY <1>1, FS_Interval
<1>3. s \in Injection(1..Cardinality(S), S)
  BY DEF SetToSeqs, Injection, IsInjective
<1>4. s \in Surjection(1..Cardinality(S), S)
  BY <1>2, <1>3, FS_Injection
<1>5. QED
  BY <1>4 DEF Surjection

-----------------------------------------------------------------------------
(* The catalog that the server answers from (CatalogSelection).             *)

LEMMA CapsuleType ==
  /\ IsFiniteSet(Capsules)
  /\ \A k \in Capsules : k.id \in Int /\ IsFiniteSet(k.title) /\ IsFiniteSet(k.offers)
  /\ \A k \in Capsules : \A o \in k.offers :
       /\ {o.id, o.priority} \subseteq Int
       /\ IsFiniteSet(o.summary) /\ IsFiniteSet(o.details)
  BY CapsulesAssumption

\* What the sorts compare are integers, and there is a finite number of them.
LEMMA CandidateType ==
  ASSUME NEW loaded \in SUBSET Capsules, NEW r,
         NEW c \in Candidates(loaded, r)
  PROVE  /\ c.capsule \in loaded /\ c.offer \in c.capsule.offers /\ OfferMatches(c.offer, r)
         /\ c = [capsule |-> c.capsule, offer |-> c.offer]
         /\ c.capsule.id \in Int /\ c.offer.id \in Int /\ c.offer.priority \in Int
         /\ Score(c, r) \in Int
<1>1. PICK k \in loaded : c \in {[capsule |-> k, offer |-> o] :
                                   o \in {o \in k.offers : OfferMatches(o, r)}}
  BY DEF Candidates
<1>2. PICK o \in k.offers : OfferMatches(o, r) /\ c = [capsule |-> k, offer |-> o]
  BY <1>1
<1>3. c.capsule = k /\ c.offer = o
  BY <1>2
<1>4. /\ k \in Capsules /\ k.id \in Int /\ o.id \in Int /\ o.priority \in Int
      /\ IsFiniteSet(k.title) /\ IsFiniteSet(o.summary) /\ IsFiniteSet(o.details)
  <2>1. k \in Capsules /\ o \in k.offers
    BY <1>2
  <2>2. {o.id, o.priority} \subseteq Int
    BY <2>1, CapsuleType, Zenon
  <2>3. QED
    BY <2>1, <2>2, CapsuleType
<1>5. \A T : IsFiniteSet(T) => Cardinality(r.objective \cap T) \in Nat
  <2> SUFFICES ASSUME NEW T, IsFiniteSet(T) PROVE Cardinality(r.objective \cap T) \in Nat
    OBVIOUS
  <2>1. IsFiniteSet(r.objective \cap T)
    BY FS_Intersection
  <2>2. QED
    BY <2>1, FS_CardinalityType
<1>6. Score(c, r) \in Int
  <2> DEFINE inTitle == Cardinality(r.objective \cap k.title)
             inSummary == Cardinality(r.objective \cap o.summary)
             inDetails == Cardinality(r.objective \cap o.details)
  <2>1. inTitle \in Nat /\ inSummary \in Nat /\ inDetails \in Nat
    BY <1>4, <1>5
  <2>2. Score(c, r) = 5 * inTitle + (IF o.kind = "method" THEN 3 * inSummary + inDetails
                                             ELSE 0)
    BY <1>3 DEF Score, ObjectiveScore
  <2> HIDE DEF inTitle, inSummary, inDetails
  <2>3. QED
    BY <2>1, <2>2
<1>7. QED
  BY <1>2, <1>3, <1>4, <1>6

LEMMA CandidatesFinite ==
  ASSUME NEW loaded \in SUBSET Capsules, NEW r
  PROVE  IsFiniteSet(Candidates(loaded, r))
<1> DEFINE OfferSets == {k.offers : k \in loaded}
           Offers == UNION OfferSets
           Pairs == {[capsule |-> p[1], offer |-> p[2]] : p \in loaded \X Offers}
<1>1. IsFiniteSet(loaded)
  BY CapsuleType, FS_Subset
<1>2. [k \in loaded |-> k.offers] \in Surjection(loaded, OfferSets)
  BY DEF Surjection
<1>3. IsFiniteSet(OfferSets)
  <2> HIDE DEF OfferSets
  <2>1. QED
    BY <1>1, <1>2, FS_Surjection
<1>4. \A T \in OfferSets : IsFiniteSet(T)
  BY CapsuleType, Zenon
<1>5. IsFiniteSet(Offers)
  <2> HIDE DEF OfferSets
  <2>1. QED
    BY <1>3, <1>4, FS_UNION
<1>6. IsFiniteSet(loaded \X Offers)
  <2> HIDE DEF Offers
  <2>1. QED
    BY <1>1, <1>5, FS_Product
<1>7. IsFiniteSet(Pairs)
  <2> DEFINE f == [p \in loaded \X Offers |-> [capsule |-> p[1], offer |-> p[2]]]
  <2> HIDE DEF Offers
  <2>1. f \in Surjection(loaded \X Offers, Pairs)
    BY DEF Surjection
  <2> HIDE DEF Pairs, f
  <2>2. QED
    BY <1>6, <2>1, FS_Surjection
<1>8. Candidates(loaded, r) \subseteq Pairs
  <2> SUFFICES ASSUME NEW c \in Candidates(loaded, r) PROVE c \in Pairs
    OBVIOUS
  <2>1. /\ c = [capsule |-> c.capsule, offer |-> c.offer]
        /\ c.capsule \in loaded /\ c.offer \in c.capsule.offers
    BY CandidateType
  <2>2. c.offer \in Offers
    BY <2>1
  <2> HIDE DEF Offers
  <2> DEFINE p == <<c.capsule, c.offer>>
  <2>3. p \in loaded \X Offers /\ c = [capsule |-> p[1], offer |-> p[2]]
    BY <2>1, <2>2
  <2>4. QED
    BY <2>3
<1> HIDE DEF Pairs
<1>9. QED
  BY <1>7, <1>8, FS_Subset

\* The filter of the code picks the eligible offers.
LEMMA CandidatesAreEligible ==
  ASSUME NEW loaded \in SUBSET Capsules, NEW r
  PROVE  Candidates(loaded, r) = Eligible(loaded, r)
<1>1. ASSUME NEW c \in Candidates(loaded, r)
      PROVE  c \in Eligible(loaded, r)
  <2>1. /\ c.capsule \in loaded /\ c.offer \in c.capsule.offers /\ OfferMatches(c.offer, r)
        /\ c = [capsule |-> c.capsule, offer |-> c.offer]
    BY CandidateType
  <2>2. /\ c.offer.state = "active" /\ c.offer.taskKind = r.taskKind
        /\ c.offer.constraints \ r.constraints = {}
    BY <2>1 DEF OfferMatches
  <2>3. /\ {r.requestedUse, "*"} \cap c.offer.allowedUses # {}
        /\ {r.tenantScope, "*"} \cap c.offer.tenantScopes # {}
    BY <2>1 DEF OfferMatches, Listed, Wildcard
  <2>4. \A name \in DOMAIN c.offer.toolchain :
          \E value \in c.offer.toolchain[name] :
            name \in DOMAIN r.toolchain /\ r.toolchain[name] = value
    BY <2>1 DEF OfferMatches
  <2>5. c.offer \in UNION {k.offers : k \in loaded}
    BY <2>1
  <2>6. c \in {[capsule |-> k, offer |-> o] : k \in loaded, o \in UNION {k.offers : k \in loaded}}
    BY <2>1, <2>5
  <2>7. QED
    BY <2>1, <2>2, <2>3, <2>4, <2>6 DEF Eligible, Wildcard
<1>2. ASSUME NEW c \in Eligible(loaded, r)
      PROVE  c \in Candidates(loaded, r)
  <2>1. PICK k \in loaded, o \in UNION {l.offers : l \in loaded} :
          c = [capsule |-> k, offer |-> o]
    BY DEF Eligible
  <2>2. /\ c.capsule = k /\ c.offer = o /\ o \in k.offers
        /\ o.state = "active" /\ o.taskKind = r.taskKind
        /\ {r.requestedUse, "*"} \cap o.allowedUses # {}
        /\ {r.tenantScope, "*"} \cap o.tenantScopes # {}
        /\ o.constraints \ r.constraints = {}
        /\ \A name \in DOMAIN o.toolchain :
             \E value \in o.toolchain[name] :
               name \in DOMAIN r.toolchain /\ r.toolchain[name] = value
    <3>1. c.capsule = k /\ c.offer = o
      BY <2>1
    <3>2. QED
      BY <3>1 DEF Eligible, Wildcard
  <2>3. OfferMatches(o, r)
    BY <2>2 DEF OfferMatches, Listed, Wildcard
  <2>4. QED
    BY <2>1, <2>2, <2>3 DEF Candidates
<1>3. QED
  BY <1>1, <1>2

\* The first sort puts a candidate of the highest priority first.
LEMMA PrioritySort ==
  ASSUME NEW loaded \in SUBSET Capsules, NEW r
  PROVE  LET C == Candidates(loaded, r)
             sorted == ByPriority(C) IN
         /\ C = {} <=> sorted = <<>>
         /\ C # {} => /\ sorted[1] \in C
                      /\ \A d \in C : d.offer.priority <= sorted[1].offer.priority
<1> DEFINE C == Candidates(loaded, r)
           sorted == ByPriority(C)
           n == Cardinality(C)
           R == {p \in C \X C : Higher(p[1], p[2])}
<1>1. IsFiniteSet(C)
  BY CandidatesFinite
<1>2. \A c \in C : c.capsule.id \in Int /\ c.offer.id \in Int /\ c.offer.priority \in Int
  BY CandidateType
<1> HIDE DEF C
<1>3. \A x \in C : <<x, x>> \notin R
  BY <1>2 DEF Higher, Precedes
<1>4. \A x, y, z \in C : <<x, y>> \in R /\ <<y, z>> \in R => <<x, z>> \in R
  <2> SUFFICES ASSUME NEW x \in C, NEW y \in C, NEW z \in C,
                      Higher(x, y), Higher(y, z)
               PROVE  Higher(x, z)
    OBVIOUS
  <2>1. QED
    BY <1>2 DEF Higher, Precedes
<1>5. \E s \in SetToSeqs(C) : \A i, j \in 1..n : i < j => <<s[j], s[i]>> \notin R
  <2> HIDE DEF R
  <2>1. QED
    BY <1>1, <1>3, <1>4, Sorting
<1>6. \A s \in SetToSeqs(C) : \A i \in 1..n : s[i] \in C
  BY DEF SetToSeqs
<1>7. \E s \in SetToSeqs(C) : \A i, j \in 1..n : i < j => ~Higher(s[j], s[i])
  BY <1>5, <1>6
<1>8. /\ sorted \in SetToSeqs(C)
      /\ \A i, j \in 1..n : i < j => ~Higher(sorted[j], sorted[i])
  BY <1>7 DEF ByPriority
<1>9. n \in Nat /\ (n = 0 <=> C = {}) /\ sorted \in [1..n -> C]
  BY <1>1, <1>8, FS_CardinalityType, FS_EmptySet DEF SetToSeqs
<1> HIDE DEF n, R, sorted
<1>10. sorted \in Seq(C) /\ Len(sorted) = n
  BY <1>9
<1>11. C = {} <=> sorted = <<>>
  BY <1>9, <1>10, EmptySeq
<1>12. ASSUME NEW d \in C
       PROVE  sorted[1] \in C /\ d.offer.priority <= sorted[1].offer.priority
  <2>1. PICK i \in 1..n : sorted[i] = d
    BY <1>1, <1>8, EnumerationCovers DEF n
  <2>2. 1 \in 1..n /\ sorted[1] \in C
    BY <1>9, <2>1
  <2>3. i = 1 \/ ~Higher(d, sorted[1])
    BY <1>8, <2>1, <2>2
  <2>4. ~(d.offer.priority > sorted[1].offer.priority)
    BY <1>2, <2>1, <2>2, <2>3 DEF Higher
  <2>5. QED
    BY <1>2, <2>2, <2>4
<1>13. QED
  BY <1>11, <1>12 DEF C, sorted

\* The second sort puts the best two scores first.
LEMMA ScoreSort ==
  ASSUME NEW loaded \in SUBSET Capsules, NEW r,
         NEW top \in SUBSET Candidates(loaded, r), top # {}
  PROVE  LET ranked == ByScore(top, r) IN
         /\ ranked[1] \in top
         /\ \A d \in top : Score(d, r) <= Score(ranked[1], r)
         /\ Len(ranked) > 1 =>
              /\ ranked[2] \in top \ {ranked[1]}
              /\ \A d \in top \ {ranked[1]} : Score(d, r) <= Score(ranked[2], r)
         /\ ~(Len(ranked) > 1) => top = {ranked[1]}
<1> DEFINE ranked == ByScore(top, r)
           n == Cardinality(top)
           R == {p \in top \X top : Better(p[1], p[2], r)}
<1>1. IsFiniteSet(top)
  BY CandidatesFinite, FS_Subset
<1>2. \A c \in top : /\ c.capsule.id \in Int /\ c.offer.id \in Int
                     /\ Score(c, r) \in Int
  BY CandidateType
<1>3. \A x \in top : <<x, x>> \notin R
  BY <1>2 DEF Better, Precedes
<1>4. \A x, y, z \in top : <<x, y>> \in R /\ <<y, z>> \in R => <<x, z>> \in R
  <2> SUFFICES ASSUME NEW x \in top, NEW y \in top, NEW z \in top,
                      Better(x, y, r), Better(y, z, r)
               PROVE  Better(x, z, r)
    OBVIOUS
  <2>1. QED
    BY <1>2 DEF Better, Precedes
<1>5. \E s \in SetToSeqs(top) : \A i, j \in 1..n : i < j => <<s[j], s[i]>> \notin R
  <2> HIDE DEF R
  <2>1. QED
    BY <1>1, <1>3, <1>4, Sorting
<1>6. \A s \in SetToSeqs(top) : \A i \in 1..n : s[i] \in top
  BY DEF SetToSeqs
<1>7. \E s \in SetToSeqs(top) : \A i, j \in 1..n : i < j => ~Better(s[j], s[i], r)
  BY <1>5, <1>6
<1>8. /\ ranked \in SetToSeqs(top)
      /\ \A i, j \in 1..n : i < j => ~Better(ranked[j], ranked[i], r)
  BY <1>7 DEF ByScore
<1>9. n \in Nat \ {0} /\ ranked \in [1..n -> top]
  BY <1>1, <1>8, FS_CardinalityType, FS_EmptySet DEF SetToSeqs
<1>10. \A i, j \in 1..n : i # j => ranked[i] # ranked[j]
  BY <1>8 DEF SetToSeqs
<1>11. ASSUME NEW d \in top PROVE \E i \in 1..n : ranked[i] = d
  BY <1>1, <1>8, EnumerationCovers
<1> HIDE DEF n, R, ranked
<1>12. Len(ranked) = n /\ 1 \in 1..n /\ ranked[1] \in top
  BY <1>9
<1>13. ASSUME NEW d \in top PROVE Score(d, r) <= Score(ranked[1], r)
  <2>1. PICK i \in 1..n : ranked[i] = d
    BY <1>11
  <2>2. i = 1 \/ ~Better(d, ranked[1], r)
    BY <1>8, <1>12, <2>1
  <2>3. ~(Score(d, r) > Score(ranked[1], r))
    BY <1>2, <1>12, <2>1, <2>2 DEF Better
  <2>4. QED
    BY <1>2, <1>12, <2>3
<1>14. ASSUME n > 1
       PROVE  /\ ranked[2] \in top \ {ranked[1]}
              /\ \A d \in top \ {ranked[1]} : Score(d, r) <= Score(ranked[2], r)
  <2>1. 2 \in 1..n /\ ranked[2] \in top \ {ranked[1]}
    BY <1>9, <1>10, <1>12, <1>14
  <2>2. ASSUME NEW d \in top \ {ranked[1]}
        PROVE  Score(d, r) <= Score(ranked[2], r)
    <3>1. PICK i \in 1..n : ranked[i] = d
      BY <1>11
    <3>2. i = 2 \/ ~Better(d, ranked[2], r)
      BY <1>8, <2>1, <2>2, <3>1
    <3>3. ~(Score(d, r) > Score(ranked[2], r))
      BY <1>2, <2>1, <3>1, <3>2 DEF Better
    <3>4. QED
      BY <1>2, <2>1, <3>3
  <2>3. QED
    BY <2>1, <2>2
<1>15. ASSUME ~(n > 1) PROVE top = {ranked[1]}
  <2>1. 1..n = {1}
    BY <1>9, <1>15
  <2>2. QED
    BY <1>11, <1>12, <2>1
<1>16. QED
  BY <1>12, <1>13, <1>14, <1>15 DEF ranked

\* What the best match among the eligible offers of a catalog is.
Winners(loaded, r) ==
  {c \in Eligible(loaded, r) :
     /\ Best(c, loaded, r)
     /\ r.objective # None => Score(c, r) > 0}

\* The sorts and the tests for ties select the best match, and only that.
LEMMA SelectIsBest ==
  ASSUME NEW loaded \in SUBSET Capsules, NEW r
  PROVE  /\ Winners(loaded, r) = {} => Select(loaded, r) = None
         /\ Winners(loaded, r) # {} =>
              \E c \in Winners(loaded, r) : Select(loaded, r) = Offered(c)
<1> DEFINE C == Candidates(loaded, r)
           W == Winners(loaded, r)
           sorted == ByPriority(C)
           top == {c \in C : c.offer.priority = sorted[1].offer.priority}
           ranked == ByScore(top, r)
<1>1. W = {c \in C : /\ \A d \in C \ {c} :
                          \/ d.offer.priority < c.offer.priority
                          \/ /\ r.objective # None
                             /\ d.offer.priority = c.offer.priority
                             /\ Score(d, r) < Score(c, r)
                     /\ r.objective # None => Score(c, r) > 0}
  BY CandidatesAreEligible DEF Winners, Best
<1>2. \A c \in C : c.offer.priority \in Int /\ Score(c, r) \in Int
  BY CandidateType
<1>3. /\ C = {} <=> sorted = <<>>
      /\ C # {} => /\ sorted[1] \in C
                   /\ \A d \in C : d.offer.priority <= sorted[1].offer.priority
  BY PrioritySort
<1>4. Select(loaded, r) =
        IF sorted = <<>> THEN None
        ELSE IF r.objective = None
          THEN IF Cardinality(top) = 1 THEN Offered(sorted[1]) ELSE None
        ELSE IF Stands(ranked, r) THEN Offered(ranked[1]) ELSE None
  BY DEF Select
<1>5. IsFiniteSet(top)
  BY CandidatesFinite, FS_Subset
<1>6. C # {} => /\ ranked[1] \in top
                /\ \A d \in top : Score(d, r) <= Score(ranked[1], r)
                /\ Len(ranked) > 1 =>
                     /\ ranked[2] \in top \ {ranked[1]}
                     /\ \A d \in top \ {ranked[1]} :
                          Score(d, r) <= Score(ranked[2], r)
                /\ ~(Len(ranked) > 1) => top = {ranked[1]}
  <2> SUFFICES ASSUME C # {}
               PROVE  /\ ranked[1] \in top
                      /\ \A d \in top : Score(d, r) <= Score(ranked[1], r)
                      /\ Len(ranked) > 1 =>
                           /\ ranked[2] \in top \ {ranked[1]}
                           /\ \A d \in top \ {ranked[1]} :
                                Score(d, r) <= Score(ranked[2], r)
                      /\ ~(Len(ranked) > 1) => top = {ranked[1]}
    OBVIOUS
  <2>1. top \in SUBSET C /\ sorted[1] \in top
    BY <1>3
  <2> HIDE DEF top
  <2>2. QED
    BY <2>1, ScoreSort
<1> HIDE DEF C, W, sorted, ranked
<1>7. \A c \in W : c \in top
  BY <1>1, <1>2, <1>3
<1>8. CASE C = {}
  BY <1>1, <1>3, <1>4, <1>8 DEF W
<1>9. CASE C # {} /\ r.objective = None
  <2>1. Cardinality(top) = 1 <=> top = {sorted[1]}
    <3>1. sorted[1] \in top
      BY <1>3, <1>9
    <3>2. Cardinality(top) = 1 <=> \E x : top = {x}
      BY <1>5, FS_Singleton
    <3> HIDE DEF top
    <3>3. QED
      BY <3>1, <3>2
  <2>2. ASSUME top = {sorted[1]} PROVE sorted[1] \in W
    BY <1>1, <1>2, <1>3, <1>9, <2>2
  <2>3. ASSUME NEW c \in W PROVE top = {sorted[1]} /\ c = sorted[1]
    BY <1>1, <1>2, <1>3, <1>7, <1>9
  <2>4. QED
    BY <1>3, <1>4, <1>9, <2>1, <2>2, <2>3 DEF W
<1>10. CASE C # {} /\ r.objective # None
  <2>1. ASSUME Stands(ranked, r) PROVE ranked[1] \in W
    <3>1. Score(ranked[1], r) > 0
      BY <2>1 DEF Stands
    <3>2. ASSUME NEW d \in top \ {ranked[1]}
          PROVE  Score(d, r) < Score(ranked[1], r)
      <4>1. Len(ranked) > 1
        BY <1>6, <1>10, <3>2
      <4>2. Score(ranked[1], r) > Score(ranked[2], r)
        BY <2>1, <4>1 DEF Stands
      <4>3. QED
        BY <1>2, <1>6, <1>10, <3>2, <4>1, <4>2
    <3>3. ASSUME NEW d \in C \ {ranked[1]}, d \notin top
          PROVE  d.offer.priority < ranked[1].offer.priority
      BY <1>2, <1>3, <1>6, <1>10, <3>3
    <3>4. QED
      BY <1>1, <1>2, <1>6, <1>10, <3>1, <3>2, <3>3
  <2>2. ASSUME NEW c \in W PROVE c = ranked[1] /\ Stands(ranked, r)
    <3>1. c \in top /\ ranked[1] \in top /\ ranked[1] \in C
      BY <1>6, <1>7, <1>10
    <3>2. c = ranked[1]
      BY <1>1, <1>2, <1>6, <1>10, <3>1
    <3>3. Score(ranked[1], r) > 0
      BY <1>1, <1>10, <3>2
    <3>4. ASSUME Len(ranked) > 1
          PROVE  Score(ranked[1], r) > Score(ranked[2], r)
      <4>1. ranked[2] \in C \ {ranked[1]} /\ ranked[2] \in top
        BY <1>6, <1>10, <3>4
      <4>2. QED
        BY <1>1, <1>2, <3>1, <3>2, <4>1
    <3>5. QED
      BY <3>2, <3>3, <3>4 DEF Stands
  <2>3. QED
    BY <1>3, <1>4, <1>10, <2>1, <2>2 DEF W
<1>11. QED
  BY <1>8, <1>9, <1>10

CatalogInv ==
  /\ directory \subseteq Capsules
  /\ \A a \in Readers : catalog[a] # None => catalog[a] \subseteq Capsules
  /\ decision # None =>
       /\ decision.catalog \subseteq Capsules
       /\ decision.selected = Select(decision.catalog, decision.request)

LEMMA AlwaysCatalogInv == CatalogSpec => []CatalogInv
<1>1. CatalogInit => CatalogInv
  BY DEF CatalogInit, CatalogInv
<1>2. CatalogInv /\ [CatalogNext]_catalogVars => CatalogInv'
  <2> SUFFICES ASSUME CatalogInv, [CatalogNext]_catalogVars PROVE CatalogInv'
    OBVIOUS
  <2>1. ASSUME NEW new \in SUBSET Capsules, NEW bad \in new \cup {None},
               Change(new, bad)
        PROVE  CatalogInv'
    BY <2>1 DEF Change, CatalogInv
  <2>2. ASSUME NEW a \in Readers, Load(a)
        PROVE  CatalogInv'
    BY <2>2 DEF Load, CatalogInv
  <2>3. ASSUME NEW a \in Readers, NEW r \in Queries, Query(a, r)
        PROVE  CatalogInv'
    BY <2>3 DEF Query, CatalogInv
  <2>4. ASSUME NEW a \in Readers, Use(a)
        PROVE  CatalogInv'
    BY <2>4 DEF Use, CatalogInv
  <2>5. CASE UNCHANGED catalogVars
    BY <2>5 DEF catalogVars, CatalogInv
  <2>6. QED
    BY <2>1, <2>2, <2>3, <2>4, <2>5 DEF CatalogNext
<1>3. QED
  BY <1>1, <1>2, PTL DEF CatalogSpec

\* A decision selects the one eligible offer that beats all others, and
\* nothing when there is none, for every directory and query.
THEOREM SelectsAlwaysTheBest == CatalogSpec => []SelectsTheBest
<1>1. CatalogInv => SelectsTheBest
  <2> SUFFICES ASSUME CatalogInv, decision # None PROVE SelectsTheBest
    BY DEF SelectsTheBest
  <2>1. decision.catalog \in SUBSET Capsules
    BY DEF CatalogInv
  <2>2. /\ Winners(decision.catalog, decision.request) = {} => decision.selected = None
        /\ Winners(decision.catalog, decision.request) # {} =>
             \E c \in Winners(decision.catalog, decision.request) :
               decision.selected = Offered(c)
    BY <2>1, SelectIsBest DEF CatalogInv
  <2>3. QED
    BY <2>2 DEF SelectsTheBest, Winners
<1>2. QED
  BY <1>1, AlwaysCatalogInv, PTL

\* A capsule is only used for a decision that the catalog in hand makes.
THEOREM AlwaysUsedByItsCatalog == CatalogSpec => UsedByItsCatalog
<1>1. CatalogInv /\ [CatalogNext]_catalogVars =>
        \A a \in Readers :
          Use(a) => used' = Select(catalog[a], decision.request)
  BY DEF CatalogInv, Use, ValidDecision
<1>2. QED
  BY <1>1, AlwaysCatalogInv, PTL DEF CatalogSpec, UsedByItsCatalog
=============================================================================
