----------------------------- MODULE McpSession -----------------------------
(***************************************************************************)
(* The stdio MCP server (mcp_server.main, McpToolSession,                  *)
(* McpToolDispatcher) and a peer on its pipes: either McpStdioConnector,   *)
(* which queries it and may time out, close and be opened again, or an     *)
(* agent (external) that writes whatever lines it likes.                   *)
(*                                                                         *)
(* A pipe is a sequence of whole lines.  A line keeps what decides how it  *)
(* is handled: the protocol era, the method, the id (NoId when absent) and *)
(* its form: "good", "bad" (fields that are checked and refused), or "odd" *)
(* (a tool name of a type that cannot be looked up: TypeError).            *)
(***************************************************************************)
EXTENDS Integers, Sequences, FiniteSets

CONSTANTS
  Requests,     \* query requests of the connector
  MaxLines,     \* bound: lines the agent writes
  MaxQueries,   \* bound: queries of the connector
  MaxSessions   \* bound: servers the connector starts

ASSUME BoundsAssumption ==
  {MaxLines, MaxQueries} \subseteq Nat /\ MaxSessions \in Nat \ {0}

NoId == 0
NoRequest == "none"
MaxId == 3 * MaxQueries + MaxLines
Ids == 0..MaxId

Notifications == {"notifications/initialized", "notifications/other"}
Methods ==
  [modern |-> {"server/discover", "tools/list", "tools/call", "other"},
   legacy |-> Notifications \cup {"initialize", "tools/list", "tools/call", "other"},
   junk   |-> {"other"}]

Forms(era, method) ==
  CASE era = "junk" -> {"bad"}
    [] method = "tools/call" -> {"good", "bad", "odd"}
    [] OTHER -> {"good", "bad"}

\* What is no JSON-RPC object has no id that could be named.
IsLine(m) ==
  /\ m.era = "junk" => m.id = NoId
  /\ m.method \in Methods[m.era] /\ m.form \in Forms(m.era, m.method)
  /\ m.id \in Ids /\ m.request \in Requests \cup {NoRequest}

VARIABLES
  peer,      \* who holds the other ends of the pipes: "connector" or "agent"
  tools,     \* the tools of the server, "register" among them with a method store
  server,    \* [running, initialized, ready, session]: the process and McpToolSession
  toServer, toClient,  \* the pipes
  asked, answered,     \* history: every line written to this server, and by it
  conn       \* the connector

vars == <<peer, tools, server, toServer, toClient, asked, answered, conn>>

-----------------------------------------------------------------------------
\* The server: what it answers to a line, and what the line does to the session.

Answer(m, ok) ==
  [id |-> m.id, ok |-> ok, method |-> m.method, request |-> m.request,
   session |-> server.session]

\* An answer to a line that could not be handled names no id.
Unhandled(m) == [Answer(m, FALSE) EXCEPT !.id = NoId]

\* call_tool looked the name up in a frozenset: an odd one is no error answer
\* of the dispatcher but an exception, caught in main.
ToolAnswer(m) == IF m.form = "odd" THEN Unhandled(m) ELSE Answer(m, m.form = "good")

ModernAnswer(m) ==
  IF m.id # NoId /\ m.method = "tools/call" THEN ToolAnswer(m)
  ELSE Answer(m, /\ m.id # NoId /\ m.form = "good"
                 /\ m.method \in {"server/discover", "tools/list"})

LegacyAnswer(m) ==
  IF m.id = NoId THEN Unhandled(m)
  ELSE IF m.method = "tools/call" THEN ToolAnswer(m)
  ELSE Answer(m, m.form = "good" /\ m.method \in {"initialize", "tools/list"})

\* A mutated form: a line is a notification by its name alone.
NamedNotification(m) == m.method \in Notifications /\ m.form = "good"

IsNotification(m) == m.method \in Notifications /\ m.form = "good" /\ m.id = NoId

\* Once the session is ready, a method nobody knows is answered only if the
\* line has an id.
Unanswered(m) ==
  /\ m.era = "legacy"
  /\ \/ IsNotification(m)
     \/ /\ server.ready /\ m.id = NoId /\ m.form = "good"
        /\ m.method = "other"

\* A mutated form: the session serves before its handshake is complete.
InitializedIsReady == server.initialized

Ready == server.ready

Reply(m) ==
  IF m.era = "junk" THEN Unhandled(m)
  ELSE IF m.era = "modern" THEN ModernAnswer(m)
  ELSE IF m.method # "initialize" /\ ~Ready THEN Answer(m, FALSE)
  ELSE LegacyAnswer(m)

Confirms(m) == m.method = "notifications/initialized" /\ server.initialized

\* McpToolSession.handle: modern lines bypass the session.
After(m) ==
  IF m.era # "legacy" THEN server
  ELSE IF IsNotification(m)
    THEN [server EXCEPT !.ready = @ \/ Confirms(m)]
  ELSE IF m.method = "initialize" /\ LegacyAnswer(m).ok
    THEN [server EXCEPT !.initialized = TRUE, !.ready = FALSE]
  ELSE server

Serve ==
  /\ server.running /\ toServer # <<>>
  /\ LET m == Head(toServer)
         out == IF Unanswered(m) THEN <<>> ELSE <<Reply(m)>> IN
       /\ toClient' = toClient \o out
       /\ answered' = answered \o out
       /\ server' = After(m)
  /\ toServer' = Tail(toServer)
  /\ UNCHANGED <<peer, tools, asked, conn>>

\* The server dies, for a reason of its own.
Die ==
  /\ server.running
  /\ server' = [server EXCEPT !.running = FALSE]
  /\ UNCHANGED <<peer, tools, toServer, toClient, asked, answered, conn>>

-----------------------------------------------------------------------------
\* The agent writes a line; ids of its own count up.

AgentWrites(era, method, id, form) ==
  LET m == [era |-> era, method |-> method, id |-> id, form |-> form, request |-> NoRequest] IN
  /\ peer = "agent" /\ server.running
  /\ Len(asked) < MaxLines
  /\ era = "junk" => id = NoId
  /\ toServer' = Append(toServer, m)
  /\ asked' = Append(asked, m)
  /\ UNCHANGED <<peer, tools, server, toClient, answered, conn>>

-----------------------------------------------------------------------------
\* The connector.

Stages == <<"server/discover", "tools/list", "tools/call">>

Fresh(n) == [running |-> TRUE, initialized |-> FALSE, ready |-> FALSE, session |-> n]

\* __enter__: a new process and new pipes; the buffer and the ids go on.
Open ==
  /\ peer = "connector" /\ ~conn.open
  /\ server.session < MaxSessions
  /\ server' = Fresh(server.session + 1)
  /\ toServer' = <<>> /\ toClient' = <<>> /\ asked' = <<>> /\ answered' = <<>>
  /\ conn' = [conn EXCEPT !.open = TRUE]
  /\ UNCHANGED <<peer, tools>>

\* __exit__: stdin is closed, a server that does not end in time is killed;
\* what it still wrote is lost with the pipe.
Close ==
  /\ conn.open /\ conn.stage = 0
  /\ conn' = [conn EXCEPT !.open = FALSE, !.taken = <<>>]
  /\ server' = [server EXCEPT !.running = FALSE]
  /\ toServer' = <<>> /\ toClient' = <<>>
  /\ UNCHANGED <<peer, tools, asked, answered>>

BeginQuery(r) ==
  /\ conn.open /\ conn.stage = 0
  /\ conn.queries < MaxQueries
  /\ conn' = [conn EXCEPT !.stage = 1, !.request = r, !.queries = @ + 1, !.taken = <<>>]
  /\ UNCHANGED <<peer, tools, server, toServer, toClient, asked, answered>>

Idle == [conn EXCEPT !.stage = 0, !.waiting = NoId, !.request = NoRequest]

\* _request writes its line; the pipe of a dead server breaks.
Write ==
  /\ conn.stage > 0 /\ conn.waiting = NoId
  /\ LET m == [era |-> "modern", method |-> Stages[conn.stage], id |-> conn.next,
               form |-> "good",
               request |-> IF conn.stage = 3 THEN conn.request ELSE NoRequest] IN
     \/ /\ server.running
        /\ toServer' = Append(toServer, m)
        /\ asked' = Append(asked, m)
        /\ conn' = [conn EXCEPT !.waiting = conn.next, !.next = @ + 1]
     \/ /\ ~server.running
        /\ conn' = [Idle EXCEPT !.next = @ + 1, !.taken = <<>>]
        /\ UNCHANGED <<toServer, asked>>
  /\ UNCHANGED <<peer, tools, server, toClient, answered>>

\* os.read takes some of what the pipe holds.
Read(n) ==
  /\ conn.waiting # NoId /\ conn.buffer = <<>>
  /\ n \in 1..Len(toClient)
  /\ conn' = [conn EXCEPT !.buffer = SubSeq(toClient, 1, n)]
  /\ toClient' = SubSeq(toClient, n + 1, Len(toClient))
  /\ UNCHANGED <<peer, tools, server, toServer, asked, answered>>

\* A mutated form: any successful answer will do.
MatchesAny(a) == a.ok

Matches(a) == a.id = conn.waiting /\ a.ok

\* What query makes of the answer at this stage.
Suits(a) ==
  /\ Matches(a)
  /\ conn.stage = 2 => tools = {"query"}
  /\ conn.stage = 3 => a.request = conn.request

Take ==
  LET a == Head(conn.buffer)
      rest == Tail(conn.buffer) IN
  /\ conn.waiting # NoId /\ conn.buffer # <<>>
  /\ conn' =
       IF ~Suits(a) THEN [Idle EXCEPT !.buffer = rest, !.taken = <<>>]
       ELSE IF conn.stage < 3
         THEN [conn EXCEPT !.stage = @ + 1, !.waiting = NoId, !.buffer = rest,
                           !.taken = Append(@, a)]
       ELSE [Idle EXCEPT !.buffer = rest, !.taken = Append(@, a)]
  /\ UNCHANGED <<peer, tools, server, toServer, toClient, asked, answered>>

\* The deadline passes with no whole line read, or the server is gone.
GiveUp ==
  /\ conn.waiting # NoId /\ conn.buffer = <<>>
  /\ conn' = [Idle EXCEPT !.taken = <<>>]
  /\ UNCHANGED <<peer, tools, server, toServer, toClient, asked, answered>>

-----------------------------------------------------------------------------
Init ==
  /\ peer \in {"connector", "agent"}
  /\ tools \in {{"query"}, {"query", "register"}}
  /\ server = IF peer = "agent" THEN Fresh(1) ELSE [Fresh(0) EXCEPT !.running = FALSE]
  /\ toServer = <<>> /\ toClient = <<>> /\ asked = <<>> /\ answered = <<>>
  /\ conn = [open |-> FALSE, next |-> 1, stage |-> 0, waiting |-> NoId,
             request |-> NoRequest, queries |-> 0, buffer |-> <<>>, taken |-> <<>>]

Next ==
  \/ Serve
  \/ Die
  \/ \E era \in DOMAIN Methods : \E method \in Methods[era] :
       \E form \in Forms(era, method), id \in {NoId, Len(asked) + 1} :
         AgentWrites(era, method, id, form)
  \/ Open
  \/ Close
  \/ \E r \in Requests : BeginQuery(r)
  \/ Write
  \/ \E n \in 1..Len(toClient) : Read(n)
  \/ Take
  \/ GiveUp

Spec == Init /\ [][Next]_vars
-----------------------------------------------------------------------------
(* Properties.                                                              *)

Answers ==
  [id : Ids, ok : BOOLEAN, method : UNION {Methods[e] : e \in DOMAIN Methods},
   request : Requests \cup {NoRequest}, session : 0..MaxSessions]

TypeOK ==
  /\ server \in [running : BOOLEAN, initialized : BOOLEAN, ready : BOOLEAN,
                 session : 0..MaxSessions]
  /\ server.ready => server.initialized
  /\ \A pipe \in {toServer, asked} : \A i \in DOMAIN pipe : IsLine(pipe[i])
  /\ \A pipe \in {toClient, answered, conn.buffer, conn.taken} :
       \A i \in DOMAIN pipe : pipe[i] \in Answers
  /\ conn.next \in 1..(MaxId + 1) /\ conn.stage \in 0..3 /\ conn.waiting \in Ids
  /\ Len(conn.taken) <= 3

\* Whatever timed out before, and whatever an earlier server left in the
\* connector's buffer, each answer a query goes by comes from the server that
\* runs now and answers the method of that stage.  (connector.py: _request.)
AnswerIsOwn ==
  \A i \in DOMAIN conn.taken :
    /\ conn.taken[i].session = server.session
    /\ conn.taken[i].method = Stages[i]

\* The lines the server has taken off its pipe.
Handled == Len(asked) - Len(toServer)

\* Every well-formed request with an id gets exactly one answer that names
\* it, however lines of both eras, notifications and junk are mixed and
\* pipelined, and the answers come in the order of the requests.
\* (mcp_server.py: main; mcp_protocol.py: McpToolSession.handle.)
AnswersInOrder ==
  server.running =>
    /\ \A i, j \in DOMAIN answered :
         i < j /\ answered[i].id # NoId /\ answered[j].id # NoId =>
           answered[i].id < answered[j].id
    /\ \A i \in 1..Handled :
         asked[i].id # NoId /\ asked[i].form # "odd" =>
           \E j \in DOMAIN answered : answered[j].id = asked[i].id

Dealt(method, requested) ==
  {i \in 1..Handled :
     /\ asked[i].era = "legacy" /\ asked[i].method = method /\ asked[i].form = "good"
     /\ (asked[i].id # NoId) = requested}

\* A session that serves initialization-era requests has been through the
\* whole handshake, and through it again after the last initialize it
\* accepted.  (mcp_protocol.py: McpToolSession.)
ReadyAfterHandshake ==
  LET started == Dealt("initialize", TRUE)
      confirmed == Dealt("notifications/initialized", FALSE) IN
  peer = "agent" /\ Ready =>
    /\ started # {}
    /\ \E j \in confirmed : \A i \in started : i < j
=============================================================================
