------------------------------ MODULE Exchange ------------------------------
(***************************************************************************)
(* One exchange of a native client with the gateway, and the gateway's     *)
(* stop: qsgp_client.c and qsgp_io.c on one side, server.py and the serve  *)
(* command of __main__.py on the other, MUNGE between them.                *)
(*                                                                         *)
(* A call opens a connection of its own, writes one credential, reads one  *)
(* and closes.  The server runs one task for each connection, which reads, *)
(* authenticates, decodes, handles and answers, each wait under the        *)
(* request timeout.  The client has one deadline for the whole call.  A    *)
(* timeout is a step that may come whenever its wait is under way.         *)
(*                                                                         *)
(* What a handler does is two steps here, Effect, and the calls of QPMs,   *)
(* which run in threads of their own: GatewayService has its transactions. *)
(* What the frames say is in Codec; here a request is known by how far the *)
(* server gets with it.                                                    *)
(***************************************************************************)
EXTENDS Naturals, FiniteSets

CONSTANTS
  Calls,   \* the calls; each is a run of the driver or of the SPANK plugin
  Mixes    \* what the calls may send together

\* What the server finds in a request:
\*   good      a request            body    a frame whose header alone decodes
\*   frame     no frame at all, or one above max_frame_size
\*   sender    a credential of a uid that is not in accepted_uids
Contents == {"good", "body", "frame", "sender"}

ASSUME MixAssumption == Mixes \subseteq [Calls -> Contents]

VARIABLES
  content,   \* what each call sends
  waits,     \* Server.wait_closed waits for connections, as from Python 3.12 on
  client,    \* where each call is
  outcome,   \* what it reported
  sent,      \* how much of its credential the server can read
  received,  \* what of the answer the client can read
  task,      \* the server's task for the connection
  reply,     \* the response it has to send
  effect,    \* has the handler begun, and has it done what was asked
  threads,   \* the calls whose handler has a QPM call running in a thread
  server,    \* the serve command
  clients,   \* GatewayServer._clients
  waited     \* the tasks close() waits for

vars == <<content, waits, client, outcome, sent, received, task, reply, effect,
          threads, server, clients, waited>>

callside == <<client, outcome, sent>>
serveside == <<server, clients, waited>>
handling == <<effect, threads>>

\* Remote answers carry INVALID_REQUEST or another gateway error; source names
\* the others as qfw_gateway_call_error does.
Outcomes == {"none", "response", "invalid", "error", "local", "authentication",
             "transport", "protocol"}

Replies == {"none", "response", "error", "invalid"}

TypeOK ==
  /\ content \in [Calls -> Contents]
  /\ waits \in BOOLEAN
  /\ client \in [Calls -> {"ready", "connect", "send", "receive", "done"}]
  /\ outcome \in [Calls -> Outcomes]
  /\ sent \in [Calls -> {"none", "part", "whole", "closed"}]
  /\ received \in [Calls -> Replies \cup {"sending", "garbled", "closed"}]
  /\ task \in [Calls -> {"none", "created", "read", "handle", "encode", "write",
                         "close", "cancelled", "gone"}]
  /\ reply \in [Calls -> Replies]
  /\ effect \in [Calls -> {"none", "begun", "done"}]
  /\ server \in {"serving", "stopping", "unbound", "waiting", "cancelling",
                 "closed", "leaving", "exited"}
  /\ threads \subseteq Calls
  /\ clients \subseteq Calls
  /\ waited \subseteq Calls

Init ==
  /\ content \in Mixes
  /\ waits \in BOOLEAN
  /\ client = [c \in Calls |-> "ready"]
  /\ outcome = [c \in Calls |-> "none"]
  /\ sent = [c \in Calls |-> "none"]
  /\ received = [c \in Calls |-> "none"]
  /\ task = [c \in Calls |-> "none"]
  /\ reply = [c \in Calls |-> "none"]
  /\ effect = [c \in Calls |-> "none"]
  /\ threads = {}
  /\ server = "serving"
  /\ clients = {}
  /\ waited = {}

-----------------------------------------------------------------------------
(* The client: gateway_exchange.                                           *)

\* The call ends: it closes its socket, and the server reads an end of file
\* after what was sent.
Report(c, result) ==
  /\ client' = [client EXCEPT ![c] = "done"]
  /\ outcome' = [outcome EXCEPT ![c] = result]
  /\ sent' = [sent EXCEPT ![c] = IF @ = "whole" THEN "whole" ELSE "closed"]

\* The request is encoded, the deadlines set, and the credential made: before
\* any of it reaches the gateway.
Start(c) ==
  /\ client[c] = "ready"
  /\ \/ /\ client' = [client EXCEPT ![c] = "connect"]
        /\ UNCHANGED <<outcome, sent>>
     \/ \E result \in {"local", "authentication"} : Report(c, result)
  /\ UNCHANGED <<content, waits, received, task, reply, handling, serveside>>

\* qsgp_connect_deadline: the connection is accepted while the server listens.  The
\* name is resolved before, without a deadline: getaddrinfo is taken to return.
Connect(c) ==
  /\ client[c] = "connect"
  /\ server \in {"serving", "stopping"}
  /\ client' = [client EXCEPT ![c] = "send"]
  /\ task' = [task EXCEPT ![c] = "created"]
  /\ UNCHANGED <<content, waits, outcome, sent, received, reply, handling, serveside>>

\* qsgp_send_credential: the length, then the credential.
Send(c) ==
  /\ client[c] = "send"
  /\ task[c] # "gone"
  /\ IF sent[c] = "none"
     THEN sent' = [sent EXCEPT ![c] = "part"] /\ UNCHANGED client
     ELSE /\ sent' = [sent EXCEPT ![c] = "whole"]
          /\ client' = [client EXCEPT ![c] = "receive"]
  /\ UNCHANGED <<content, waits, outcome, received, task, reply, handling, serveside>>

\* The outcome of what was received: a credential that MUNGE refuses or that is
\* not the gateway's, a frame that does not decode or match, or the answer.
Received(got) ==
  CASE got = "garbled"  -> {"authentication", "protocol"}
    [] got = "closed"   -> {"transport"}
    [] got = "response" -> {"response"}
    [] got = "invalid"  -> {"invalid"}
    [] got = "error"    -> {"error"}
    [] OTHER            -> {}

Receive(c) ==
  /\ client[c] = "receive"
  /\ \E result \in Received(received[c]) : Report(c, result)
  /\ UNCHANGED <<content, waits, received, task, reply, handling, serveside>>

\* Mutant of GiveUp: connecting has no deadline.
GiveUpConnected(c) ==
  /\ client[c] \in {"send", "receive"}
  /\ Report(c, "transport")
  /\ UNCHANGED <<content, waits, received, task, reply, handling, serveside>>

\* The deadline passes, the connection fails, or the process is killed.
GiveUp(c) ==
  /\ client[c] \in {"connect", "send", "receive"}
  /\ Report(c, "transport")
  /\ UNCHANGED <<content, waits, received, task, reply, handling, serveside>>

-----------------------------------------------------------------------------
(* The server: GatewayServer._client.                                      *)

\* The first step of the task.
Register(c) ==
  /\ task[c] = "created"
  /\ task' = [task EXCEPT ![c] = "read"]
  /\ clients' = clients \cup {c}
  /\ UNCHANGED <<content, waits, callside, received, reply, handling, server, waited>>

Go(c, label) == task' = [task EXCEPT ![c] = label]

\* The credential is read; it is authenticated and decoded without a wait.
Read(c) ==
  /\ task[c] = "read"
  /\ sent[c] = "whole"
  /\ CASE content[c] = "good" ->
            Go(c, "handle") /\ UNCHANGED reply
       [] content[c] = "body" ->
            Go(c, "encode") /\ reply' = [reply EXCEPT ![c] = "invalid"]
       [] OTHER ->
            Go(c, "close") /\ UNCHANGED reply
  /\ UNCHANGED <<content, waits, callside, received, handling, serveside>>

\* The peer has closed, the timeout passes, or MUNGE refuses the credential: it
\* is expired, or was decoded before.
ReadFails(c) ==
  /\ task[c] = "read"
  /\ Go(c, "close")
  /\ UNCHANGED <<content, waits, callside, received, reply, handling, serveside>>

\* The handler acts on the journal and the QPMs, while the journal is open ...
Effect(c) ==
  /\ task[c] = "handle" /\ c \notin threads
  /\ server \notin {"closed", "leaving", "exited"}
  /\ effect[c] # "done"
  /\ effect' = [effect EXCEPT ![c] = IF @ = "none" THEN "begun" ELSE "done"]
  /\ UNCHANGED <<content, waits, callside, received, task, reply, threads, serveside>>

\* ... calls a QPM through asyncio.to_thread, and waits for it ...
QpmCall(c) ==
  /\ task[c] = "handle" /\ c \notin threads
  /\ effect[c] = "begun"
  /\ threads' = threads \cup {c}
  /\ UNCHANGED <<content, waits, callside, received, task, reply, effect, serveside>>

\* ... which returns at some time or never, whether the handler still waits or not ...
QpmReturns(c) ==
  /\ c \in threads
  /\ threads' = threads \ {c}
  /\ UNCHANGED <<content, waits, callside, received, task, reply, effect, serveside>>

\* ... and returns a response, or an error whatever it has done.
Handled(c) ==
  /\ task[c] = "handle" /\ c \notin threads
  /\ \/ effect[c] = "done" /\ reply' = [reply EXCEPT ![c] = "response"]
     \/ reply' = [reply EXCEPT ![c] = "error"]
  /\ Go(c, "encode")
  /\ UNCHANGED <<content, waits, callside, received, handling, serveside>>

\* Mutant of HandleTimeout: a handler that has begun is waited for.
HandleTimeoutUnbegun(c) ==
  /\ task[c] = "handle"
  /\ effect[c] = "none"
  /\ Go(c, "close")
  /\ UNCHANGED <<content, waits, callside, received, reply, handling, serveside>>

\* The request timeout cancels the handler, or it raises; nothing is sent.  A thread
\* goes on.
HandleTimeout(c) ==
  /\ task[c] = "handle"
  /\ Go(c, "close")
  /\ UNCHANGED <<content, waits, callside, received, reply, handling, serveside>>

\* Mutant of Encode: a response that cannot be encoded is an invalid request.
EncodeOrInvalid(c) ==
  /\ task[c] = "encode"
  /\ Go(c, "write")
  /\ \/ UNCHANGED reply
     \/ reply' = [reply EXCEPT ![c] = "invalid"]
  /\ UNCHANGED <<content, waits, callside, received, handling, serveside>>

\* encode_response and the credential of the answer: either may raise, and then
\* the connection is dropped.
Encode(c) ==
  /\ task[c] = "encode"
  /\ Go(c, "write") \/ Go(c, "close")
  /\ UNCHANGED <<content, waits, callside, received, reply, handling, serveside>>

\* What the client gets of an answer.
Answer(c) == {reply[c], "garbled"}

\* The answer is given to the transport, and is drained, or the timeout passes before
\* it is; or the peer is gone.
Write(c) ==
  /\ task[c] = "write"
  /\ Go(c, "close")
  /\ \/ \E got \in Answer(c) \cup {"sending"} : received' = [received EXCEPT ![c] = got]
     \/ UNCHANGED received
  /\ UNCHANGED <<content, waits, callside, reply, handling, serveside>>

\* The transport sends the rest of the answer, or loses the connection.
Flush(c) ==
  /\ received[c] = "sending"
  /\ \E got \in Answer(c) \cup {"closed"} : received' = [received EXCEPT ![c] = got]
  /\ UNCHANGED <<content, waits, callside, task, reply, handling, serveside>>

\* What the client finds of a connection that the server has closed.
Closed(c) == [received EXCEPT ![c] = IF @ = "none" THEN "closed" ELSE @]

\* The finally clause: the writer is closed, which waits, without a timeout, for the
\* transport to send what it has or for the client to go; then the task is forgotten.
Close(c) ==
  /\ task[c] = "close"
  /\ received[c] = "sending" => client[c] = "done"
  /\ Go(c, "gone")
  /\ received' = Closed(c)
  /\ clients' = clients \ {c}
  /\ UNCHANGED <<content, waits, callside, reply, handling, server, waited>>

\* It was cancelled in that wait: it ends at once and is not forgotten.
CloseCancelled(c) ==
  /\ task[c] = "cancelled"
  /\ Go(c, "gone")
  /\ received' = Closed(c)
  /\ UNCHANGED <<content, waits, callside, reply, handling, serveside>>

-----------------------------------------------------------------------------
(* The stop: _serve and GatewayServer.close.                               *)

\* SIGINT or SIGTERM.
Signal ==
  /\ server = "serving"
  /\ server' = "stopping"
  /\ UNCHANGED <<content, waits, callside, received, task, reply, handling, clients,
                 waited>>

\* Server.close: no connection is accepted any more.
Unbind ==
  /\ server = "stopping"
  /\ server' = "unbound"
  /\ UNCHANGED <<content, waits, callside, received, task, reply, handling, clients,
                 waited>>

\* wait_closed returns and the tasks known now are the ones close() waits for.
WaitClosed ==
  /\ server = "unbound"
  /\ waits => \A c \in Calls : task[c] \in {"none", "gone"}
  /\ server' = "waiting"
  /\ waited' = clients
  /\ UNCHANGED <<content, waits, callside, received, task, reply, handling, clients>>

\* Task.cancel: a task that has not begun never runs, one in its finally clause
\* leaves it, any other goes there.
Cancelled(label) ==
  CASE label = "none"                   -> "none"
    [] label \in {"created", "gone"}    -> "gone"
    [] label \in {"close", "cancelled"} -> "cancelled"
    [] OTHER                            -> "close"

\* asyncio.wait returns: they have ended, or the timeout passed and those that
\* have not are cancelled.
WaitClients ==
  LET pending == {c \in waited : task[c] # "gone"}
  IN  /\ server = "waiting"
      /\ server' = IF pending = {} THEN "closed" ELSE "cancelling"
      /\ task' = [c \in Calls |-> IF c \in pending THEN Cancelled(task[c]) ELSE task[c]]
      /\ UNCHANGED <<content, waits, callside, received, reply, handling, clients,
                     waited>>

\* The cancelled tasks have run their finally clause; the adapter and the
\* journal are closed.
GatherCancelled ==
  /\ server = "cancelling"
  /\ \A c \in waited : task[c] = "gone"
  /\ server' = "closed"
  /\ UNCHANGED <<content, waits, callside, received, task, reply, handling, clients,
                 waited>>

\* asyncio.run cancels the tasks that are left: the ones that close() did not know of.
CancelRest ==
  /\ server = "closed"
  /\ server' = "leaving"
  /\ task' = [c \in Calls |-> Cancelled(task[c])]
  /\ UNCHANGED <<content, waits, callside, received, reply, handling, clients, waited>>

\* It waits for them, joins the threads, and the process exits.
Exit ==
  /\ server = "leaving"
  /\ \A c \in Calls : task[c] \in {"none", "gone"}
  /\ threads = {}
  /\ server' = "exited"
  /\ received' = [c \in Calls |-> IF received[c] \in {"none", "sending"} THEN "closed"
                                                                       ELSE received[c]]
  /\ UNCHANGED <<content, waits, callside, task, reply, handling, clients, waited>>

Next ==
  \/ \E c \in Calls : Start(c)
  \/ \E c \in Calls : Connect(c)
  \/ \E c \in Calls : Send(c)
  \/ \E c \in Calls : Receive(c)
  \/ \E c \in Calls : GiveUp(c)
  \/ \E c \in Calls : Register(c)
  \/ \E c \in Calls : Read(c)
  \/ \E c \in Calls : ReadFails(c)
  \/ \E c \in Calls : Effect(c)
  \/ \E c \in Calls : QpmCall(c)
  \/ \E c \in Calls : QpmReturns(c)
  \/ \E c \in Calls : Handled(c)
  \/ \E c \in Calls : HandleTimeout(c)
  \/ \E c \in Calls : Encode(c)
  \/ \E c \in Calls : Write(c)
  \/ \E c \in Calls : Flush(c)
  \/ \E c \in Calls : Close(c)
  \/ \E c \in Calls : CloseCancelled(c)
  \/ Signal
  \/ Unbind
  \/ WaitClosed
  \/ WaitClients
  \/ GatherCancelled
  \/ CancelRest
  \/ Exit

\* Each wait of a call and of a task has a timeout, except the last of a task, which
\* ends with its client; and the code between two waits runs; a stop that has begun
\* goes on.  No signal need come, no QPM need return, and no transport need send.
Fairness ==
  /\ \A c \in Calls :
       /\ WF_vars(Start(c)) /\ WF_vars(GiveUp(c))
       /\ WF_vars(Register(c)) /\ WF_vars(ReadFails(c))
       /\ WF_vars(HandleTimeout(c)) /\ WF_vars(Encode(c))
       /\ WF_vars(Write(c)) /\ WF_vars(Close(c)) /\ WF_vars(CloseCancelled(c))
  /\ WF_vars(Unbind) /\ WF_vars(WaitClosed)
  /\ WF_vars(WaitClients) /\ WF_vars(GatherCancelled)
  /\ WF_vars(CancelRest) /\ WF_vars(Exit)

Spec == Init /\ [][Next]_vars /\ Fairness

-----------------------------------------------------------------------------
(* Properties.                                                             *)

\* What a call reports is so: with a response the gateway has done what was asked,
\* and after a local failure or INVALID_REQUEST it has done nothing.  Any other
\* failure says neither (gateway_exchange, and the two try blocks of _client).
OutcomeIsTrue ==
  \A c \in Calls :
    /\ outcome[c] = "response" => effect[c] = "done"
    /\ outcome[c] \in {"local", "invalid"} => effect[c] = "none"

\* Every call ends, whatever the gateway does (the deadlines of gateway_exchange).
CallEnds ==
  \A c \in Calls : <>(client[c] = "done")

\* A stop ends, whatever its clients do: the process exits, or the journal is closed,
\* every task has ended, and what it still waits for are threads with a QPM call that
\* has not returned, which no timeout bounds (close, asyncio.run, the timeouts of
\* _client).
StopEnds ==
  server = "stopping" ~>
    \/ server = "exited"
    \/ /\ server = "leaving" /\ threads # {}
       /\ \A c \in Calls : task[c] \in {"none", "gone"}
=============================================================================
