--------------------------- MODULE ExchangeProofs ---------------------------
(***************************************************************************)
(* The safety properties of Exchange, for any number of calls and whatever *)
(* they send together.                                                     *)
(***************************************************************************)
EXTENDS Exchange, TLAPS

\* What is known of a task before its handler runs, and of a call before the
\* server has a task for it.
EarlyInv ==
  \A c \in Calls :
    /\ client[c] \in {"ready", "connect"} => task[c] = "none"
    /\ outcome[c] = "local" => task[c] = "none"
    /\ outcome[c] # "none" => client[c] = "done"
    /\ task[c] \in {"none", "created", "read"} => effect[c] = "none"
    /\ task[c] \in {"none", "created", "read", "handle"} => reply[c] = "none"
    /\ server = "exited" => task[c] \in {"none", "gone"}

\* A reply is made once, an answer is the reply, and an outcome the answer.
AnswerInv ==
  \A c \in Calls :
    /\ reply[c] = "response" => effect[c] = "done"
    /\ reply[c] = "invalid" => effect[c] = "none"
    /\ received[c] # "none" => task[c] \in {"close", "cancelled", "gone"} \/ server = "exited"
    /\ received[c] \in {"response", "invalid"} => received[c] = reply[c]
    /\ outcome[c] \in {"response", "invalid"} => received[c] = outcome[c]

Inv == TypeOK /\ EarlyInv /\ AnswerInv

\* No call has begun and the server has not been told to stop.
LEMMA InitInv == Init => Inv
  BY MixAssumption
  DEF Init, Inv, TypeOK, EarlyInv, AnswerInv, Contents, Outcomes, Replies

\* A step of gateway_exchange, the client's side.
LEMMA ClientStep ==
  ASSUME Inv, NEW c \in Calls,
         Start(c) \/ Connect(c) \/ Send(c) \/ Receive(c) \/ GiveUp(c)
  PROVE  Inv'
<1> USE DEF Inv, TypeOK, EarlyInv, AnswerInv, Outcomes, Replies, callside,
            serveside, handling
<1>1. CASE Start(c)
  BY <1>1 DEF Start, Report
<1>2. CASE Connect(c)
  BY <1>2 DEF Connect
<1>3. CASE Send(c)
  BY <1>3 DEF Send
<1>4. CASE Receive(c)
  BY <1>4 DEF Receive, Report, Received
<1>5. CASE GiveUp(c)
  BY <1>5 DEF GiveUp, Report
<1> QED
  BY <1>1, <1>2, <1>3, <1>4, <1>5

\* A step of GatewayServer._client, the task of a connection.
LEMMA TaskStep ==
  ASSUME Inv, NEW c \in Calls,
         \/ Register(c) \/ Read(c) \/ ReadFails(c) \/ Effect(c) \/ Handled(c)
         \/ QpmCall(c) \/ QpmReturns(c) \/ HandleTimeout(c) \/ Encode(c) \/ Write(c)
         \/ Flush(c) \/ Close(c) \/ CloseCancelled(c)
  PROVE  Inv'
<1> USE DEF Inv, TypeOK, EarlyInv, AnswerInv, Outcomes, Replies, callside,
            serveside, handling, Go
<1>1. CASE Register(c)
  BY <1>1 DEF Register
<1>2. CASE Read(c)
  BY <1>2 DEF Read, Contents
<1>3. CASE ReadFails(c)
  BY <1>3 DEF ReadFails
<1>4. CASE Effect(c)
  BY <1>4 DEF Effect
<1>5. CASE Handled(c)
  BY <1>5 DEF Handled
<1>6. CASE HandleTimeout(c)
  BY <1>6 DEF HandleTimeout
<1>7. CASE Encode(c)
  BY <1>7 DEF Encode
<1>8. CASE Write(c)
  <2>1. \/ received' = received
        \/ \E got \in {reply[c], "garbled", "sending"} :
             received' = [received EXCEPT ![c] = got]
    BY <1>8 DEF Write, Answer
  <2>2. TypeOK'
    BY <1>8, <2>1 DEF Write
  <2>3. EarlyInv'
    BY <1>8 DEF Write
  <2>4. AnswerInv'
    BY <1>8, <2>1 DEF Write
  <2> QED
    BY <2>2, <2>3, <2>4
<1>9. CASE Close(c)
  BY <1>9 DEF Close, Closed
<1>10. CASE CloseCancelled(c)
  BY <1>10 DEF CloseCancelled, Closed
<1>11. CASE Flush(c)
  BY <1>11 DEF Flush, Answer
<1>12. CASE QpmCall(c) \/ QpmReturns(c)
  BY <1>12 DEF QpmCall, QpmReturns
<1> QED
  BY <1>1, <1>2, <1>3, <1>4, <1>5, <1>6, <1>7, <1>8, <1>9, <1>10, <1>11, <1>12

Labels == {"none", "created", "read", "handle", "encode", "write", "close", "cancelled",
           "gone"}

\* Where a cancelled task goes.
LEMMA CancelledValue ==
  ASSUME NEW label \in Labels
  PROVE  /\ Cancelled(label) \in Labels
         /\ label = "none" => Cancelled(label) = "none"
         /\ label # "none" => Cancelled(label) \in {"close", "cancelled", "gone"}
<1>1. CASE label = "none"
  BY <1>1 DEF Cancelled, Labels
<1>2. CASE label \in {"created", "gone"}
  BY <1>2 DEF Cancelled, Labels
<1>3. CASE label \in {"close", "cancelled"}
  BY <1>3 DEF Cancelled, Labels
<1>4. CASE label \in {"read", "handle", "encode", "write"}
  BY <1>4 DEF Cancelled, Labels
<1> QED
  BY <1>1, <1>2, <1>3, <1>4 DEF Labels

\* Tasks are cancelled, and nothing else happens.
LEMMA CancelledStep ==
  ASSUME Inv, server # "exited", server' \in {"closed", "cancelling", "leaving"},
         task' \in [Calls -> Labels],
         \A c \in Calls : task'[c] \in {task[c], Cancelled(task[c])},
         UNCHANGED <<content, waits, client, outcome, sent, received, reply, effect,
                     threads, clients, waited>>
  PROVE  Inv'
<1>1. \A c \in Calls : \/ task'[c] = task[c]
                       \/ /\ task[c] # "none"
                          /\ task'[c] \in {"close", "cancelled", "gone"}
  BY CancelledValue DEF Inv, TypeOK, Labels
<1>2. TypeOK'
  BY DEF Inv, TypeOK, Labels
<1>3. EarlyInv' /\ AnswerInv'
  BY <1>1 DEF Inv, EarlyInv, AnswerInv
<1> QED
  BY <1>2, <1>3 DEF Inv

\* A step of the stop: _serve and GatewayServer.close.
LEMMA StopStep ==
  ASSUME Inv,
         \/ Signal \/ Unbind \/ WaitClosed \/ WaitClients \/ GatherCancelled
         \/ CancelRest \/ Exit
  PROVE  Inv'
<1> USE DEF Inv, TypeOK, EarlyInv, AnswerInv, Outcomes, Replies, callside, handling
<1>1. CASE Signal
  BY <1>1 DEF Signal
<1>2. CASE Unbind
  BY <1>2 DEF Unbind
<1>3. CASE WaitClosed
  BY <1>3 DEF WaitClosed
<1>4. CASE WaitClients
  <2>1. /\ server = "waiting" /\ server' \in {"closed", "cancelling"}
        /\ task' \in [Calls -> Labels]
        /\ \A c \in Calls : task'[c] \in {task[c], Cancelled(task[c])}
        /\ UNCHANGED <<content, waits, client, outcome, sent, received, reply, effect,
                       threads, clients, waited>>
    <3>1. \A c \in Calls : task[c] \in Labels /\ Cancelled(task[c]) \in Labels
      BY CancelledValue DEF Labels
    <3> QED
      BY <1>4, <3>1 DEF WaitClients
  <2> QED
    BY <2>1, CancelledStep
<1>5. CASE GatherCancelled
  BY <1>5 DEF GatherCancelled
<1>6. CASE CancelRest
  <2>1. /\ server = "closed" /\ server' = "leaving"
        /\ task' \in [Calls -> Labels]
        /\ \A c \in Calls : task'[c] \in {task[c], Cancelled(task[c])}
        /\ UNCHANGED <<content, waits, client, outcome, sent, received, reply, effect,
                       threads, clients, waited>>
    <3>1. \A c \in Calls : task[c] \in Labels /\ Cancelled(task[c]) \in Labels
      BY CancelledValue DEF Labels
    <3> QED
      BY <1>6, <3>1 DEF CancelRest
  <2> QED
    BY <2>1, CancelledStep
<1>7. CASE Exit
  BY <1>7 DEF Exit
<1> QED
  BY <1>1, <1>2, <1>3, <1>4, <1>5, <1>6, <1>7

\* Every step keeps the invariant.
LEMMA NextInv == Inv /\ [Next]_vars => Inv'
<1> SUFFICES ASSUME Inv, [Next]_vars PROVE Inv'
  OBVIOUS
<1>1. CASE Next
  BY <1>1, ClientStep, TaskStep, StopStep DEF Next
<1>2. CASE UNCHANGED vars
  BY <1>2
  DEF Inv, TypeOK, EarlyInv, AnswerInv, vars
<1> QED
  BY <1>1, <1>2

\* The invariant, from which the theorems follow.
LEMMA InvCorrect == Spec => []Inv
  BY InitInv, NextInv, PTL DEF Spec

\* What a call reports is so: a response means that the gateway has done what
\* was asked, a local failure or INVALID_REQUEST that it has done nothing,
\* however the deadlines of gateway_exchange and the timeouts of _client fall.
THEOREM OutcomeCorrect == Spec => []OutcomeIsTrue
<1>1. Inv => OutcomeIsTrue
  BY DEF Inv, EarlyInv, AnswerInv, OutcomeIsTrue
<1> QED
  BY <1>1, InvCorrect, PTL
=============================================================================
