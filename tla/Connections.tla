---------------------------- MODULE Connections ----------------------------
(***************************************************************************)
(* The HTTP server of the gateway (gateway.py): a bounded number of        *)
(* connections, one thread each, and a timer per connection that bounds    *)
(* how long a client may take to send its request.  The listener takes a   *)
(* permit without waiting, or drops the connection.  The timer sets        *)
(* _read_expired and then shuts the socket down; the handler cancels it    *)
(* once the request is read, and does not answer on an expired connection. *)
(* What a handler does with a request is RequestPipeline; here it is one   *)
(* step that ends because every backend call has a timeout.                *)
(***************************************************************************)
EXTENDS Naturals, FiniteSets

CONSTANTS
  Conns,        \* clients, each with one connection at a time
  MaxPermits    \* max_concurrent_requests

ASSUME ServerAssumption == IsFiniteSet(Conns) /\ MaxPermits \in Nat \ {0}

VARIABLES
  permits,  \* the value of the semaphore _capacity
  phase,    \* where the thread of a connection is
  sent,     \* what the client has sent so far
  timer,    \* _read_deadline
  expired,  \* _read_expired
  shut,     \* the socket was shut down
  inTime    \* history: the timer was cancelled before it fired

serverVars == <<permits, phase, sent, timer, expired, shut, inTime>>

\* Phases in which the connection holds a permit.
Served == {"setup", "headers", "verify", "body", "read", "work", "answer", "finish"}

ServerTypeOK ==
  /\ permits \in 0..MaxPermits
  /\ phase \in [Conns -> {"none", "backlog"} \cup Served]
  /\ sent \in [Conns -> {"nothing", "headers", "all", "closed"}]
  /\ timer \in [Conns -> {"off", "armed", "fired", "cancelled"}]
  /\ expired \in [Conns -> BOOLEAN] /\ shut \in [Conns -> BOOLEAN]
  /\ inTime \in [Conns -> BOOLEAN]

ServerInit ==
  /\ permits = MaxPermits
  /\ phase = [c \in Conns |-> "none"] /\ sent = [c \in Conns |-> "nothing"]
  /\ timer = [c \in Conns |-> "off"]
  /\ expired = [c \in Conns |-> FALSE] /\ shut = [c \in Conns |-> FALSE]
  /\ inTime = [c \in Conns |-> FALSE]

Move(c, from, to) == phase[c] = from /\ phase' = [phase EXCEPT ![c] = to]

-----------------------------------------------------------------------------
(* The client: it sends what it likes, when it likes, or closes *)

Connect(c) ==
  /\ Move(c, "none", "backlog")
  /\ sent' = [sent EXCEPT ![c] = "nothing"]
  /\ timer' = [timer EXCEPT ![c] = "off"]
  /\ expired' = [expired EXCEPT ![c] = FALSE] /\ shut' = [shut EXCEPT ![c] = FALSE]
  /\ inTime' = [inTime EXCEPT ![c] = FALSE]
  /\ UNCHANGED permits

Send(c) ==
  /\ phase[c] # "none" /\ sent[c] \notin {"all", "closed"}
  /\ sent' = [sent EXCEPT ![c] = IF @ = "nothing" THEN "headers" ELSE "all"]
  /\ UNCHANGED <<permits, phase, timer, expired, shut, inTime>>

Close(c) ==
  /\ phase[c] # "none" /\ sent[c] \notin {"all", "closed"}
  /\ sent' = [sent EXCEPT ![c] = "closed"]
  /\ UNCHANGED <<permits, phase, timer, expired, shut, inTime>>

-----------------------------------------------------------------------------
(* The listener: ThreadingHTTPServer.process_request *)

\* Bug: a permit is not given back when no thread can be started.
AcceptLeaks(c) ==
  /\ \/ Move(c, "backlog", "setup") /\ permits > 0 /\ permits' = permits - 1
     \/ Move(c, "backlog", "none") /\ permits > 0 /\ permits' = permits - 1
     \/ Move(c, "backlog", "none") /\ permits = 0 /\ UNCHANGED permits
  /\ UNCHANGED <<sent, timer, expired, shut, inTime>>

\* A thread is started with a permit; or it cannot be started and the permit
\* is given back; or there is no permit and the connection is dropped.
Accept(c) ==
  /\ \/ Move(c, "backlog", "setup") /\ permits > 0 /\ permits' = permits - 1
     \/ Move(c, "backlog", "none") /\ permits > 0 /\ UNCHANGED permits
     \/ Move(c, "backlog", "none") /\ permits = 0 /\ UNCHANGED permits
  /\ UNCHANGED <<sent, timer, expired, shut, inTime>>

-----------------------------------------------------------------------------
(* The handler thread *)

\* Bug: only the idle timeout of the socket is set, which a client that keeps
\* sending never reaches.
SetupUntimed(c) ==
  /\ Move(c, "setup", "headers")
  /\ UNCHANGED <<permits, sent, timer, expired, shut, inTime>>

Setup(c) ==
  /\ Move(c, "setup", "headers")
  /\ timer' = [timer EXCEPT ![c] = "armed"]
  /\ UNCHANGED <<permits, sent, expired, shut, inTime>>

\* Bug: the timer is left running once the request is read.
CancelledLate(c) == timer

\* Timer.cancel has no effect on a timer that has fired.
Cancelled(c) ==
  [timer EXCEPT ![c] = IF @ = "armed" THEN "cancelled" ELSE @]

\* The reading end is over: nothing more comes.
Ended(c) == shut[c] \/ sent[c] = "closed"

\* do_GET cancels the timer at once, do_POST only once the body is read; a
\* connection that ends before its headers is finished without an answer.
ReadHeaders(c) ==
  /\ \/ /\ ~Ended(c) /\ sent[c] \in {"headers", "all"}
        /\ Move(c, "headers", "verify")
        /\ UNCHANGED <<timer, inTime>>
     \/ /\ ~Ended(c) /\ sent[c] \in {"headers", "all"}
        /\ Move(c, "headers", "work")
        /\ timer' = Cancelled(c)
        /\ inTime' = [inTime EXCEPT ![c] = timer[c] = "armed"]
     \/ /\ Ended(c)
        /\ Move(c, "headers", "finish")
        /\ UNCHANGED <<timer, inTime>>
  /\ UNCHANGED <<permits, sent, expired, shut>>

\* read_json_body authenticates before it reads: a denial is answered at once.
Verify(c) ==
  /\ Move(c, "verify", "body") \/ Move(c, "verify", "answer")
  /\ UNCHANGED <<permits, sent, timer, expired, shut, inTime>>

\* rfile.read returns the body, or less when the connection ends, or raises,
\* which counts as expired; what is cut short goes on to be denied.
ReadBody(c) ==
  /\ \/ sent[c] = "all" /\ ~shut[c] /\ Move(c, "body", "read") /\ UNCHANGED expired
     \/ Ended(c) /\ Move(c, "body", "read") /\ UNCHANGED expired
     \/ /\ Ended(c) /\ Move(c, "body", "answer")
        /\ expired' = [expired EXCEPT ![c] = TRUE]
  /\ UNCHANGED <<permits, sent, timer, shut, inTime>>

CancelTimer(c) ==
  /\ Move(c, "read", "work")
  /\ timer' = Cancelled(c)
  /\ inTime' = [inTime EXCEPT ![c] = timer[c] = "armed"]
  /\ UNCHANGED <<permits, sent, expired, shut>>

\* The request is processed, or denied.
Work(c) ==
  /\ Move(c, "work", "answer")
  /\ UNCHANGED <<permits, sent, timer, expired, shut, inTime>>

\* write_json: nothing is written on an expired connection, and the timeout of
\* the socket bounds the write on another.
Answer(c) ==
  /\ Move(c, "answer", "finish")
  /\ UNCHANGED <<permits, sent, timer, expired, shut, inTime>>

\* finish cancels the timer, process_request_thread gives the permit back.
Finish(c) ==
  /\ Move(c, "finish", "none")
  /\ timer' = Cancelled(c)
  /\ permits' = permits + 1
  /\ UNCHANGED <<sent, expired, shut, inTime>>

-----------------------------------------------------------------------------
(* The timer thread: expire_request_read sets the flag, then shuts down *)

Fire(c) ==
  /\ timer[c] = "armed"
  /\ timer' = [timer EXCEPT ![c] = "fired"]
  /\ expired' = [expired EXCEPT ![c] = TRUE]
  /\ UNCHANGED <<permits, phase, sent, shut, inTime>>

ShutDown(c) ==
  /\ timer[c] = "fired" /\ ~shut[c] /\ phase[c] # "none"
  /\ shut' = [shut EXCEPT ![c] = TRUE]
  /\ UNCHANGED <<permits, phase, sent, timer, expired, inTime>>

Client(c)  == Connect(c) \/ Send(c) \/ Close(c)
Handler(c) ==
  \/ Setup(c) \/ ReadHeaders(c) \/ Verify(c) \/ ReadBody(c) \/ CancelTimer(c)
  \/ Work(c) \/ Answer(c) \/ Finish(c)
Timer(c)   == Fire(c) \/ ShutDown(c)

ServerNext == \E c \in Conns : Client(c) \/ Accept(c) \/ Handler(c) \/ Timer(c)

\* The listener, the handler threads and the timers get to run; a client need
\* not do anything.
ServerFairness ==
  \A c \in Conns : WF_serverVars(Accept(c)) /\ WF_serverVars(Handler(c)) /\ WF_serverVars(Timer(c))

ServerSpec == ServerInit /\ [][ServerNext]_serverVars /\ ServerFairness

-----------------------------------------------------------------------------
(* Properties *)

\* Connections that hold a permit.
InService == {c \in Conns : phase[c] \in Served}

\* The permits taken are exactly those of the connections being served: no
\* order of failures, expiries and ends loses one or gives one back twice.
PermitsMatch ==
  permits + Cardinality(InService) = MaxPermits

\* The deadline never takes the answer of a request that was read in time, that
\* is, whose timer was cancelled before it fired, however long it is worked on.
\* A timer that fires between the end of the read and its cancellation does.
ReadInTimeIsAnswered == \A c \in Conns : inTime[c] => ~expired[c] /\ ~shut[c]

\* Why it holds: the flag and the shut socket come from a timer that fired, and
\* a timer that is still armed while the request is read has set neither.
DeadlineInv ==
  \A c \in Conns :
    /\ shut[c] => timer[c] = "fired"
    /\ phase[c] \in {"backlog", "setup"} => timer[c] = "off" /\ ~expired[c]
    /\ phase[c] \in {"headers", "verify", "body", "read"} /\ timer[c] = "armed" => ~expired[c]
    /\ inTime[c] => /\ timer[c] = "cancelled" /\ ~expired[c]
                    /\ phase[c] \in {"work", "answer", "finish", "none"}

\* Whatever its client sends or does not send, every connection comes to an
\* end, so that its permit serves another.
ConnectionsEnd ==
  \A c \in Conns : []<>(phase[c] = "none")
=============================================================================
