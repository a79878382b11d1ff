------------------------------ MODULE IpcServer ------------------------------
(***************************************************************************)
(* The server side of the Labwc patch and the requests of layoutd.         *)
(*                                                                         *)
(* Every request has a connection of its own.  Labwc is single threaded:   *)
(* its event loop takes a batch of ready sources, with the conditions they *)
(* were ready for at that moment, and runs their handlers one by one; a    *)
(* client can connect, write, close or die between any two of them.        *)
(* Connection n in 1..Requests carries request n of layoutd, or of the     *)
(* process that replaced it; the Others connect, may send an unfinished    *)
(* line and otherwise keep silent.                                         *)
(***************************************************************************)
EXTENDS Naturals, Sequences, FiniteSets

CONSTANTS
  Requests,      \* requests of layoutd
  Others,        \* connections of other clients
  MaxClients,    \* IPC_MAX_CLIENTS, 16 in the code
  Backlog,       \* connections the listening socket holds
  BufferParts,   \* partial writes that fill IPC_BUF_SIZE
  MaxFaults      \* failed allocations and system calls

ASSUME LimitsAssumption ==
  /\ Requests \in Nat /\ IsFiniteSet(Others) /\ Others \cap (1..Requests) = {}
  /\ MaxClients \in Nat \ {0} /\ Backlog \in Nat \ {0}
  /\ BufferParts \in Nat /\ MaxFaults \in Nat

Conns == (1..Requests) \cup Others

VARIABLES
  end,           \* the client's end: "unused", "open" or "closed"
  wire,          \* its bytes: "none", "part" or "whole" unread, "taken"
  server,        \* the server's end: "none", "backlog", "open" or "closed"
  buffered,      \* parts of an unfinished line in client->buf
  interest,      \* what client->source polls for beside a hang-up
  timer,         \* client->timer is armed
  reply,         \* the response in the socket: "none", "some" or "all" of it
  backlog,       \* connections to be accepted
  accepting,     \* the batch holds the listening socket
  batch,         \* clients still to be dispatched, with their conditions
  client_count,
  faults,        \* faults left
  sent, outcome, ran  \* the requests, as in RequestChannel

client == <<end, wire>>
connection == <<buffered, interest, reply>>
loop == <<backlog, accepting>>
requests == <<sent, outcome, ran>>
vars == <<end, wire, server, buffered, interest, timer, reply, backlog, accepting,
          batch, client_count, faults, sent, outcome, ran>>

Init ==
  /\ end = [c \in Conns |-> "unused"] /\ wire = [c \in Conns |-> "none"]
  /\ server = [c \in Conns |-> "none"]
  /\ buffered = [c \in Conns |-> 0] /\ interest = [c \in Conns |-> "READABLE"]
  /\ timer = [c \in Conns |-> FALSE] /\ reply = [c \in Conns |-> "none"]
  /\ backlog = << >> /\ accepting = FALSE /\ batch = << >>
  /\ client_count = 0 /\ faults = MaxFaults
  /\ sent = 0 /\ outcome = "idle" /\ ran = 0

-----------------------------------------------------------------------------
(* The clients. *)

dispatch == <<timer, accepting, batch, client_count, faults>>
labwc == <<connection, dispatch>>

\* A new connection; the other clients use theirs again.
Connect(c) ==
  /\ Len(backlog) < Backlog
  /\ end[c] = "unused" \/ (c \in Others /\ end[c] = "closed")
  /\ server[c] \in {"none", "closed"}
  /\ end' = [end EXCEPT ![c] = "open"] /\ wire' = [wire EXCEPT ![c] = "none"]
  /\ server' = [server EXCEPT ![c] = "backlog"]
  /\ buffered' = [buffered EXCEPT ![c] = 0]
  /\ backlog' = Append(backlog, c)
  /\ UNCHANGED <<interest, reply, dispatch, requests>>

Close(c) == end' = [end EXCEPT ![c] = "closed"]

\* request() starts; the one before it has ended.
Request ==
  /\ outcome # "waiting" /\ sent < Requests
  /\ sent' = sent + 1 /\ outcome' = "waiting"
  /\ UNCHANGED <<client, server, backlog, labwc, ran>>

Waiting == outcome = "waiting"
ConnectRequest == Waiting /\ Connect(sent)

Ends(result) ==
  /\ Waiting /\ outcome' = result
  /\ Close(sent)
  /\ UNCHANGED <<wire, server, backlog, labwc, sent, ran>>

\* The backlog is full.
ConnectFails == Waiting /\ end[sent] = "unused" /\ Len(backlog) >= Backlog /\ Ends("failed")

WriteRequest ==
  /\ Waiting /\ end[sent] = "open" /\ wire[sent] = "none" /\ server[sent] # "closed"
  /\ wire' = [wire EXCEPT ![sent] = "whole"]
  /\ UNCHANGED <<end, server, backlog, labwc, requests>>

\* Mutant: the end of the stream is taken for a response.
AnyEndOfStream ==
  Waiting /\ end[sent] = "open" /\ server[sent] = "closed" /\ Ends("answered")

\* The whole response and the end of the stream.
ReadReply ==
  Waiting /\ server[sent] = "closed" /\ reply[sent] = "all" /\ Ends("answered")

\* The end of the stream before the response, or a write to a closed socket.
ReadNothing ==
  /\ Waiting /\ end[sent] = "open" /\ server[sent] = "closed" /\ reply[sent] # "all"
  /\ Ends("failed")

\* 250 ms have passed, or the daemon is killed and the kernel closes its socket.
GiveUp == Ends("failed")

\* Another client connects, sends part of a line, or leaves.
OtherClient(c) ==
  \/ Connect(c)
  \/ /\ end[c] = "open" /\ wire[c] = "none"
     /\ wire' = [wire EXCEPT ![c] = "part"]
     /\ UNCHANGED <<end, server, backlog, labwc, requests>>
  \/ /\ end[c] = "open" /\ Close(c)
     /\ UNCHANGED <<wire, server, backlog, labwc, requests>>

-----------------------------------------------------------------------------
(* The event loop. *)

Open == {c \in Conns : server[c] = "open"}

\* What poll reports of a connection: a closed peer is a hang-up and the end
\* of a readable stream.
Conditions(c) ==
  (IF end[c] = "closed" THEN {"HANGUP"} ELSE {})
    \cup (IF interest[c] = "WRITABLE" \/ wire[c] \in {"part", "whole"} \/ end[c] = "closed"
          THEN {interest[c]} ELSE {})

Poll ==
  /\ batch = << >> /\ ~accepting
  /\ accepting' = (backlog # << >>)
  /\ batch' = [c \in {d \in Open : Conditions(d) # {}} |-> Conditions(c)]
  /\ accepting' \/ batch' # << >>
  /\ UNCHANGED <<client, server, connection, timer, backlog, client_count, faults, requests>>

Without(c) == [d \in DOMAIN batch \ {c} |-> batch[d]]

\* Mutant: the running batch still dispatches the source of a destroyed client.
DestroyInUse(c) ==
  /\ server' = [server EXCEPT ![c] = "closed"]
  /\ timer' = [timer EXCEPT ![c] = FALSE]
  /\ client_count' = client_count - 1
  /\ UNCHANGED <<batch, client, loop>>

\* ipc_client_destroy: its source, removed, is skipped by the running batch.
Destroy(c) ==
  /\ server' = [server EXCEPT ![c] = "closed"]
  /\ timer' = [timer EXCEPT ![c] = FALSE]
  /\ client_count' = IF client_count > 0 THEN client_count - 1 ELSE 0
  /\ batch' = Without(c)
  /\ UNCHANGED <<client, loop>>

Fault == faults > 0 /\ faults' = faults - 1

\* ipc_listen_readable accepts one connection.
Listen ==
  /\ accepting /\ accepting' = FALSE
  /\ backlog' = Tail(backlog)
  /\ UNCHANGED <<client, connection, batch, requests>>

\* accept fails; the socket stays readable.
AcceptFails ==
  /\ accepting /\ accepting' = FALSE /\ Fault
  /\ UNCHANGED <<client, server, connection, timer, backlog, batch, client_count, requests>>

\* Mutant: a client beyond the limit is forgotten without being closed.
RejectSilently ==
  /\ Listen /\ client_count >= MaxClients
  /\ server' = [server EXCEPT ![Head(backlog)] = "none"]
  /\ UNCHANGED <<timer, client_count, faults>>

RejectClient ==
  /\ Listen /\ client_count >= MaxClients
  /\ server' = [server EXCEPT ![Head(backlog)] = "closed"]
  /\ UNCHANGED <<timer, client_count, faults>>

\* Mutant: a client is accepted with a timer that was never armed.
AcceptWithoutTimer ==
  /\ Listen /\ client_count < MaxClients
  /\ server' = [server EXCEPT ![Head(backlog)] = "open"]
  /\ client_count' = client_count + 1
  /\ UNCHANGED <<timer, faults>>

AcceptClient ==
  /\ Listen /\ client_count < MaxClients
  /\ server' = [server EXCEPT ![Head(backlog)] = "open"]
  /\ timer' = [timer EXCEPT ![Head(backlog)] = TRUE]
  /\ client_count' = client_count + 1
  /\ UNCHANGED faults

\* Mutant: a client counted before its set-up failed is never uncounted.
SetupLeaksASlot ==
  /\ Listen /\ Fault /\ client_count < MaxClients
  /\ server' = [server EXCEPT ![Head(backlog)] = "closed"]
  /\ client_count' = client_count + 1
  /\ UNCHANGED timer

\* fcntl, calloc, the source or the timer fails; what was counted is uncounted.
SetupFails ==
  /\ Listen /\ Fault /\ client_count < MaxClients
  /\ server' = [server EXCEPT ![Head(backlog)] = "closed"]
  /\ UNCHANGED <<timer, client_count>>

\* Mutant: conditions are tested in the order they are usually written.
ReadableFirst(c, condition) ==
  condition \in batch[c] /\ (condition = "HANGUP" => "READABLE" \notin batch[c])

\* ipc_client_event looks at a hang-up first, then at the other condition.
Handles(c, condition) ==
  condition \in batch[c] /\ (condition # "HANGUP" => "HANGUP" \notin batch[c])

HangUp(c) ==
  /\ Handles(c, "HANGUP") /\ Destroy(c)
  /\ UNCHANGED <<connection, faults, requests>>

\* The end of the stream, or a line that does not fit the buffer.
ReadFails(c) ==
  /\ Handles(c, "READABLE")
  /\ wire[c] \notin {"part", "whole"} \/ buffered[c] >= BufferParts
  /\ Destroy(c)
  /\ UNCHANGED <<connection, faults, requests>>

ReadPart(c) ==
  /\ Handles(c, "READABLE") /\ buffered[c] < BufferParts /\ wire[c] = "part"
  /\ wire' = [wire EXCEPT ![c] = "none"]
  /\ buffered' = [buffered EXCEPT ![c] = @ + 1]
  /\ batch' = Without(c)
  /\ UNCHANGED <<end, server, interest, timer, reply, loop, client_count, faults, requests>>

\* ipc_handle_command runs the request, which leaves a response to be written.
Run(c) ==
  /\ Handles(c, "READABLE") /\ buffered[c] < BufferParts /\ wire[c] = "whole"
  /\ wire' = [wire EXCEPT ![c] = "taken"]
  /\ interest' = [interest EXCEPT ![c] = "WRITABLE"]
  /\ ran' = c
  /\ batch' = Without(c)
  /\ UNCHANGED <<end, server, buffered, timer, reply, loop, client_count, faults, sent, outcome>>

\* The request has run, but there is no memory for its response.
RunFails(c) ==
  /\ Handles(c, "READABLE") /\ buffered[c] < BufferParts /\ wire[c] = "whole" /\ Fault
  /\ Destroy(c)
  /\ ran' = c
  /\ UNCHANGED <<connection, sent, outcome>>

\* The socket takes a part of the response, all of it, or reports an error.
WriteReply(c) ==
  /\ Handles(c, "WRITABLE")
  /\ \/ /\ reply[c] = "none" /\ end[c] = "open"
        /\ reply' = [reply EXCEPT ![c] = "some"]
        /\ batch' = Without(c)
        /\ UNCHANGED <<client, server, timer, loop, client_count>>
     \/ /\ end[c] = "open"
        /\ reply' = [reply EXCEPT ![c] = "all"]
        /\ Destroy(c)
     \/ /\ end[c] = "closed"
        /\ Destroy(c)
        /\ UNCHANGED reply
  /\ UNCHANGED <<buffered, interest, faults, requests>>

\* ipc_client_timeout, one second after the client was accepted.
Expire(c) ==
  /\ timer[c] /\ Destroy(c)
  /\ UNCHANGED <<connection, faults, requests>>

-----------------------------------------------------------------------------
Adapter == ConnectRequest \/ ConnectFails \/ WriteRequest \/ ReadReply \/ ReadNothing
Accepts == RejectClient \/ AcceptClient \/ SetupFails
Event(c) == HangUp(c) \/ ReadFails(c) \/ ReadPart(c) \/ Run(c) \/ RunFails(c) \/ WriteReply(c)
Loop == Poll \/ Accepts \/ AcceptFails \/ \E c \in DOMAIN batch : Event(c)

Next ==
  \/ Request \/ Adapter \/ GiveUp
  \/ \E c \in Others : OtherClient(c)
  \/ Loop
  \/ \E c \in Conns : Expire(c)

Spec == Init /\ [][Next]_vars

\* The adapter goes on until its request ends, Labwc runs its event loop, and
\* its timers fire.
FairSpec == Spec /\ WF_vars(Adapter) /\ WF_vars(Loop) /\ \A c \in Conns : WF_vars(Expire(c))

-----------------------------------------------------------------------------
(* Properties. *)

\* Every variable stays in its type; a batch only holds clients that exist.
TypeOK ==
  /\ end \in [Conns -> {"unused", "open", "closed"}]
  /\ wire \in [Conns -> {"none", "part", "whole", "taken"}]
  /\ server \in [Conns -> {"none", "backlog", "open", "closed"}]
  /\ buffered \in [Conns -> 0..BufferParts]
  /\ interest \in [Conns -> {"READABLE", "WRITABLE"}]
  /\ timer \in [Conns -> BOOLEAN]
  /\ reply \in [Conns -> {"none", "some", "all"}]
  /\ backlog \in Seq(Conns) /\ accepting \in BOOLEAN
  /\ DOMAIN batch \subseteq Open
  /\ \A c \in DOMAIN batch : batch[c] \subseteq {"HANGUP", "READABLE", "WRITABLE"}
  /\ client_count \in 0..MaxClients /\ faults \in 0..MaxFaults
  /\ sent \in 0..Requests /\ ran \in 0..Requests
  /\ outcome \in {"idle", "waiting", "answered", "failed"}

\* client_count is the number of clients that exist, at every step of every
\* handler and failure: it never leaks a slot, which would in the end refuse
\* layoutd for good, nor frees one twice (patch:123, :530).
CountIsExact == client_count = Cardinality(Open)

Channel == INSTANCE RequestChannel

\* The server and the adapter's timeouts implement the request channel: an
\* abandoned request is never run after a newer one, because a client whose
\* conditions lack a hang-up was the newest request when they were collected;
\* no request runs twice; and an answered one has run, whatever else closes a
\* stream.
ImplementsChannel == Channel!Spec

\* A request abandoned before Labwc accepted its connection never runs: a
\* compositor that was busy for a while does not apply what layoutd, or a
\* layoutd that died meanwhile, had long given up (patch:467).
AbandonedNeverRuns ==
  \A n \in 1..Requests :
    [](server[n] = "backlog" /\ end[n] = "closed" => [](ran # n))

\* No client keeps its slot for ever, so a full server is not full for good:
\* silent and abandoned ones are expired, those that are served end (patch:542).
SlotsAreFreed == \A c \in Conns : (server[c] = "open") ~> (server[c] = "closed")

\* Labwc never leaves a waiting layoutd without an answer or the end of the
\* stream, even if the adapter had no timeout of its own.
EveryRequestEnds == (outcome = "waiting") ~> (outcome # "waiting")
=============================================================================
