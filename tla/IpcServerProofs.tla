-------------------------- MODULE IpcServerProofs --------------------------
(***************************************************************************)
(* The server counts its clients exactly, and together with the adapter    *)
(* implements the request channel, and never runs a request that was       *)
(* abandoned in the backlog, for every number of requests, clients, slots  *)
(* and failures.                                                           *)
(***************************************************************************)
EXTENDS IpcServer, FiniteSetTheorems, TLAPS

Ids == 1..Requests

Typed ==
  /\ end \in [Conns -> {"unused", "open", "closed"}]
  /\ wire \in [Conns -> {"none", "part", "whole", "taken"}]
  /\ server \in [Conns -> {"none", "backlog", "open", "closed"}]
  /\ interest \in [Conns -> {"READABLE", "WRITABLE"}]
  /\ reply \in [Conns -> {"none", "some", "all"}]
  /\ timer \in [Conns -> BOOLEAN]
  /\ sent \in 0..Requests /\ ran \in 0..Requests
  /\ outcome \in {"idle", "waiting", "answered", "failed"}

\* A batch holds clients that exist, with conditions their source polls for.
BatchInv ==
  /\ DOMAIN batch \subseteq Open
  /\ \A c \in DOMAIN batch : "WRITABLE" \in batch[c] => interest[c] = "WRITABLE"

\* The backlog holds different connections that wait for being accepted.
BacklogInv ==
  /\ backlog \in Seq(Conns)
  /\ \A i \in 1..Len(backlog) : server[backlog[i]] = "backlog"
  /\ \A i, j \in 1..Len(backlog) : backlog[i] = backlog[j] => i = j
  /\ accepting => backlog # << >>

\* Timers belong to clients, and the clients are counted.
CountInv ==
  /\ \A c \in Conns : timer[c] => c \in Open
  /\ client_count = Cardinality(Open)

\* Requests to come have no connection, those that have ended have closed it,
\* and only requests are whole lines.
EndsInv ==
  /\ outcome = "waiting" => sent \in Ids
  /\ \A n \in Ids : n > sent => end[n] = "unused"
  /\ \A n \in Ids : n < sent \/ (n = sent /\ outcome # "waiting") => end[n] = "closed"
  /\ \A n \in Ids : end[n] = "unused" => server[n] = "none" /\ wire[n] = "none"
  /\ \A c \in Conns : wire[c] \in {"whole", "taken"} => c \in Ids

\* A client whose batch saw no hang-up was the newest request when the batch
\* was taken: nothing newer is in the batch or has run.
NewestInv ==
  \A n \in Ids : n \in DOMAIN batch /\ "HANGUP" \notin batch[n] =>
    ran <= n /\ \A m \in Ids : m > n => m \notin DOMAIN batch

\* Only what has run has a response, and what has run does not run again.
RanInv ==
  /\ ran <= sent
  /\ ran # 0 => wire[ran] = "taken" \/ server[ran] = "closed"
  /\ \A n \in Ids : wire[n] = "taken" => n <= ran
  /\ \A c \in Conns : interest[c] = "WRITABLE" \/ reply[c] # "none" => wire[c] = "taken"

IInv == Typed /\ BatchInv /\ BacklogInv /\ CountInv /\ EndsInv /\ NewestInv /\ RanInv

-----------------------------------------------------------------------------
\* IInv holds before the first request.
LEMMA InitInvariant == Init => IInv
<1> SUFFICES ASSUME Init PROVE IInv
  OBVIOUS
<1> USE LimitsAssumption DEF Init
<1>0. DOMAIN batch = {}
  OBVIOUS
<1>1. Typed
  BY DEF Typed
<1>6. BatchInv /\ NewestInv
  BY <1>0 DEF BatchInv, NewestInv
<1>7. EndsInv /\ RanInv
  BY DEF EndsInv, RanInv, Ids, Conns
<1>2. BacklogInv
  BY DEF BacklogInv
<1>3. Open = {}
  BY DEF Open
<1>4. CountInv
  BY <1>3, FS_EmptySet DEF CountInv
<1>5. QED
  BY <1>1, <1>2, <1>4, <1>6, <1>7 DEF IInv

\* There are finitely many connections.
LEMMA OpenIsFinite == IsFiniteSet(Open) /\ Cardinality(Open) \in Nat
<1>1. IsFiniteSet(1..Requests) /\ IsFiniteSet(Others)
  BY FS_Interval, LimitsAssumption
<1>2. IsFiniteSet(Conns)
  BY <1>1, FS_Union DEF Conns
<1>3. IsFiniteSet(Open)
  BY <1>2, FS_Subset DEF Open
<1>4. QED
  BY <1>3, FS_CardinalityType

\* The facts a handler of c may use.
LEMMA HandledClient ==
  ASSUME IInv, NEW c \in DOMAIN batch
  PROVE  c \in Conns /\ server[c] = "open" /\ (c \in Ids => c <= sent)
  BY LimitsAssumption DEF IInv, Typed, BatchInv, EndsInv, Ids, Open, Conns

\* A request that is about to run is newer than any that has run.
LEMMA RunsForward ==
  ASSUME IInv, NEW c \in DOMAIN batch, Handles(c, "READABLE"), wire[c] = "whole"
  PROVE  c \in Ids /\ c \in (ran + 1)..sent
  BY HandledClient, LimitsAssumption
  DEF IInv, Typed, EndsInv, NewestInv, RanInv, Handles, Ids

-----------------------------------------------------------------------------
(* One lemma for each group of actions. *)

\* A connection of the adapter or of another client.
LEMMA ConnectStep ==
  ASSUME IInv, NEW c \in Conns, Connect(c), c \in Others \/ (c = sent /\ Waiting)
  PROVE  IInv'
<1> USE LimitsAssumption DEF Connect, Conns, Ids, requests, dispatch, Waiting
<1>1. Typed'
  BY DEF IInv, Typed
<1>2. BatchInv'
  BY DEF IInv, Typed, BatchInv, Open
<1>3. EndsInv'
  <2>1. sent' = sent /\ outcome' = outcome /\ \A n \in Ids : n = c => n = sent /\ Waiting
    BY DEF IInv, Typed
  <2>2. \A d \in Conns : d # c => end'[d] = end[d] /\ wire'[d] = wire[d] /\ server'[d] = server[d]
    BY DEF IInv, Typed
  <2>3. end'[c] = "open" /\ wire'[c] = "none"
    BY DEF IInv, Typed
  <2>4. QED
    BY <2>1, <2>2, <2>3 DEF IInv, Typed, EndsInv
<1>4. NewestInv'
  BY DEF IInv, NewestInv
<1>7. BacklogInv'
  <2>1. \A d \in Conns : d # c => server'[d] = server[d]
    BY DEF IInv, Typed
  <2>2. server'[c] = "backlog" /\ server[c] # "backlog"
    BY DEF IInv, Typed
  <2>3. /\ backlog' \in Seq(Conns) /\ backlog' # << >>
        /\ Len(backlog') = Len(backlog) + 1 /\ Len(backlog) \in Nat
        /\ backlog'[Len(backlog) + 1] = c
        /\ \A i \in 1..Len(backlog) : backlog'[i] = backlog[i] /\ backlog[i] \in Conns
    BY DEF IInv, BacklogInv
  <2>4. QED
    BY <2>1, <2>2, <2>3 DEF IInv, BacklogInv
<1>8. CountInv'
  BY DEF IInv, Typed, CountInv, Open
<1>5. RanInv'
  <2>1. ASSUME ran # 0 PROVE ran \in Ids /\ ran # c
    BY <2>1 DEF IInv, Typed, EndsInv, RanInv
  <2>2. wire[c] # "taken"
    BY DEF IInv, Typed, EndsInv, RanInv
  <2>3. QED
    BY <2>1, <2>2 DEF IInv, Typed, RanInv
<1>6. QED
  BY <1>1, <1>2, <1>3, <1>4, <1>5, <1>7, <1>8 DEF IInv

\* What the adapter and the other clients do with an existing connection.
LEMMA EndStep ==
  ASSUME IInv,
         \/ \E result \in {"answered", "failed"} : Ends(result)
         \/ WriteRequest
         \/ Request
  PROVE  IInv'
<1> USE LimitsAssumption DEF Conns, Ids, Open
<1>1. CASE \E result \in {"answered", "failed"} : Ends(result)
  <2>1. /\ sent \in Ids /\ outcome' # "waiting" /\ end'[sent] = "closed"
        /\ \A d \in Conns : d # sent => end'[d] = end[d]
        /\ UNCHANGED <<wire, server, backlog, labwc, sent, ran>>
    BY <1>1 DEF Ends, Close, Waiting, IInv, Typed, EndsInv
  <2>2. QED
    BY <1>1, <2>1 DEF Ends, Close, labwc, connection, dispatch, IInv, Typed, BatchInv, BacklogInv, CountInv, EndsInv,
                      NewestInv, RanInv
<1>2. CASE WriteRequest
  <2>1. /\ sent \in Ids /\ wire[sent] = "none" /\ wire'[sent] = "whole"
        /\ \A d \in Conns : d # sent => wire'[d] = wire[d]
        /\ UNCHANGED <<end, server, backlog, labwc, requests>>
    BY <1>2 DEF WriteRequest, Waiting, IInv, Typed, EndsInv
  <2>2. QED
    BY <1>2, <2>1 DEF WriteRequest, labwc, connection, dispatch, requests, IInv, Typed, BatchInv, BacklogInv, CountInv,
                      EndsInv, NewestInv, RanInv
<1>3. CASE Request
  BY <1>3 DEF Request, labwc, connection, dispatch, client, IInv, Typed, BatchInv, BacklogInv, CountInv, EndsInv, NewestInv,
              RanInv
<1>4. QED
  BY <1>1, <1>2, <1>3

\* Another client sends part of a line, or leaves.
LEMMA OtherStep ==
  ASSUME IInv, NEW c \in Others, OtherClient(c), ~Connect(c)
  PROVE  IInv'
<1> USE LimitsAssumption DEF Conns, Ids, Open
<1>1. /\ c \in Conns /\ c \notin Ids
      /\ \A d \in Conns : d # c => end'[d] = end[d] /\ wire'[d] = wire[d]
      /\ (wire'[c] = "part" /\ wire[c] = "none") \/ wire'[c] = wire[c]
      /\ UNCHANGED <<server, backlog, labwc, requests>>
  BY DEF OtherClient, Close, IInv, Typed
<1>2. Typed'
  BY DEF OtherClient, Close, IInv, Typed, labwc, connection, dispatch, requests
<1>3. QED
  BY <1>1, <1>2 DEF labwc, connection, dispatch, requests, IInv, Typed, BatchInv, BacklogInv,
                    CountInv, EndsInv, NewestInv, RanInv

\* The batch is taken when every earlier request has closed its connection, so
\* whoever is in it without a hang-up is the newest request.
LEMMA PollStep ==
  ASSUME IInv, Poll
  PROVE  IInv'
<1> USE LimitsAssumption DEF Poll, client, connection, requests
<1>1. DOMAIN batch' = {d \in Open : Conditions(d) # {}}
  OBVIOUS
<1>2. \A c \in DOMAIN batch' : c \in Conns /\ server[c] = "open" /\ batch'[c] = Conditions(c)
  BY <1>1 DEF Open
<1>3. BatchInv'
  BY <1>2 DEF BatchInv, Conditions, IInv, Typed, Open
<1>4. NewestInv'
  <2>1. SUFFICES ASSUME NEW n \in Ids, n \in DOMAIN batch', "HANGUP" \notin batch'[n]
                 PROVE  ran <= n /\ \A m \in Ids : m > n => m \notin DOMAIN batch'
    BY DEF NewestInv
  <2>2. end[n] # "closed"
    BY <1>2, <2>1 DEF Conditions
  <2>3. \A m \in Ids : m \in DOMAIN batch' => m <= sent
    <3>1. \A m \in Ids : m > sent => server[m] = "none"
      BY DEF IInv, EndsInv
    <3>2. \A m \in Ids : m \in Int
      BY DEF Ids
    <3>3. sent \in Int
      BY DEF IInv, Typed
    <3>4. \A m \in DOMAIN batch' : server[m] = "open"
      BY <1>2
    <3>5. QED
      BY <3>1, <3>2, <3>3, <3>4
  <2>4. n = sent
    BY <2>1, <2>2, <2>3 DEF IInv, Typed, EndsInv, Ids
  <2>5. QED
    BY <2>3, <2>4 DEF IInv, Typed, RanInv, Ids
<1>5. Typed' /\ EndsInv' /\ RanInv'
  BY DEF IInv, Typed, EndsInv, RanInv
<1>6. BacklogInv'
  BY DEF IInv, BacklogInv
<1>7. CountInv'
  BY DEF IInv, CountInv, Open
<1>8. QED
  BY <1>3, <1>4, <1>5, <1>6, <1>7 DEF IInv

\* The oldest connection of the backlog is accepted or closed.
LEMMA AcceptStep ==
  ASSUME IInv, Accepts
  PROVE  IInv'
<1> DEFINE h == Head(backlog)
<1> USE LimitsAssumption
<1>1. /\ Listen /\ accepting' = FALSE /\ backlog' = Tail(backlog) /\ backlog # << >>
      /\ UNCHANGED <<client, connection, batch, requests>>
  BY DEF Accepts, RejectClient, AcceptClient, SetupFails, Listen, IInv, BacklogInv
<1>2. h \in Conns /\ server[h] = "backlog"
  BY <1>1 DEF IInv, BacklogInv
<1>3. /\ backlog' \in Seq(Conns)
      /\ \A i \in 1..Len(backlog') : i + 1 \in 1..Len(backlog) /\ backlog'[i] = backlog[i + 1]
  BY <1>1 DEF IInv, BacklogInv
<1>4. \A i \in 1..Len(backlog') : backlog'[i] \in Conns /\ backlog'[i] # h
  <2>1. \A i \in 1..Len(backlog') : i + 1 # 1
    BY <1>3
  <2>2. h = backlog[1] /\ 1 \in 1..Len(backlog)
    BY <1>1 DEF IInv, BacklogInv
  <2>3. QED
    BY <1>3, <2>1, <2>2 DEF IInv, BacklogInv
<1>5. \A d \in Conns : d # h => server'[d] = server[d]
  BY <1>2 DEF Accepts, RejectClient, AcceptClient, SetupFails, IInv, Typed
<1>6. BacklogInv'
  <2>1. \A i, j \in 1..Len(backlog') : backlog'[i] = backlog'[j] => i + 1 = j + 1
    BY <1>3 DEF IInv, BacklogInv
  <2>2. \A i \in 1..Len(backlog') : server'[backlog'[i]] = "backlog"
    BY <1>3, <1>4, <1>5 DEF IInv, BacklogInv
  <2>3. \A i, j \in 1..Len(backlog') : backlog'[i] = backlog'[j] => i = j
    BY <2>1
  <2>4. QED
    BY <1>1, <1>3, <2>2, <2>3 DEF BacklogInv
<1>7. Typed'
  BY <1>1, <1>2 DEF Accepts, RejectClient, AcceptClient, SetupFails, client, connection,
                    requests, IInv, Typed
<1>8. BatchInv' /\ NewestInv'
  <2>1. \A d \in DOMAIN batch : d # h /\ d \in Conns
    BY <1>2 DEF IInv, BatchInv, Open
  <2>2. \A d \in DOMAIN batch : server'[d] = "open"
    BY <1>5, <2>1 DEF IInv, BatchInv, Open
  <2>3. QED
    BY <1>1, <2>1, <2>2 DEF BatchInv, NewestInv, Open, connection, requests, IInv
<1>9. EndsInv' /\ RanInv'
  <2>1. h \in Ids => end[h] # "unused"
    BY <1>2 DEF IInv, EndsInv
  <2>2. ran # 0 => ran \in Ids /\ ran \in Conns
    BY DEF IInv, Typed, Ids, Conns
  <2>3. \A n \in Ids : n \in Conns
    BY DEF Ids, Conns
  <2>4. EndsInv'
    BY <1>1, <1>5, <2>1, <2>3 DEF EndsInv, IInv, client, requests
  <2>5. ran # 0 => wire[ran] = "taken" \/ (server[ran] = "closed" /\ ran # h)
    BY <1>2 DEF IInv, RanInv
  <2>6. RanInv'
    BY <1>1, <1>5, <2>2, <2>5 DEF RanInv, IInv, client, connection, requests
  <2>7. QED
    BY <2>4, <2>6
<1>10. CountInv'
  <2>1. CASE AcceptClient
    <3>1. Open' = Open \cup {h} /\ h \notin Open
      BY <1>1, <1>2, <1>5, <2>1 DEF AcceptClient, Open, IInv, Typed
    <3>2. Cardinality(Open') = Cardinality(Open) + 1
      BY <3>1, OpenIsFinite, FS_AddElement
    <3>3. \A d \in Conns : timer'[d] => d = h \/ timer[d]
      BY <1>2, <2>1 DEF AcceptClient, IInv, Typed
    <3>4. QED
      BY <2>1, <3>1, <3>2, <3>3 DEF AcceptClient, CountInv, IInv
  <2>2. CASE RejectClient \/ SetupFails
    <3>1. Open' = Open
      BY <1>1, <1>2, <1>5, <2>2 DEF RejectClient, SetupFails, Open, IInv, Typed
    <3>2. QED
      BY <2>2, <3>1 DEF RejectClient, SetupFails, CountInv, IInv
  <2>3. QED
    BY <2>1, <2>2 DEF Accepts
<1>11. QED
  BY <1>6, <1>7, <1>8, <1>9, <1>10 DEF IInv

\* Destroying a client closes it, uncounts it and takes it out of the batch.
LEMMA Destroyed ==
  ASSUME IInv, NEW c \in Conns, server[c] = "open", Destroy(c)
  PROVE  /\ server'[c] = "closed"
         /\ \A d \in Conns : d # c => server'[d] = server[d]
         /\ server' \in [Conns -> {"none", "backlog", "open", "closed"}]
         /\ timer' \in [Conns -> BOOLEAN]
         /\ DOMAIN batch' = DOMAIN batch \ {c}
         /\ \A d \in DOMAIN batch' : batch'[d] = batch[d]
         /\ UNCHANGED <<client, loop>>
         /\ BacklogInv' /\ CountInv'
<1>1. /\ server'[c] = "closed"
      /\ \A d \in Conns : d # c => server'[d] = server[d]
      /\ server' \in [Conns -> {"none", "backlog", "open", "closed"}]
      /\ timer' \in [Conns -> BOOLEAN] /\ ~timer'[c]
      /\ \A d \in Conns : timer'[d] => timer[d]
      /\ UNCHANGED <<client, loop>>
  BY DEF Destroy, IInv, Typed
<1>2. /\ DOMAIN batch' = DOMAIN batch \ {c}
      /\ \A d \in DOMAIN batch' : batch'[d] = batch[d]
  BY DEF Destroy, Without
<1>3. BacklogInv'
  <2>1. \A i \in 1..Len(backlog) : backlog[i] \in Conns /\ backlog[i] # c
    BY DEF IInv, BacklogInv
  <2>2. QED
    BY <1>1, <2>1 DEF IInv, BacklogInv, loop
<1>4. CountInv'
  <2>1. Open' = Open \ {c} /\ c \in Open
    BY <1>1 DEF Open
  <2>2. Cardinality(Open') = Cardinality(Open) - 1
    BY <2>1, OpenIsFinite, FS_RemoveElement
  <2>3. Cardinality(Open) \in Nat /\ Cardinality(Open) # 0
    BY <2>1, OpenIsFinite, FS_EmptySet
  <2>4. client_count' = Cardinality(Open')
    BY <2>2, <2>3 DEF Destroy, IInv, CountInv
  <2>5. QED
    BY <1>1, <2>1, <2>4 DEF IInv, CountInv
<1>5. QED
  BY <1>1, <1>2, <1>3, <1>4

\* A client is destroyed, before or after its request has run.
LEMMA DestroyStep ==
  ASSUME IInv, NEW c \in Conns, server[c] = "open", Destroy(c),
         UNCHANGED <<interest, sent, outcome>>,
         \/ UNCHANGED <<reply, ran>>
         \/ /\ c \in DOMAIN batch /\ Handles(c, "READABLE") /\ wire[c] = "whole"
            /\ ran' = c /\ UNCHANGED reply
         \/ /\ interest[c] = "WRITABLE" /\ reply' = [reply EXCEPT ![c] = "all"] /\ UNCHANGED ran
  PROVE  IInv'
<1> USE LimitsAssumption
<1>0. /\ server'[c] = "closed"
      /\ \A d \in Conns : d # c => server'[d] = server[d]
      /\ server' \in [Conns -> {"none", "backlog", "open", "closed"}]
      /\ timer' \in [Conns -> BOOLEAN]
      /\ DOMAIN batch' = DOMAIN batch \ {c}
      /\ \A d \in DOMAIN batch' : batch'[d] = batch[d]
      /\ UNCHANGED <<client, loop>>
      /\ BacklogInv' /\ CountInv'
  BY Destroyed
<1>1. ran' = ran \/ (c \in Ids /\ ran' = c /\ c \in (ran + 1)..sent)
  BY RunsForward
<1>2. wire' = wire /\ end' = end
  BY <1>0 DEF client
<1>9. reply' = reply \/ (interest[c] = "WRITABLE" /\ reply' = [reply EXCEPT ![c] = "all"])
  OBVIOUS
<1>10. /\ reply' \in [Conns -> {"none", "some", "all"}]
       /\ \A d \in Conns : reply'[d] # "none" => reply[d] # "none" \/ interest[d] = "WRITABLE"
  BY <1>9 DEF IInv, Typed
<1>3. Typed'
  BY <1>0, <1>1, <1>2, <1>10 DEF IInv, Typed, Ids
<1>4. BatchInv'
  <2>1. \A d \in DOMAIN batch' : d \in DOMAIN batch /\ d # c /\ d \in Conns /\ server[d] = "open"
    BY <1>0 DEF IInv, BatchInv, Open
  <2>2. QED
    BY <1>0, <2>1 DEF IInv, BatchInv, Open
<1>5. EndsInv'
  BY <1>0, <1>2 DEF IInv, Typed, EndsInv, Ids, Conns
<1>6. NewestInv'
  <2>1. SUFFICES ASSUME NEW n \in Ids, n \in DOMAIN batch', "HANGUP" \notin batch'[n]
                 PROVE  ran' <= n /\ \A m \in Ids : m > n => m \notin DOMAIN batch'
    BY DEF NewestInv
  <2>2. n \in DOMAIN batch /\ "HANGUP" \notin batch[n] /\ n # c
    BY <1>0, <2>1
  <2>3. ran <= n /\ \A m \in Ids : m > n => m \notin DOMAIN batch
    BY <2>2 DEF IInv, NewestInv
  <2>4. CASE ran' = ran
    BY <1>0, <2>3, <2>4
  <2>5. CASE ran' # ran
    <3>1. c \in Ids /\ c \in DOMAIN batch /\ "HANGUP" \notin batch[c] /\ ran' = c
      BY <1>1, <2>5 DEF Handles
    <3>2. n \in Int /\ c \in Int
      BY <3>1 DEF Ids
    <3>3. ~(n > c) /\ ~(c > n)
      BY <2>2, <2>3, <3>1 DEF IInv, NewestInv
    <3>4. QED
      BY <2>2, <3>2, <3>3
  <2>6. QED
    BY <2>4, <2>5
<1>7. RanInv'
  <2>1. \A n \in Ids : n \in Conns /\ n \in Int
    BY DEF Ids, Conns
  <2>2. /\ \A d \in Conns : interest'[d] = "WRITABLE" \/ reply'[d] # "none" => wire'[d] = "taken"
        /\ ran \in Int /\ sent' \in Int /\ (ran # 0 => ran \in Ids)
    BY <1>2, <1>10 DEF IInv, Typed, RanInv, Ids
  <2>3. CASE ran' = ran
    <3>1. ran # 0 => wire'[ran] = "taken" \/ server'[ran] = "closed"
      BY <1>0, <1>2, <2>1, <2>2 DEF IInv, RanInv
    <3>2. QED
      BY <1>2, <2>1, <2>2, <2>3, <3>1 DEF IInv, RanInv
  <2>4. CASE ran' # ran
    <3>1. ran' = c /\ c \in Ids /\ c > ran /\ c <= sent
      BY <1>1, <2>2, <2>4
    <3>2. QED
      BY <1>0, <1>2, <2>1, <2>2, <3>1 DEF IInv, RanInv
  <2>5. QED
    BY <2>3, <2>4
<1>8. QED
  BY <1>0, <1>3, <1>4, <1>5, <1>6, <1>7 DEF IInv

\* A client of the batch is read or written to, and stays.
LEMMA ServeStep ==
  ASSUME IInv, NEW c \in DOMAIN batch, batch' = Without(c),
         UNCHANGED <<end, server, timer, loop, client_count, sent, outcome>>,
         \/ /\ wire[c] = "part" /\ wire' = [wire EXCEPT ![c] = "none"]
            /\ UNCHANGED <<interest, reply, ran>>
         \/ /\ Handles(c, "READABLE") /\ wire[c] = "whole"
            /\ wire' = [wire EXCEPT ![c] = "taken"]
            /\ interest' = [interest EXCEPT ![c] = "WRITABLE"]
            /\ ran' = c /\ UNCHANGED reply
         \/ /\ interest[c] = "WRITABLE" /\ reply' = [reply EXCEPT ![c] = "some"]
            /\ UNCHANGED <<wire, interest, ran>>
  PROVE  IInv'
<1> USE LimitsAssumption
<1>0. c \in Conns /\ server[c] = "open" /\ (c \in Ids => end[c] # "unused")
  BY HandledClient DEF IInv, EndsInv
<1>1. /\ DOMAIN batch' = DOMAIN batch \ {c}
      /\ \A d \in DOMAIN batch' : batch'[d] = batch[d]
  BY DEF Without
<1>2. ran' = ran \/ (c \in Ids /\ ran' = c /\ wire'[c] = "taken" /\ c \in (ran + 1)..sent)
  BY <1>0, RunsForward DEF IInv, Typed
<1>3. Typed'
  BY <1>0, <1>2 DEF IInv, Typed, Ids
<1>4. \A d \in Conns : d # c => wire'[d] = wire[d] /\ interest'[d] = interest[d] /\ reply'[d] = reply[d]
  BY <1>0 DEF IInv, Typed
<1>5. BatchInv' /\ BacklogInv' /\ CountInv'
  <2>1. \A d \in DOMAIN batch' : d \in DOMAIN batch /\ d # c /\ d \in Conns
    BY <1>1 DEF IInv, BatchInv, Open
  <2>2. BatchInv'
    BY <1>1, <1>4, <2>1 DEF IInv, BatchInv, Open
  <2>3. BacklogInv' /\ CountInv'
    BY DEF IInv, BacklogInv, CountInv, Open, loop
  <2>4. QED
    BY <2>2, <2>3
<1>6. EndsInv'
  <2>1. \A n \in Ids : n \in Conns
    BY DEF Ids, Conns
  <2>2. wire'[c] \in {"whole", "taken"} => c \in Ids
    BY <1>0, <1>2 DEF IInv, Typed, EndsInv
  <2>3. QED
    BY <1>0, <1>4, <2>1, <2>2 DEF IInv, EndsInv
<1>7. NewestInv'
  <2>1. SUFFICES ASSUME NEW n \in Ids, n \in DOMAIN batch', "HANGUP" \notin batch'[n]
                 PROVE  ran' <= n /\ \A m \in Ids : m > n => m \notin DOMAIN batch'
    BY DEF NewestInv
  <2>2. n \in DOMAIN batch /\ "HANGUP" \notin batch[n] /\ n # c
    BY <1>1, <2>1
  <2>3. ran <= n /\ \A m \in Ids : m > n => m \notin DOMAIN batch
    BY <2>2 DEF IInv, NewestInv
  <2>4. CASE ran' = ran
    BY <1>1, <2>3, <2>4
  <2>5. CASE ran' # ran
    <3>1. c \in Ids /\ ran' = c
      BY <1>2, <2>5
    <3>2. n \in Int /\ c \in Int /\ ~(c > n)
      BY <2>3, <3>1 DEF Ids
    <3>3. QED
      BY <1>1, <2>3, <3>1, <3>2
  <2>6. QED
    BY <2>4, <2>5
<1>8. RanInv'
  <2>1. \A n \in Ids : n \in Conns /\ n \in Int
    BY DEF Ids, Conns
  <2>2. ran \in Int /\ sent' = sent /\ sent \in Int /\ (ran # 0 => ran \in Ids)
    BY DEF IInv, Typed, Ids
  <2>3. interest'[c] = "WRITABLE" \/ reply'[c] # "none" => wire'[c] = "taken"
    BY <1>0 DEF IInv, Typed, RanInv
  <2>4. \A d \in Conns : interest'[d] = "WRITABLE" \/ reply'[d] # "none" => wire'[d] = "taken"
    BY <1>4, <2>3 DEF IInv, RanInv
  <2>5. CASE ran' = ran
    <3>1. wire[c] # "taken" \/ wire'[c] = "taken"
      BY <1>0 DEF IInv, Typed
    <3>2. wire'[c] = "taken" => wire[c] = "taken" \/ ran' = c
      BY <1>0 DEF IInv, Typed
    <3>3. ran # 0 => wire'[ran] = "taken" \/ server'[ran] = "closed"
      BY <1>4, <2>1, <2>2, <3>1 DEF IInv, RanInv
    <3>4. \A n \in Ids : wire'[n] = "taken" => n <= ran'
      BY <1>4, <2>1, <2>5, <3>2 DEF IInv, RanInv
    <3>5. QED
      BY <2>2, <2>4, <2>5, <3>3, <3>4 DEF IInv, RanInv
  <2>6. CASE ran' # ran
    <3>1. ran' = c /\ c \in Ids /\ c > ran /\ c <= sent /\ wire'[c] = "taken"
      BY <1>2, <2>2, <2>6
    <3>2. \A n \in Ids : wire'[n] = "taken" => n <= ran'
      BY <1>4, <2>1, <2>2, <3>1 DEF IInv, RanInv
    <3>3. QED
      BY <2>2, <2>4, <3>1, <3>2 DEF RanInv
  <2>7. QED
    BY <2>5, <2>6
<1>9. QED
  BY <1>3, <1>5, <1>6, <1>7, <1>8 DEF IInv

\* A handler of a client in the batch.
LEMMA EventStep ==
  ASSUME IInv, NEW c \in DOMAIN batch, Event(c)
  PROVE  IInv'
<1>0. c \in Conns /\ server[c] = "open"
  BY HandledClient
<1>1. CASE HangUp(c) \/ ReadFails(c)
  <2>1. Destroy(c) /\ UNCHANGED <<interest, sent, outcome>> /\ UNCHANGED <<reply, ran>>
    BY <1>1 DEF HangUp, ReadFails, connection, requests
  <2>2. QED
    BY <1>0, <2>1, DestroyStep
<1>2. CASE ReadPart(c)
  <2>1. /\ batch' = Without(c) /\ wire[c] = "part" /\ wire' = [wire EXCEPT ![c] = "none"]
        /\ UNCHANGED <<end, server, timer, loop, client_count, sent, outcome>>
        /\ UNCHANGED <<interest, reply, ran>>
    BY <1>2 DEF ReadPart, requests
  <2>2. QED
    BY <2>1, ServeStep
<1>3. CASE Run(c)
  <2>1. /\ batch' = Without(c) /\ Handles(c, "READABLE") /\ wire[c] = "whole"
        /\ wire' = [wire EXCEPT ![c] = "taken"]
        /\ interest' = [interest EXCEPT ![c] = "WRITABLE"]
        /\ ran' = c /\ UNCHANGED reply
        /\ UNCHANGED <<end, server, timer, loop, client_count, sent, outcome>>
    BY <1>3 DEF Run
  <2>2. QED
    BY <2>1, ServeStep
<1>4. CASE RunFails(c)
  <2>1. /\ Destroy(c) /\ UNCHANGED <<interest, sent, outcome>>
        /\ Handles(c, "READABLE") /\ wire[c] = "whole" /\ ran' = c /\ UNCHANGED reply
    BY <1>4 DEF RunFails, connection
  <2>2. QED
    BY <1>0, <2>1, DestroyStep
<1>5. CASE WriteReply(c)
  <2>1. interest[c] = "WRITABLE" /\ UNCHANGED <<interest, sent, outcome, ran>>
    BY <1>5 DEF WriteReply, Handles, requests, IInv, BatchInv
  <2>2. CASE batch' = Without(c) /\ reply' = [reply EXCEPT ![c] = "some"]
             /\ UNCHANGED <<client, server, timer, loop, client_count>>
    <3>1. UNCHANGED <<end, server, timer, loop, client_count, sent, outcome>>
          /\ UNCHANGED <<wire, interest, ran>>
      BY <2>1, <2>2 DEF client
    <3>2. QED
      BY <2>1, <2>2, <3>1, ServeStep
  <2>3. CASE Destroy(c) /\ (reply' = [reply EXCEPT ![c] = "all"] \/ UNCHANGED reply)
    BY <1>0, <2>1, <2>3, DestroyStep
  <2>4. QED
    BY <1>5, <2>2, <2>3 DEF WriteReply
<1>6. QED
  BY <1>1, <1>2, <1>3, <1>4, <1>5 DEF Event

\* Every step keeps the invariant.
LEMMA StepInvariant ==
  ASSUME IInv, [Next]_vars
  PROVE  IInv'
<1>1. CASE Request \/ WriteRequest \/ ConnectFails \/ ReadReply \/ ReadNothing \/ GiveUp
  BY <1>1, EndStep DEF ConnectFails, ReadReply, ReadNothing, GiveUp
<1>2. CASE ConnectRequest
  <2>1. sent \in Conns
    BY <1>2 DEF ConnectRequest, Waiting, IInv, EndsInv, Ids, Conns
  <2>2. QED
    BY <1>2, <2>1, ConnectStep DEF ConnectRequest
<1>3. CASE \E c \in Others : OtherClient(c)
  <2>1. PICK c \in Others : OtherClient(c)
    BY <1>3
  <2>2. CASE Connect(c)
    BY <2>2, ConnectStep DEF Conns
  <2>3. CASE ~Connect(c)
    BY <2>1, <2>3, OtherStep
  <2>4. QED
    BY <2>2, <2>3
<1>4. CASE Poll
  BY <1>4, PollStep
<1>5. CASE Accepts
  BY <1>5, AcceptStep
<1>10. CASE AcceptFails
  BY <1>10 DEF AcceptFails, client, connection, requests, IInv, Typed, BatchInv, BacklogInv,
               CountInv, EndsInv, NewestInv, RanInv, Open
<1>6. CASE \E c \in DOMAIN batch : Event(c)
  BY <1>6, EventStep
<1>7. CASE \E c \in Conns : Expire(c)
  <2>1. PICK c \in Conns : Expire(c)
    BY <1>7
  <2>2. server[c] = "open" /\ Destroy(c) /\ UNCHANGED <<interest, sent, outcome>>
        /\ UNCHANGED <<reply, ran>>
    BY <2>1 DEF Expire, IInv, CountInv, Open, connection, requests
  <2>3. QED
    BY <2>2, DestroyStep
<1>8. CASE UNCHANGED vars
  BY <1>8 DEF vars, IInv, Typed, BatchInv, BacklogInv, CountInv, EndsInv, NewestInv, RanInv, Open
<1>9. QED
  BY <1>1, <1>2, <1>3, <1>4, <1>5, <1>6, <1>7, <1>8, <1>10 DEF Next, Adapter, Loop

\* IInv holds for ever.
LEMMA Invariant == Spec => []IInv
  BY InitInvariant, StepInvariant, PTL DEF Spec

-----------------------------------------------------------------------------
(* The limits: buffers, conditions, slots and faults. *)

LimitsInv ==
  /\ buffered \in [Conns -> 0..BufferParts]
  /\ \A c \in DOMAIN batch : batch[c] \subseteq {"HANGUP", "READABLE", "WRITABLE"}
  /\ client_count \in 0..MaxClients /\ faults \in 0..MaxFaults
  /\ accepting \in BOOLEAN

\* A handler that destroys its client or takes it out of the batch keeps them.
LEMMA HandlerLimits ==
  ASSUME IInv, LimitsInv, NEW c \in Conns,
         Destroy(c) \/ (batch' = Without(c) /\ client_count' = client_count),
         buffered' \in [Conns -> 0..BufferParts], faults' \in 0..MaxFaults, accepting' = accepting
  PROVE  LimitsInv'
<1>1. \A d \in DOMAIN batch' : d \in DOMAIN batch /\ batch'[d] = batch[d]
  BY DEF Destroy, Without
<1>2. client_count' \in 0..MaxClients
  BY LimitsAssumption DEF Destroy, LimitsInv
<1> QED BY <1>1, <1>2 DEF LimitsInv

\* Every step keeps the limits.
LEMMA LimitsStep == IInv /\ LimitsInv /\ [Next]_vars => LimitsInv'
<1> SUFFICES ASSUME IInv, LimitsInv, [Next]_vars PROVE LimitsInv'
  OBVIOUS
<1> USE LimitsAssumption
<1>1. ASSUME UNCHANGED <<buffered, accepting, batch, client_count, faults>> PROVE LimitsInv'
  BY <1>1 DEF LimitsInv
<1>2. ASSUME NEW c \in Conns, Connect(c) PROVE LimitsInv'
  <2>1. buffered' = [buffered EXCEPT ![c] = 0] /\ UNCHANGED <<accepting, batch, client_count, faults>>
    BY <1>2 DEF Connect, dispatch
  <2> QED BY <2>1 DEF LimitsInv
<1>3. CASE Request \/ WriteRequest \/ ConnectFails \/ ReadReply \/ ReadNothing \/ GiveUp
  BY <1>1, <1>3 DEF Request, WriteRequest, ConnectFails, ReadReply, ReadNothing, GiveUp, Ends,
                    labwc, connection, dispatch
<1>4. CASE ConnectRequest
  <2>1. sent \in Conns
    BY <1>4 DEF ConnectRequest, Waiting, IInv, EndsInv, Ids, Conns
  <2> QED BY <1>2, <1>4, <2>1 DEF ConnectRequest
<1>5. CASE \E c \in Others : OtherClient(c)
  <2>1. PICK c \in Others : OtherClient(c)
    BY <1>5
  <2>2. CASE Connect(c)
    BY <1>2, <2>2 DEF Conns
  <2>3. CASE ~Connect(c)
    BY <1>1, <2>1, <2>3 DEF OtherClient, labwc, connection, dispatch
  <2> QED BY <2>2, <2>3
<1>6. CASE Poll
  <2>1. /\ DOMAIN batch' = {d \in Open : Conditions(d) # {}}
        /\ \A c \in DOMAIN batch' : c \in Conns /\ batch'[c] = Conditions(c)
        /\ UNCHANGED <<buffered, client_count, faults>>
    BY <1>6 DEF Poll, Open, connection
  <2>2. \A c \in Conns : Conditions(c) \subseteq {"HANGUP", "READABLE", "WRITABLE"}
    BY DEF Conditions, IInv, Typed
  <2>3. accepting' \in BOOLEAN
    BY <1>6 DEF Poll
  <2> QED BY <2>1, <2>2, <2>3 DEF LimitsInv
<1>7. CASE Accepts \/ AcceptFails
  <2>1. UNCHANGED <<buffered, batch>>
    BY <1>7 DEF Accepts, AcceptFails, RejectClient, AcceptClient, SetupFails, Listen, connection
  <2>2. client_count' \in 0..MaxClients
    BY <1>7 DEF Accepts, AcceptFails, RejectClient, AcceptClient, SetupFails, LimitsInv
  <2>3. faults' \in 0..MaxFaults
    BY <1>7 DEF Accepts, AcceptFails, RejectClient, AcceptClient, SetupFails, Fault, LimitsInv
  <2>4. accepting' = FALSE
    BY <1>7 DEF Accepts, AcceptFails, RejectClient, AcceptClient, SetupFails, Listen
  <2>5. accepting' \in BOOLEAN
    BY <2>4
  <2> QED BY <2>1, <2>2, <2>3, <2>5 DEF LimitsInv
<1>8. ASSUME NEW c \in DOMAIN batch, Event(c) PROVE LimitsInv'
  <2>0. c \in Conns
    BY HandledClient
  <2>1. CASE HangUp(c) \/ ReadFails(c) \/ RunFails(c)
    <3>1. Destroy(c) /\ buffered' = buffered /\ faults' \in 0..MaxFaults /\ accepting' = accepting
      BY <2>1 DEF HangUp, ReadFails, RunFails, Fault, Destroy, loop, connection, LimitsInv
    <3> QED BY <2>0, <3>1, HandlerLimits DEF LimitsInv
  <2>2. CASE ReadPart(c)
    <3>1. /\ batch' = Without(c) /\ UNCHANGED <<accepting, client_count, faults>>
          /\ buffered[c] < BufferParts /\ buffered' = [buffered EXCEPT ![c] = @ + 1]
      BY <2>2 DEF ReadPart, loop
    <3>2. buffered' \in [Conns -> 0..BufferParts] /\ faults' \in 0..MaxFaults
      BY <2>0, <3>1 DEF LimitsInv
    <3> QED BY <2>0, <3>1, <3>2, HandlerLimits
  <2>3. CASE Run(c) \/ WriteReply(c)
    <3>1. /\ Destroy(c) \/ (batch' = Without(c) /\ client_count' = client_count)
          /\ UNCHANGED <<buffered, faults, accepting>>
      BY <2>3 DEF Run, WriteReply, Destroy, loop
    <3> QED BY <2>0, <3>1, HandlerLimits DEF LimitsInv
  <2> QED BY <1>8, <2>1, <2>2, <2>3 DEF Event
<1>9. ASSUME NEW c \in Conns, Expire(c) PROVE LimitsInv'
  <2>1. Destroy(c) /\ UNCHANGED <<buffered, faults, accepting>>
    BY <1>9 DEF Expire, Destroy, loop, connection
  <2> QED BY <2>1, HandlerLimits DEF LimitsInv
<1>10. CASE UNCHANGED vars
  BY <1>1, <1>10 DEF vars
<1> QED BY <1>3, <1>4, <1>5, <1>6, <1>7, <1>8, <1>9, <1>10 DEF Next, Adapter, Loop

\* The limits of the buffers, the slots and the faults are kept.
THEOREM ServerTyped == Spec => []TypeOK
<1>1. Init => LimitsInv
  <2> SUFFICES ASSUME Init PROVE LimitsInv
    OBVIOUS
  <2>1. DOMAIN batch = {}
    BY DEF Init
  <2>2. accepting = FALSE /\ accepting \in BOOLEAN
    <3>1. accepting = FALSE
      BY DEF Init
    <3> QED BY <3>1
  <2> QED BY <2>1, <2>2, LimitsAssumption DEF Init, LimitsInv
<1>2. IInv /\ LimitsInv => TypeOK
  <2> SUFFICES ASSUME IInv, LimitsInv PROVE TypeOK
    OBVIOUS
  <2>1. backlog \in Seq(Conns) /\ DOMAIN batch \subseteq Open
    BY DEF IInv, BacklogInv, BatchInv
  <2>2. Typed
    BY DEF IInv
  <2> QED BY <2>1, <2>2 DEF Typed, LimitsInv, TypeOK
<1> QED BY <1>1, <1>2, LimitsStep, Invariant, PTL DEF Spec

-----------------------------------------------------------------------------
(* Requests abandoned in the backlog. *)

\* Nothing is read from a connection that has not been accepted.
UnreadInv == \A c \in Conns : server[c] = "backlog" => wire[c] # "taken"

\* Request n was abandoned: from now on every batch sees its hang-up.
Abandoned(n) ==
  /\ end[n] = "closed" /\ ran # n
  /\ n \in DOMAIN batch => "HANGUP" \in batch[n]

\* UnreadInv is inductive.
LEMMA UnreadStep == IInv /\ UnreadInv /\ [Next]_vars => UnreadInv'
<1> SUFFICES ASSUME IInv, UnreadInv, [Next]_vars PROVE UnreadInv'
  OBVIOUS
<1> USE LimitsAssumption
<1>0. /\ wire \in [Conns -> {"none", "part", "whole", "taken"}]
      /\ server \in [Conns -> {"none", "backlog", "open", "closed"}]
  BY DEF IInv, Typed
<1>1. ASSUME UNCHANGED <<wire, server>> PROVE UnreadInv'
  BY <1>1 DEF UnreadInv
<1>2. ASSUME NEW c \in Conns, Connect(c) PROVE UnreadInv'
  BY <1>0, <1>2 DEF Connect, UnreadInv
<1>3. ASSUME NEW c \in Conns, server' = [server EXCEPT ![c] = "open"]
             \/ server' = [server EXCEPT ![c] = "closed"], wire' = wire
      PROVE UnreadInv'
  BY <1>0, <1>3 DEF UnreadInv
<1>4. CASE Request \/ ConnectFails \/ ReadReply \/ ReadNothing \/ GiveUp \/ Poll \/ AcceptFails
           \/ UNCHANGED vars
  BY <1>1, <1>4 DEF Request, ConnectFails, ReadReply, ReadNothing, GiveUp, Ends, Poll, AcceptFails,
                    client, vars
<1>5. CASE WriteRequest \/ ConnectRequest
  <2>1. sent \in Conns
    BY <1>5 DEF WriteRequest, ConnectRequest, Waiting, IInv, EndsInv, Ids, Conns
  <2>2. CASE WriteRequest
    BY <1>0, <2>1, <2>2 DEF WriteRequest, UnreadInv
  <2> QED BY <1>2, <1>5, <2>1, <2>2 DEF ConnectRequest
<1>6. CASE \E c \in Others : OtherClient(c)
  <2>1. PICK c \in Others : OtherClient(c)
    BY <1>6
  <2>2. c \in Conns
    BY DEF Conns
  <2>3. CASE wire' = [wire EXCEPT ![c] = "part"] /\ server' = server
    BY <1>0, <2>2, <2>3 DEF UnreadInv
  <2> QED BY <1>1, <1>2, <2>1, <2>2, <2>3 DEF OtherClient
<1>7. CASE Accepts
  <2>1. Head(backlog) \in Conns /\ wire' = wire
    BY <1>7 DEF Accepts, RejectClient, AcceptClient, SetupFails, Listen, client, IInv, BacklogInv
  <2> QED BY <1>3, <1>7, <2>1 DEF Accepts, RejectClient, AcceptClient, SetupFails
<1>8. ASSUME NEW c \in Conns, Destroy(c) PROVE UnreadInv'
  BY <1>3, <1>8 DEF Destroy, client
<1>9. ASSUME NEW c \in DOMAIN batch, Event(c) PROVE UnreadInv'
  <2>1. c \in Conns /\ server[c] = "open"
    BY HandledClient
  <2>2. CASE ReadPart(c) \/ Run(c)
    BY <1>0, <2>1, <2>2 DEF ReadPart, Run, UnreadInv
  <2>3. CASE WriteReply(c) /\ ~Destroy(c)
    BY <1>1, <2>3 DEF WriteReply, client
  <2> QED BY <1>8, <1>9, <2>1, <2>2, <2>3 DEF Event, HangUp, ReadFails, RunFails
<1>10. ASSUME NEW c \in Conns, Expire(c) PROVE UnreadInv'
  BY <1>8, <1>10 DEF Expire
<1> QED BY <1>4, <1>5, <1>6, <1>7, <1>9, <1>10 DEF Next, Adapter, Loop

\* A closed request stays closed: only the other clients connect again.
LEMMA StaysClosed ==
  ASSUME IInv, NEW n \in Ids, end[n] = "closed", [Next]_vars
  PROVE  end'[n] = "closed"
<1>1. n \in Conns /\ n \notin Others /\ end \in [Conns -> {"unused", "open", "closed"}]
  BY LimitsAssumption DEF Ids, Conns, IInv, Typed
<1>2. ASSUME NEW c, Connect(c) \/ Close(c) PROVE end'[n] = "closed"
  BY <1>1, <1>2 DEF Connect, Close
<1>3. ASSUME end' = end PROVE end'[n] = "closed"
  BY <1>3
<1>4. ASSUME Request \/ Adapter \/ GiveUp \/ (\E c \in Others : OtherClient(c))
      PROVE end'[n] = "closed"
  BY <1>2, <1>3, <1>4 DEF Request, Adapter, GiveUp, OtherClient, ConnectRequest, ConnectFails,
     WriteRequest, ReadReply, ReadNothing, Ends, client
<1>5. ASSUME Loop \/ (\E c \in Conns : Expire(c)) \/ UNCHANGED vars PROVE end' = end
  <2>1. CASE Poll \/ Accepts \/ AcceptFails \/ UNCHANGED vars
    BY <2>1 DEF Poll, Accepts, AcceptFails, RejectClient, AcceptClient, SetupFails, Listen, client,
                vars
  <2>2. CASE \E c \in DOMAIN batch : Event(c)
    BY <2>2 DEF Event, HangUp, ReadFails, ReadPart, Run, RunFails, WriteReply, Destroy, client
  <2>3. CASE \E c \in Conns : Expire(c)
    BY <2>3 DEF Expire, Destroy, client
  <2> QED BY <1>5, <2>1, <2>2, <2>3 DEF Loop
<1> QED BY <1>3, <1>4, <1>5 DEF Next

\* What has run last is what ran before, or a client of the batch that showed
\* no hang-up.
LEMMA RunsWithoutHangUp ==
  ASSUME IInv, [Next]_vars
  PROVE  ran' = ran \/ (ran' \in DOMAIN batch /\ "HANGUP" \notin batch[ran'])
<1>1. CASE \E c \in DOMAIN batch : Run(c) \/ RunFails(c)
  BY <1>1 DEF Run, RunFails, Handles
<1>2. CASE Request \/ Adapter \/ GiveUp \/ \E c \in Others : OtherClient(c)
  BY <1>2 DEF Request, Adapter, GiveUp, OtherClient, ConnectRequest, ConnectFails, WriteRequest,
     ReadReply, ReadNothing, Ends, Connect, requests
<1>3. CASE Poll \/ Accepts \/ AcceptFails \/ UNCHANGED vars
  BY <1>3 DEF Poll, Accepts, AcceptFails, RejectClient, AcceptClient, SetupFails, Listen, requests,
     vars
<1>4. CASE \/ \E c \in DOMAIN batch : HangUp(c) \/ ReadFails(c) \/ ReadPart(c) \/ WriteReply(c)
           \/ \E c \in Conns : Expire(c)
  BY <1>4 DEF HangUp, ReadFails, ReadPart, WriteReply, Expire, requests
<1> QED BY <1>1, <1>2, <1>3, <1>4 DEF Next, Loop, Event

\* A step changes the conditions of a batch only by taking a new batch.
LEMMA BatchChanges ==
  ASSUME [Next]_vars, ~Poll
  PROVE  \A d \in DOMAIN batch' : d \in DOMAIN batch /\ batch'[d] = batch[d]
<1> DEFINE Kept == \A d \in DOMAIN batch' : d \in DOMAIN batch /\ batch'[d] = batch[d]
<1>1. ASSUME NEW c, Destroy(c) \/ batch' = Without(c) PROVE Kept
  BY <1>1 DEF Destroy, Without
<1>2. CASE Request \/ Adapter \/ GiveUp \/ \E c \in Others : OtherClient(c)
  BY <1>2 DEF Request, Adapter, GiveUp, OtherClient, ConnectRequest, ConnectFails, WriteRequest,
     ReadReply, ReadNothing, Ends, Connect, labwc, dispatch
<1>3. CASE Accepts \/ AcceptFails \/ UNCHANGED vars
  BY <1>3 DEF Accepts, AcceptFails, RejectClient, AcceptClient, SetupFails, Listen, vars
<1>4. CASE \E c \in DOMAIN batch : Event(c)
  BY <1>1, <1>4 DEF Event, HangUp, ReadFails, ReadPart, Run, RunFails, WriteReply
<1>5. CASE \E c \in Conns : Expire(c)
  BY <1>1, <1>5 DEF Expire
<1> QED BY <1>2, <1>3, <1>4, <1>5 DEF Next, Loop

\* An abandoned request stays abandoned, and so never runs.
LEMMA AbandonedStep ==
  ASSUME NEW n \in Ids
  PROVE  IInv /\ Abandoned(n) /\ [Next]_vars => Abandoned(n)'
<1> SUFFICES ASSUME IInv, Abandoned(n), [Next]_vars PROVE Abandoned(n)'
  OBVIOUS
<1>1. end'[n] = "closed"
  BY StaysClosed DEF Abandoned
<1>2. ran' # n
  BY RunsWithoutHangUp DEF Abandoned
<1>3. ASSUME n \in DOMAIN batch' PROVE "HANGUP" \in batch'[n]
  <2>1. CASE Poll
    <3>1. n \in {c \in Open : Conditions(c) # {}} /\ batch'[n] = Conditions(n)
      BY <1>3, <2>1 DEF Poll
    <3> QED BY <3>1 DEF Conditions, Abandoned
  <2>2. CASE ~Poll
    BY <1>3, <2>2, BatchChanges DEF Abandoned
  <2> QED BY <2>1, <2>2
<1> QED BY <1>1, <1>2, <1>3 DEF Abandoned

\* A request that is given up while its connection is still in the backlog
\* never runs, however long the compositor is busy (patch:467).
THEOREM AbandonedStayUnrun == Spec => AbandonedNeverRuns
<1>1. Spec => []UnreadInv
  <2>1. Init => UnreadInv
    BY DEF Init, UnreadInv
  <2> QED BY <2>1, UnreadStep, Invariant, PTL DEF Spec
<1>2. ASSUME NEW n \in 1..Requests
      PROVE  Spec => [](server[n] = "backlog" /\ end[n] = "closed" => [](ran # n))
  <2>1. IInv /\ UnreadInv /\ server[n] = "backlog" /\ end[n] = "closed" => Abandoned(n)
    <3> SUFFICES ASSUME IInv, UnreadInv, server[n] = "backlog", end[n] = "closed"
                 PROVE  Abandoned(n)
      OBVIOUS
    <3>1. n \in Conns /\ n # 0
      BY LimitsAssumption DEF Conns
    <3>2. ran # n
      BY <3>1 DEF IInv, RanInv, UnreadInv
    <3>3. n \notin DOMAIN batch
      BY DEF IInv, BatchInv, Open
    <3> QED BY <3>2, <3>3 DEF Abandoned
  <2>2. IInv /\ Abandoned(n) /\ [Next]_vars => Abandoned(n)'
    BY AbandonedStep DEF Ids
  <2>3. Abandoned(n) => ran # n
    BY DEF Abandoned
  <2> QED BY <1>1, <2>1, <2>2, <2>3, Invariant, PTL DEF Spec
<1> QED BY <1>2 DEF AbandonedNeverRuns

-----------------------------------------------------------------------------
\* client_count is the number of clients that exist, at every step of every
\* handler and failure.
THEOREM ClientsAreCounted == Spec => []CountIsExact
<1>1. IInv => CountIsExact
  BY DEF IInv, CountInv, CountIsExact
<1>2. QED
  BY <1>1, Invariant, PTL

\* A step of the server, its clients or the adapter is a step of the channel
\* or leaves it unchanged.
LEMMA StepOfChannel ==
  ASSUME IInv, [Next]_vars
  PROVE  [Channel!Next]_(Channel!vars)
<1> USE DEF Channel!vars, Channel!Next
<1>1. CASE Request
  BY <1>1 DEF Request, Channel!Send
<1>2. CASE ConnectFails \/ ReadNothing \/ GiveUp
  BY <1>2 DEF ConnectFails, ReadNothing, GiveUp, Ends, Waiting, Channel!Fail
<1>3. CASE ReadReply
  <2>1. sent \in Ids /\ wire[sent] = "taken"
    BY <1>3 DEF ReadReply, Waiting, Ids, Conns, IInv, EndsInv, RanInv
  <2>2. ran = sent
    BY <2>1, LimitsAssumption DEF IInv, Typed, RanInv
  <2>3. QED
    BY <1>3, <2>2 DEF ReadReply, Ends, Waiting, Channel!Answer
<1>4. CASE \E c \in DOMAIN batch : Run(c) \/ RunFails(c)
  <2>1. PICK c \in DOMAIN batch : Run(c) \/ RunFails(c)
    BY <1>4
  <2>2. Handles(c, "READABLE") /\ wire[c] = "whole" /\ ran' = c /\ UNCHANGED <<sent, outcome>>
    BY <2>1 DEF Run, RunFails
  <2>3. ran' \in (ran + 1)..sent
    BY <2>2, RunsForward
  <2>4. QED
    BY <2>2, <2>3 DEF Channel!Run
<1>5. CASE ConnectRequest \/ WriteRequest \/ \E c \in Others : OtherClient(c)
  BY <1>5 DEF ConnectRequest, WriteRequest, OtherClient, Connect, requests
<1>6. CASE Poll \/ Accepts \/ AcceptFails
  BY <1>6 DEF Poll, Accepts, AcceptFails, RejectClient, AcceptClient, SetupFails, Listen, requests
<1>7. CASE \E c \in DOMAIN batch : HangUp(c) \/ ReadFails(c) \/ ReadPart(c) \/ WriteReply(c)
  BY <1>7 DEF HangUp, ReadFails, ReadPart, WriteReply, requests
<1>8. CASE \E c \in Conns : Expire(c)
  BY <1>8 DEF Expire, requests
<1>9. CASE UNCHANGED vars
  BY <1>9 DEF vars
<1>10. QED
  BY <1>1, <1>2, <1>3, <1>4, <1>5, <1>6, <1>7, <1>8, <1>9 DEF Next, Adapter, Loop, Event

\* The server and the adapter implement the request channel: no request runs
\* twice or after a newer one, and an answered request has run.
THEOREM ServerImplementsChannel == Spec => ImplementsChannel
<1>1. Init => Channel!Init
  BY DEF Init, Channel!Init
<1>2. IInv /\ [Next]_vars => [Channel!Next]_(Channel!vars)
  BY StepOfChannel
<1>3. QED
  BY <1>1, <1>2, Invariant, PTL DEF Spec, ImplementsChannel, Channel!Spec
=============================================================================
