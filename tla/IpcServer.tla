------------------------------ MODULE IpcServer ------------------------------
(***************************************************************************)
(* The IPC server of the compositor (sway/ipc-server.c) and the socket     *)
(* side of its clients (common/ipc-client.c).  The state s of the server   *)
(* and its sockets is one record, and every C function is a function of    *)
(* it; Swaybar.tla takes them as their actions.                            *)
(*                                                                         *)
(* A message is two units, its header and its payload, because sockets     *)
(* deliver any number of bytes at a time.  An event carries its number     *)
(* among the events that its client subscribed to; replies carry 0.        *)
(*                                                                         *)
(*   limit    a write buffer above this many units disconnects (4 MB)      *)
(*   list     ipc_client_list                                              *)
(*   sub      subscribed_events of each client                             *)
(*   buf      write_buffer; size is write_buffer_size in units             *)
(*   watch    clients with a writable_event_source                         *)
(*   pending  pending_type: the request whose header was read              *)
(*   inbox    units that the client sent and the server did not read       *)
(*   net      units written to the socket that the client did not read     *)
(*   open     clients that hold their end of the socket                    *)
(*   heard    number of the last event raised for the client               *)
(*   seen     number of the last event the client has read                 *)
(***************************************************************************)
EXTENDS Integers, SequencesExt, FiniteSetsExt

CONSTANTS
  Clients,      \* sockets of clients
  SocketRoom,   \* units that the socket holds
  None

ASSUME RoomAssumption == SocketRoom \in Nat \ {0}

\* One C function after another: Op applied to the state that v is.
Then(v, Op(_)) == CHOOSE r \in {Op(x) : x \in {v}} : TRUE

\* ipc_init
NoServer(limit) ==
  [limit |-> limit, list |-> <<>>, sub |-> [c \in Clients |-> {}], buf |-> [c \in Clients |-> <<>>],
   size |-> [c \in Clients |-> 0], watch |-> {}, pending |-> [c \in Clients |-> None],
   inbox |-> [c \in Clients |-> <<>>], net |-> [c \in Clients |-> <<>>], open |-> {},
   heard |-> [c \in Clients |-> 0], seen |-> [c \in Clients |-> 0]]

Units(m) == <<[m |-> m, part |-> "header"], [m |-> m, part |-> "payload"]>>

Message(type, val, n) == [type |-> type, val |-> val, n |-> n]

\* ipc.h: the events that are modelled, and the requests.  known is whether all names
\* of a subscription are; a request that only reads may be bare, without a payload.
EventTypes == {"workspace", "mode", "config", "tick", "state", "scroller"}

Requests ==
  [type : {"subscribe", "tick", "config", "workspaces", "scroller"}, events : SUBSET EventTypes,
   known : BOOLEAN, bare : BOOLEAN]

-----------------------------------------------------------------------------
(* Connections.                                                             *)

\* ipc_handle_connection, with the initial buffer of 128 bytes
InitialSize == 2

HandleConnection(s, c) ==
  [s EXCEPT !.list = Append(@, c), !.sub[c] = {}, !.buf[c] = <<>>, !.size[c] = InitialSize,
            !.pending[c] = None, !.inbox[c] = <<>>, !.net[c] = <<>>,
            !.open = @ \cup {c}, !.heard[c] = 0, !.seen[c] = 0]

\* ipc_client_disconnect: what was written can still be read by the client.
ClientDisconnect(s, c) ==
  LET i == CHOOSE j \in DOMAIN s.list : s.list[j] = c
  IN  [s EXCEPT !.list = RemoveAt(@, i), !.watch = @ \ {c}, !.buf[c] = <<>>, !.size[c] = 0,
                !.sub[c] = {}, !.pending[c] = None, !.inbox[c] = <<>>]

\* The client closes its end.
CloseSocket(s, c) == [s EXCEPT !.open = @ \ {c}, !.net[c] = <<>>]

Connected(s, c) == Contains(s.list, c)

\* The socket can be used for another connection.
Vacant(s, c) == ~Connected(s, c) /\ c \notin s.open

-----------------------------------------------------------------------------
(* Replies and events.                                                      *)

\* The doubling in ipc_send_reply, for a buffer that is to hold n units: size as it is
\* after each turn of the loop, which ends with the first that is above n
Doublings(size) ==
  LET doubled[k \in Nat] == IF k = 0 THEN size ELSE 2 * doubled[k - 1] IN doubled

Grown(size, n) ==
  LET Enough(k) == Doublings(size)[k] > n
  IN  Doublings(size)[CHOOSE k \in 0..n : Enough(k) /\ \A j \in 0..(k - 1) : ~Enough(j)]

SendReply(s, c, m) ==
  LET n == Len(s.buf[c]) + 2
      Queue(size) ==
        IF size > s.limit THEN ClientDisconnect(s, c)
        ELSE [s EXCEPT !.size[c] = size, !.buf[c] = @ \o Units(m), !.watch = @ \cup {c}]
  IN  Queue(Grown(s.size[c], n))

SendTo_SkipsNext(t, type, val) ==
  LET c == t.s.list[t.i]
  IN  IF type \in t.s.sub[c]
      THEN [s |-> SendReply(t.s, c, Message(type, val, t.s.heard[c])), i |-> t.i + 1]
      ELSE [t EXCEPT !.i = @ + 1]

\* One turn of the loop of ipc_send_event, at index t.i of the list.  A client that
\* is disconnected leaves the list, and the next one has its index.
SendTo(t, type, val) ==
  LET c == t.s.list[t.i]
      Next(s) == [s |-> s, i |-> IF Connected(s, c) THEN t.i + 1 ELSE t.i]
  IN  IF type \in t.s.sub[c] THEN Next(SendReply(t.s, c, Message(type, val, t.s.heard[c])))
      ELSE [t EXCEPT !.i = @ + 1]

\* The loop after each of its turns
Turns(s, type, val) ==
  LET Turn(t) == IF t.i > Len(t.s.list) THEN t ELSE SendTo(t, type, val)
      turn[k \in Nat] == IF k = 0 THEN [s |-> s, i |-> 1] ELSE Then(turn[k - 1], Turn)
  IN  turn

\* ipc_event_...: heard is what every listener is owed.
SendEvent(s, type, val) ==
  Turns([s EXCEPT !.heard = [c \in Clients |-> IF type \in s.sub[c] THEN @[c] + 1 ELSE @[c]]],
        type, val)[Len(s.list)].s

-----------------------------------------------------------------------------
(* Requests.                                                                *)

\* IPC_SUBSCRIBE: the events before an unknown one stay subscribed.
Subscribe(s, c, r) ==
  LET Added == [s EXCEPT !.sub[c] = @ \cup r.events]
      Answered(ok) == SendReply(Added, c, Message("reply", ok, 0))
      First(e) == IF "tick" \in r.events
                  THEN SendReply([e EXCEPT !.heard[c] = @ + 1], c, Message("tick", "first", e.heard[c] + 1))
                  ELSE e
  IN  IF r.known THEN Then(Answered(TRUE), First) ELSE Answered(FALSE)

\* IPC_SEND_TICK
SendTick(s, c) ==
  LET Reply(e) == SendReply(e, c, Message("reply", TRUE, 0))
  IN  Then(SendEvent(s, "tick", "sent"), Reply)

\* The requests that only read: answer is what ipc_json_describe_... tells.
Answer(s, c, answer) == SendReply(s, c, Message("reply", answer, 0))

HandleCommand(s, c, r, answer) ==
  CASE r.type = "subscribe" -> Subscribe(s, c, r)
    [] r.type = "tick" -> SendTick(s, c)
    [] OTHER -> Answer(s, c, answer)

\* ipc_client_handle_readable, where something can be read: one request at most.  A
\* bare request has no payload.  Answering(r) is what the compositor answers now.
HandleReadable(s, c, Answering(_)) ==
  LET Handle(e) ==
        LET r == e.pending[c]
            Command(f) == HandleCommand(f, c, r, Answering(r))
        IN  Then([e EXCEPT !.pending[c] = None, !.inbox[c] = IF r.bare THEN @ ELSE Tail(@)], Command)
      Header(e) == IF e.pending[c].bare \/ e.inbox[c] # <<>> THEN Handle(e) ELSE e
  IN  IF c \notin s.open THEN ClientDisconnect(s, c)
      ELSE IF s.pending[c] # None THEN Handle(s)
      ELSE Then([s EXCEPT !.pending[c] = Head(s.inbox[c]).m, !.inbox[c] = Tail(@)], Header)

Readable(s, c) == Connected(s, c) /\ (c \notin s.open \/ s.inbox[c] # <<>>)

\* ipc_client_handle_writable: write takes the first n units.
HandleWritable(s, c, n) ==
  LET rest == SubSeq(s.buf[c], n + 1, Len(s.buf[c]))
  IN  [s EXCEPT !.net[c] = @ \o SubSeq(s.buf[c], 1, n), !.buf[c] = rest,
                !.watch = IF rest = <<>> THEN @ \ {c} ELSE @]

Writable(s, c) ==
  IF c \in s.watch /\ c \in s.open
  THEN 1..Min({Len(s.buf[c]), SocketRoom - Len(s.net[c])}) ELSE {}

-----------------------------------------------------------------------------
(* The clients' side: ipc-client.c.                                         *)

\* ipc_single_command writes the header, then the payload if there is one.
Request(type, events, known, bare) ==
  [type |-> type, events |-> events, known |-> known, bare |-> bare]

SendUnit(s, c, r, part) ==
  [s EXCEPT !.inbox[c] = IF Connected(s, c) THEN Append(@, [m |-> r, part |-> part]) ELSE @]

SendRequest(s, c, r) ==
  LET header == SendUnit(s, c, r, "header")
  IN  IF r.bare THEN header ELSE Then(header, LAMBDA e : SendUnit(e, c, r, "payload"))

\* A whole message is there to be read by ipc_recv_response.
Arrived(s, c) == Len(s.net[c]) >= 2

\* ipc_recv_response, which blocks until the message is whole
RecvResponse(s, c) ==
  [s EXCEPT !.net[c] = Tail(Tail(@)),
            !.seen[c] = IF Head(s.net[c]).m.n > 0 THEN Head(s.net[c]).m.n ELSE @]

\* ipc_recv_response when the server has closed the connection: the client aborts.
Lost(s, c) == c \in s.open /\ ~Connected(s, c) /\ s.net[c] = <<>>

-----------------------------------------------------------------------------
(* What the clients are promised.                                           *)

\* What c has yet to read is whole messages in order; it may have read a header, or
\* the end of a message may be lost with the connection.
Unread(s, c) == s.net[c] \o s.buf[c]

Whole(q) ==
  /\ \A i \in DOMAIN q : q[i].part = IF i % 2 = 1 THEN "header" ELSE "payload"
  /\ \A i \in DOMAIN q : i % 2 = 0 => q[i].m = q[i - 1].m

\* The events that are whole in q, by their places
Events(q) == {i \in DOMAIN q : q[i].part = "payload" /\ q[i].m.n > 0}

\* The events in q are those numbered from first to last, in order.
Numbered(q, first, last) ==
  /\ \A i, j \in Events(q) : i < j => q[i].m.n < q[j].m.n
  /\ {q[i].m.n : i \in Events(q)} = first..last

\* The events that c has yet to read are those after the last it has read, in
\* order, up to the last that was raised for it.
InOrder(s, c) ==
  \E last \in s.seen[c]..s.heard[c] :
    /\ Numbered(Unread(s, c), s.seen[c] + 1, last)
    /\ Connected(s, c) => last = s.heard[c]

\* A client with a message to write is watched, and within its limit.
Watched(s) ==
  /\ \A c \in Clients : s.buf[c] # <<>> <=> c \in s.watch
  /\ \A c \in ToSet(s.list) : Len(s.buf[c]) < s.size[c] /\ s.size[c] <= s.limit

=============================================================================
