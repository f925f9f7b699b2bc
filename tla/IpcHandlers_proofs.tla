-------------------------- MODULE IpcHandlers_proofs --------------------------
(***************************************************************************)
(* What the server's handlers and the clients' calls of IpcServer          *)
(* preserve, each as a whole.                                              *)
(***************************************************************************)
EXTENDS IpcServer_proofs

\* What the actions of another client leave of x: it may only be told of an event, or
\* be disconnected for it.
Undisturbed(s, r, x) ==
  /\ x \in r.open <=> x \in s.open
  /\ Connected(r, x) =>
       /\ Connected(s, x)
       /\ r.sub[x] = s.sub[x] /\ r.pending[x] = s.pending[x] /\ r.inbox[x] = s.inbox[x]
  /\ s.sub[x] = {} => SameClient(s, r, x)

\* A server led by what c does from s to r
Leads(V, R, c, s, r) ==
  /\ AllSound(V, R, r) /\ r.limit = s.limit
  /\ \A x \in Clients \ {c} : Undisturbed(s, r, x)

\* Who has the same state is undisturbed.
LEMMA SameUndisturbed ==
  ASSUME NEW s, NEW r, NEW x, SameClient(s, r, x) PROVE Undisturbed(s, r, x)
BY DEF SameClient, Undisturbed

\* Two things after each other that do not disturb x do not disturb it.
LEMMA UndisturbedTwice ==
  ASSUME NEW s, NEW r, NEW q, NEW x, Undisturbed(s, r, x), Undisturbed(r, q, x)
  PROVE  Undisturbed(s, q, x)
BY DEF SameClient, Undisturbed

\* c may do two things after each other.
LEMMA LeadsTwice ==
  ASSUME NEW V, NEW R, NEW c, NEW s, NEW r, NEW q, Leads(V, R, c, s, r), Leads(V, R, c, r, q)
  PROVE  Leads(V, R, c, s, q)
BY UndisturbedTwice DEF Leads

\* Then applies its operator to the state.
LEMMA ThenIs == ASSUME NEW v, NEW Op(_) PROVE Then(v, Op) = Op(v)
<1>1. {Op(x) : x \in {v}} = {Op(v)} OBVIOUS
<1> QED BY <1>1 DEF Then

\* Only the state of c changes, and it is sound again.
LEMMA OnlyLeads ==
  ASSUME NEW V, NEW R, NEW s, AllSound(V, R, s), NEW c \in Clients,
         NEW r \in Servers(V, R), NoDup(r.list), OnlyOf(c, s, r), Sound(r, c, 0)
  PROVE  Leads(V, R, c, s, r)
<1>1. ASSUME NEW x \in Clients \ {c} PROVE Sound(r, x, 0) /\ Undisturbed(s, r, x)
  <2>1. SameClient(s, r, x) /\ s.limit = r.limit BY <1>1 DEF OnlyOf
  <2>2. Sound(s, x, 0) BY DEF AllSound
  <2> QED BY <2>1, <2>2, SameSound, SameUndisturbed
<1>2. \A x \in Clients : Sound(r, x, 0) BY <1>1
<1> QED BY <1>1, <1>2 DEF Leads, AllSound, OnlyOf

\* More values may be carried.
LEMMA MoreValues ==
  ASSUME NEW V, NEW W, V \subseteq W, NEW R, NEW s, AllSound(V, R, s)
  PROVE  AllSound(W, R, s)
<1>1. s \in Servers(V, R) BY DEF AllSound
<1>2. Record(s) /\ Typed(V, R, s) BY <1>1, ServerFields
<1>3. UnitsOf(V) \subseteq UnitsOf(W)
  <2>1. Messages(V) \subseteq Messages(W) BY DEF Messages
  <2> QED BY <2>1 DEF UnitsOf
<1>4. \A q \in Seq(UnitsOf(V)) : q \in Seq(UnitsOf(W))
  <2> DEFINE A == UnitsOf(V)
             B == UnitsOf(W)
  <2> HIDE DEF A, B
  <2>1. A \subseteq B BY <1>3 DEF A, B
  <2>2. \A q \in Seq(A) : q \in Seq(B) BY <2>1
  <2> QED BY <2>2 DEF A, B
<1>5. s.buf \in [Clients -> Seq(UnitsOf(W))] BY <1>2, <1>4 DEF Typed
<1>6. s.net \in [Clients -> Seq(UnitsOf(W))] BY <1>2, <1>4 DEF Typed
<1>7. Typed(W, R, s) BY <1>2, <1>5, <1>6 DEF Typed
<1>8. s \in Servers(W, R) BY <1>2, <1>7, ServerFields
<1> QED BY <1>8 DEF AllSound

-----------------------------------------------------------------------------
(* Replies and events.                                                      *)

\* c was sent a reply or disconnected.
Answered(V, R, c, s, r) ==
  /\ Leads(V, R, c, s, r) /\ r.open = s.open /\ r.heard = s.heard
  /\ Connected(r, c) <=> Grown(s.size[c], Len(s.buf[c]) + 2) <= s.limit
  /\ Connected(r, c) =>
       /\ r.sub = s.sub /\ r.pending = s.pending /\ r.inbox = s.inbox
       /\ r.size[c] = Grown(s.size[c], Len(s.buf[c]) + 2) /\ Len(r.buf[c]) = Len(s.buf[c]) + 2

\* A connected client has a place in the list.
LEMMA IndexOf ==
  ASSUME NEW V, NEW R, NEW s \in Servers(V, R), NEW c, Connected(s, c)
  PROVE  \E i \in 1..Len(s.list) : c = s.list[i]
<1>1. s.list \in Seq(Clients) BY ServerFields DEF Typed
<1> QED BY <1>1 DEF Connected, Contains

\* ipc_send_reply keeps everything sound, whether it sends or disconnects.
LEMMA Answers ==
  ASSUME NEW V, NEW R, NEW s, AllSound(V, R, s), NEW c \in Clients, Connected(s, c),
         NEW m \in Messages(V), m.n = 0
  PROVE  Answered(V, R, c, s, SendReply(s, c, m))
<1>1. s \in Servers(V, R) /\ NoDup(s.list) /\ Sound(s, c, 0) BY DEF AllSound
<1>2. PICK i \in 1..Len(s.list) : c = s.list[i] BY <1>1, IndexOf
<1> DEFINE r == SendReply(s, c, m)
<1> HIDE DEF r
<1>3. Replied(V, R, s, i, c, r) /\ Sound(r, c, 0)
  <2>1. 0 \in {0, 1} /\ (m.n = 0 /\ 0 = 0) OBVIOUS
  <2> QED BY <1>1, <1>2, <2>1, Replies DEF r
<1>4. Leads(V, R, c, s, r) BY <1>3, OnlyLeads DEF Replied
<1>5. Answered(V, R, c, s, r) BY <1>3, <1>4 DEF Replied, Kept, Answered
<1> QED BY <1>5 DEF r

\* Whoever is told of an event
LEMMA EventLeads ==
  ASSUME NEW V, NEW R, NEW type, NEW s, NEW r, Event(V, R, type, s, r)
  PROVE  /\ AllSound(V, R, r) /\ r.limit = s.limit /\ r.open = s.open
         /\ \A x \in Clients : Undisturbed(s, r, x)
<1>1. Told(type, s, r) /\ AllSound(V, R, r) BY DEF Event
<1>2. ASSUME NEW x \in Clients PROVE Undisturbed(s, r, x)
  <2>1. s.sub[x] = {} => SameClient(s, r, x) BY <1>1 DEF Told
  <2> QED BY <2>1, <1>1 DEF Told, Undisturbed
<1> QED BY <1>1, <1>2 DEF Told

-----------------------------------------------------------------------------
(* Connections.                                                             *)

\* c has a new connection.
Accepted(V, R, c, s, r) ==
  /\ Leads(V, R, c, s, r) /\ Connected(r, c) /\ r.open = s.open \cup {c}
  /\ r.pending[c] = None /\ r.inbox[c] = <<>> /\ r.sub[c] = {}
  /\ r.buf[c] = <<>> /\ r.net[c] = <<>> /\ r.size[c] = InitialSize

\* ipc_handle_connection keeps everything sound.
LEMMA Accepts ==
  ASSUME NEW V, NEW R, NEW s, AllSound(V, R, s), NEW c \in Clients, ~Connected(s, c),
         s.limit >= InitialSize
  PROVE  Accepted(V, R, c, s, HandleConnection(s, c))
<1> DEFINE r == HandleConnection(s, c)
<1>1. s \in Servers(V, R) /\ NoDup(s.list) /\ Sound(s, c, 0) BY DEF AllSound
<1>2. Record(s) /\ Typed(V, R, s) BY <1>1, ServerFields, SMTT(60)
<1>3. /\ r.limit = s.limit /\ r.list = Append(s.list, c) /\ r.sub = [s.sub EXCEPT ![c] = {}]
      /\ r.buf = [s.buf EXCEPT ![c] = <<>>] /\ r.size = [s.size EXCEPT ![c] = InitialSize]
      /\ r.watch = s.watch /\ r.pending = [s.pending EXCEPT ![c] = None]
      /\ r.inbox = [s.inbox EXCEPT ![c] = <<>>] /\ r.net = [s.net EXCEPT ![c] = <<>>]
      /\ r.open = s.open \cup {c} /\ r.heard = [s.heard EXCEPT ![c] = 0]
      /\ r.seen = [s.seen EXCEPT ![c] = 0]
  BY <1>2 DEF Record, HandleConnection
<1>4. Record(r)
  <2>1. r = [s EXCEPT !.list = Append(@, c), !.sub[c] = {}, !.buf[c] = <<>>, !.size[c] = InitialSize,
                    !.pending[c] = None, !.inbox[c] = <<>>, !.net[c] = <<>>,
                    !.open = @ \cup {c}, !.heard[c] = 0, !.seen[c] = 0]
    BY DEF HandleConnection
  <2> HIDE DEF r
  <2> QED BY <2>1, <1>1 DEF Servers, Record
<1> HIDE DEF r
<1>5. /\ {} \in SUBSET Kinds /\ <<>> \in Seq(UnitsOf(V)) /\ InitialSize \in Nat /\ 0 \in Nat
      /\ None \in R \cup {None} /\ <<>> \in Seq(RequestUnits(R))
  BY EmptySeq DEF InitialSize
<1>6. Typed(V, R, r)
  <2>1. r.sub \in [Clients -> SUBSET Kinds] BY <1>2, <1>3, <1>5, Update DEF Typed
  <2>2. r.buf \in [Clients -> Seq(UnitsOf(V))] BY <1>2, <1>3, <1>5, Update DEF Typed
  <2>3. r.size \in [Clients -> Nat] BY <1>2, <1>3, <1>5, Update DEF Typed
  <2>4. r.pending \in [Clients -> R \cup {None}] BY <1>2, <1>3, <1>5, Update DEF Typed
  <2>5. r.inbox \in [Clients -> Seq(RequestUnits(R))] BY <1>2, <1>3, <1>5, Update DEF Typed
  <2>6. r.net \in [Clients -> Seq(UnitsOf(V))] BY <1>2, <1>3, <1>5, Update DEF Typed
  <2>7. r.heard \in [Clients -> Nat] BY <1>2, <1>3, <1>5, Update DEF Typed
  <2>8. r.seen \in [Clients -> Nat] BY <1>2, <1>3, <1>5, Update DEF Typed
  <2>9. r.list \in Seq(Clients)
    <3>1. s.list \in Seq(Clients) BY <1>2 DEF Typed
    <3> QED BY <3>1, <1>3
  <2>10. r.open \in SUBSET Clients /\ r.limit \in Nat /\ r.watch \in SUBSET Clients BY <1>2, <1>3 DEF Typed
  <2> QED BY <2>1, <2>2, <2>3, <2>4, <2>5, <2>6, <2>7, <2>8, <2>9, <2>10 DEF Typed
<1>7. r \in Servers(V, R) BY <1>4, <1>6, ServerFields
<1>8. NoDup(r.list) /\ \A x : Connected(r, x) <=> Connected(s, x) \/ x = c
  <2> DEFINE l == s.list
             n == Len(l)
             k == Append(l, c)
  <2>1. l \in Seq(Clients) /\ n \in Nat /\ DOMAIN l = 1..n
    <3>1. s.list \in Seq(Clients) BY <1>2 DEF Typed
    <3> QED BY <3>1
  <2>2. DOMAIN k = 1..(n + 1) /\ \A j \in 1..(n + 1) : k[j] = IF j = n + 1 THEN c ELSE l[j]
    <3> HIDE DEF l
    <3> QED BY <2>1, AppendProperties
  <2>3. \A i, j \in 1..n : l[i] = l[j] => i = j BY <1>1, <2>1 DEF NoDup
  <2>4. \A j \in 1..n : l[j] # c BY <2>1 DEF Connected, Contains
  <2>5. r.list = k BY <1>3
  <2> HIDE DEF l, n, k
  <2>6. NoDup(k)
    <3>1. ASSUME NEW i \in 1..(n + 1), NEW j \in 1..(n + 1), k[i] = k[j] PROVE i = j
      <4>1. CASE i = n + 1 /\ j = n + 1 BY <4>1
      <4>2. CASE i = n + 1 /\ j # n + 1
        <5>1. j \in 1..n BY <4>2, <2>1
        <5> QED BY <5>1, <4>2, <3>1, <2>2, <2>4
      <4>3. CASE i # n + 1 /\ j = n + 1
        <5>1. i \in 1..n BY <4>3, <2>1
        <5> QED BY <5>1, <4>3, <3>1, <2>2, <2>4
      <4>4. CASE i # n + 1 /\ j # n + 1
        <5>1. i \in 1..n /\ j \in 1..n BY <4>4, <2>1
        <5> QED BY <5>1, <4>4, <3>1, <2>2, <2>3
      <4> QED BY <4>1, <4>2, <4>3, <4>4
    <3> QED BY <3>1, <2>2 DEF NoDup
  <2>7. ASSUME NEW x PROVE Contains(k, x) <=> Contains(l, x) \/ x = c
    <3>1. ASSUME NEW j \in 1..(n + 1), k[j] = x PROVE (\E i \in 1..n : l[i] = x) \/ x = c
      <4>1. CASE j = n + 1 BY <4>1, <3>1, <2>2
      <4>2. CASE j # n + 1
        <5>1. j \in 1..n BY <4>2, <2>1
        <5> QED BY <5>1, <4>2, <3>1, <2>2
      <4> QED BY <4>1, <4>2
    <3>2. ASSUME NEW j \in 1..n PROVE k[j] = l[j] /\ j \in 1..(n + 1)
      <4>1. j \in 1..(n + 1) /\ j # n + 1 BY <2>1
      <4> QED BY <4>1, <2>2
    <3>3. k[n + 1] = c /\ n + 1 \in 1..(n + 1) BY <2>1, <2>2
    <3> QED BY <3>1, <3>2, <3>3, <2>1, <2>2 DEF Contains
  <2> QED BY <2>5, <2>6, <2>7 DEF Connected, l
<1>9. OnlyOf(c, s, r) BY <1>2, <1>3, <1>8, ZenonT(60) DEF OnlyOf, SameClient, Typed
<1>10. /\ r.sub[c] = {} /\ r.buf[c] = <<>> /\ r.size[c] = InitialSize /\ r.pending[c] = None
       /\ r.inbox[c] = <<>> /\ r.net[c] = <<>> /\ r.heard[c] = 0 /\ r.seen[c] = 0
  BY <1>2, <1>3, ZenonT(60) DEF Typed
<1>11. Unread(r, c) = <<>>
  <2>1. <<>> \in Seq(UnitsOf(V)) BY EmptySeq
  <2> QED BY <1>10, <2>1, ConcatEmptySeq DEF Unread
<1>12. Sound(r, c, 0)
  <2>1. c \notin s.watch BY <1>1 DEF Sound
  <2>2. Connected(r, c) /\ Len(r.buf[c]) < r.size[c] /\ r.size[c] <= r.limit
    BY <1>3, <1>8, <1>10 DEF InitialSize
  <2>3. Stream(<<>>, 0, 0) BY StreamEmpty
  <2>4. 0 \in 0..0 /\ 0 = 0 - 0 /\ Len(<<>>) % 2 = 0 OBVIOUS
  <2> QED BY <1>3, <1>10, <1>11, <2>1, <2>2, <2>3, <2>4 DEF Sound
<1>13. Leads(V, R, c, s, r) BY <1>7, <1>8, <1>9, <1>12, OnlyLeads
<1>14. Accepted(V, R, c, s, r) BY <1>3, <1>8, <1>10, <1>13 DEF Accepted
<1> QED BY <1>14 DEF r

-----------------------------------------------------------------------------
(* Commands.                                                                *)

\* The values that the server itself sends
OwnValues == {TRUE, FALSE, "first", "sent"}

\* What is sent is a message.
LEMMA MessageType ==
  ASSUME NEW V, NEW type \in Kinds, NEW val \in V, NEW n \in Nat
  PROVE  Message(type, val, n) \in Messages(V) /\ Message(type, val, n).n = n
BY DEF Message, Messages

\* The request r of c was carried out.
Commanded(V, c, r, s, e) ==
  /\ Leads(V, Requests, c, s, e) /\ e.open = s.open
  /\ Connected(e, c) =>
       /\ e.pending[c] = s.pending[c] /\ e.inbox[c] = s.inbox[c]
       /\ r.type # "subscribe" => e.sub[c] = s.sub[c]

\* A request that only reads is answered, or its client disconnected.
LEMMA AnswerCommand ==
  ASSUME NEW V, NEW s, AllSound(V, Requests, s), NEW c \in Clients, Connected(s, c),
         NEW r \in Requests, NEW answer \in V
  PROVE  Commanded(V, c, r, s, Answer(s, c, answer))
<1> DEFINE m == Message("reply", answer, 0)
           e == SendReply(s, c, m)
<1>1. m \in Messages(V) /\ m.n = 0
  <2>1. "reply" \in Kinds /\ 0 \in Nat BY DEF Kinds, EventTypes
  <2> QED BY <2>1, MessageType
<1> HIDE DEF m
<1>2. Answered(V, Requests, c, s, e) BY <1>1, Answers
<1>3. Answer(s, c, answer) = e BY DEF Answer, m
<1> HIDE DEF e
<1> QED BY <1>2, <1>3 DEF Answered, Commanded

\* A client that sends a tick and does not listen to ticks stays connected until its
\* answer.
LEMMA TickCommand ==
  ASSUME NEW V, OwnValues \subseteq V, NEW s, AllSound(V, Requests, s), NEW c \in Clients,
         Connected(s, c), s.sub[c] = {}, NEW r \in Requests
  PROVE  Commanded(V, c, r, s, SendTick(s, c))
<1> DEFINE e == SendEvent(s, "tick", "sent")
           m == Message("reply", TRUE, 0)
           f == SendReply(e, c, m)
           Reply(x) == SendReply(x, c, m)
<1>1. SendTick(s, c) = f
  <2>1. SendTick(s, c) = Then(e, Reply) BY DEF SendTick
  <2> HIDE DEF e, m
  <2>2. Then(e, Reply) = Reply(e) BY ThenIs
  <2> QED BY <2>1, <2>2
<1>2. m \in Messages(V) /\ m.n = 0
  <2>1. "reply" \in Kinds /\ 0 \in Nat BY DEF Kinds, EventTypes
  <2>2. TRUE \in V BY DEF OwnValues
  <2> QED BY <2>1, <2>2, MessageType, Zenon
<1>3. Event(V, Requests, "tick", s, e)
  <2>1. "tick" \in Kinds BY DEF Kinds, EventTypes
  <2>2. "sent" \in V BY Zenon DEF OwnValues
  <2> QED BY <2>1, <2>2, SendsEvent
<1> HIDE DEF e, m, Reply
<1>4. /\ AllSound(V, Requests, e) /\ e.limit = s.limit /\ e.open = s.open
      /\ \A x \in Clients : Undisturbed(s, e, x)
  BY <1>3, EventLeads
<1>5. SameClient(s, e, c) BY <1>4 DEF Undisturbed
<1>6. Connected(e, c) BY <1>5 DEF SameClient
<1>7. Answered(V, Requests, c, e, f) BY <1>2, <1>4, <1>6, Answers
<1> HIDE DEF f
<1>8. Leads(V, Requests, c, s, e) BY <1>4 DEF Leads
<1>9. Leads(V, Requests, c, s, f) BY <1>7, <1>8, LeadsTwice DEF Answered
<1>10. Connected(f, c) =>
         f.pending[c] = s.pending[c] /\ f.inbox[c] = s.inbox[c] /\ f.sub[c] = s.sub[c]
  BY <1>5, <1>7 DEF Answered, SameClient
<1> QED BY <1>1, <1>4, <1>7, <1>9, <1>10 DEF Commanded, Answered

\* c is owed the event that the first tick is.
Raised(V, R, c, s, h) ==
  /\ h \in Servers(V, R) /\ OnlyOf(c, s, h) /\ Sound(h, c, 1)
  /\ h.heard[c] = s.heard[c] + 1 /\ h.list = s.list /\ h.sub = s.sub /\ h.open = s.open
  /\ h.pending = s.pending /\ h.inbox = s.inbox /\ h.buf = s.buf /\ h.size = s.size

\* Raising the first tick for c makes it due.
LEMMA RaisedFirst ==
  ASSUME NEW V, NEW R, NEW s, AllSound(V, R, s), NEW c \in Clients, Connected(s, c),
         NEW h, h = [s EXCEPT !.heard[c] = @ + 1]
  PROVE  Raised(V, R, c, s, h)
<1>1. s \in Servers(V, R) /\ NoDup(s.list) /\ Sound(s, c, 0) BY DEF AllSound
<1>2. Record(s) /\ Typed(V, R, s) BY <1>1, ServerFields
<1>3. /\ h.limit = s.limit /\ h.list = s.list /\ h.sub = s.sub /\ h.buf = s.buf
      /\ h.size = s.size /\ h.watch = s.watch /\ h.pending = s.pending /\ h.inbox = s.inbox
      /\ h.net = s.net /\ h.open = s.open /\ h.seen = s.seen
      /\ h.heard = [s.heard EXCEPT ![c] = s.heard[c] + 1]
  BY <1>2 DEF Record
<1>4. Record(h) BY <1>2 DEF Record
<1>5. s.heard[c] \in Nat /\ s.seen[c] \in Nat BY <1>2 DEF Typed
<1>6. h.heard \in [Clients -> Nat] /\ h.heard[c] = s.heard[c] + 1
      /\ \A x \in Clients \ {c} : h.heard[x] = s.heard[x]
  <2>1. s.heard \in [Clients -> Nat] /\ s.heard[c] + 1 \in Nat BY <1>2, <1>5 DEF Typed
  <2> QED BY <2>1, <1>3, Update
<1>7. Typed(V, R, h) BY <1>2, <1>3, <1>6 DEF Typed
<1>8. h \in Servers(V, R) BY <1>4, <1>7, ServerFields
<1>9. \A x : Connected(h, x) <=> Connected(s, x) BY <1>3 DEF Connected
<1>10. OnlyOf(c, s, h) BY <1>3, <1>6, <1>9 DEF OnlyOf, SameClient
<1>11. ASSUME c \in s.open
       PROVE  \E last \in h.seen[c]..h.heard[c] :
                /\ Stream(Unread(h, c), h.seen[c], last)
                /\ last = h.heard[c] - 1 /\ Len(Unread(h, c)) % 2 = 0
  <2>1. PICK last \in s.seen[c]..s.heard[c] :
          /\ Stream(Unread(s, c), s.seen[c], last)
          /\ last = s.heard[c] - 0 /\ Len(Unread(s, c)) % 2 = 0
    BY <1>1, <1>11 DEF Sound
  <2>2. last \in h.seen[c]..h.heard[c] /\ last = h.heard[c] - 1 BY <2>1, <1>3, <1>5, <1>6
  <2>3. Unread(h, c) = Unread(s, c) BY <1>3 DEF Unread
  <2> QED BY <2>1, <2>2, <2>3, <1>3
<1>12. Sound(h, c, 1) BY <1>1, <1>3, <1>9, <1>11 DEF Sound
<1> QED BY <1>3, <1>6, <1>8, <1>10, <1>12 DEF Raised

\* IPC_SUBSCRIBE: adding events changes nothing but what c listens to.
LEMMA Adds ==
  ASSUME NEW V, NEW R, NEW s, AllSound(V, R, s), NEW c \in Clients, Connected(s, c),
         NEW events \in SUBSET Kinds, NEW a, a = [s EXCEPT !.sub[c] = @ \cup events]
  PROVE  /\ Leads(V, R, c, s, a) /\ Connected(a, c) /\ a.open = s.open /\ a.pending = s.pending
         /\ a.inbox = s.inbox /\ a.buf = s.buf /\ a.size = s.size
<1>1. s \in Servers(V, R) /\ NoDup(s.list) /\ Sound(s, c, 0) BY DEF AllSound
<1>2. Record(s) /\ Typed(V, R, s) BY <1>1, ServerFields
<1>3. /\ a.limit = s.limit /\ a.list = s.list /\ a.buf = s.buf /\ a.size = s.size
      /\ a.watch = s.watch /\ a.pending = s.pending /\ a.inbox = s.inbox /\ a.net = s.net
      /\ a.open = s.open /\ a.seen = s.seen /\ a.heard = s.heard
      /\ a.sub = [s.sub EXCEPT ![c] = s.sub[c] \cup events]
  BY <1>2 DEF Record
<1>4. Record(a) BY <1>2 DEF Record
<1>5. a.sub \in [Clients -> SUBSET Kinds] /\ \A x \in Clients \ {c} : a.sub[x] = s.sub[x]
  <2>1. s.sub \in [Clients -> SUBSET Kinds] /\ s.sub[c] \cup events \in SUBSET Kinds
    BY <1>2 DEF Typed
  <2> QED BY <2>1, <1>3, Update
<1>6. Typed(V, R, a) BY <1>2, <1>3, <1>5 DEF Typed
<1>7. a \in Servers(V, R) BY <1>4, <1>6, ServerFields
<1>8. \A x : Connected(a, x) <=> Connected(s, x) BY <1>3 DEF Connected
<1>9. OnlyOf(c, s, a) BY <1>3, <1>5, <1>8 DEF OnlyOf, SameClient
<1>10. Unread(a, c) = Unread(s, c) BY <1>3 DEF Unread
<1>11. Sound(a, c, 0) BY <1>1, <1>3, <1>8, <1>10 DEF Sound
<1>12. Leads(V, R, c, s, a) BY <1>1, <1>3, <1>7, <1>9, <1>11, OnlyLeads
<1> QED BY <1>3, <1>8, <1>12

\* c has room for two messages.
Roomy(s, c) == s.buf[c] = <<>> /\ s.size[c] = InitialSize /\ s.limit >= 8

\* c was sent the first tick, or disconnected.
Ticked(V, c, a, f) ==
  /\ Leads(V, Requests, c, a, f) /\ f.open = a.open
  /\ Connected(f, c) => f.pending[c] = a.pending[c] /\ f.inbox[c] = a.inbox[c]

\* A client that has room for the answer and the first tick is not disconnected by
\* the answer.
LEMMA FirstTick ==
  ASSUME NEW V, OwnValues \subseteq V, NEW a, AllSound(V, Requests, a), NEW c \in Clients,
         Connected(a, c), Roomy(a, c), NEW e, Answered(V, Requests, c, a, e), NEW f,
         f = SendReply([e EXCEPT !.heard[c] = @ + 1], c, Message("tick", "first", e.heard[c] + 1))
  PROVE  Ticked(V, c, a, f)
<1> DEFINE h == [e EXCEPT !.heard[c] = @ + 1]
           m == Message("tick", "first", e.heard[c] + 1)
<1>0. f = SendReply(h, c, m) OBVIOUS
<1>1. Connected(e, c)
  <2>1. Len(a.buf[c]) + 2 = 2 /\ a.size[c] = 2 /\ a.limit >= 8 BY DEF Roomy, InitialSize
  <2>2. Grown(2, 2) = 2 * 2
    <3>1. 2 \in Nat /\ 2 > 0 OBVIOUS
    <3> QED BY <3>1, GrownTwice
  <2>3. a.limit \in Nat BY ServerFields DEF AllSound, Typed
  <2>4. Grown(a.size[c], Len(a.buf[c]) + 2) <= a.limit BY <2>1, <2>2, <2>3
  <2> QED BY <2>4 DEF Answered
<1>2. AllSound(V, Requests, e) BY DEF Answered, Leads
<1>3. /\ h \in Servers(V, Requests) /\ OnlyOf(c, e, h) /\ Sound(h, c, 1)
      /\ h.heard[c] = e.heard[c] + 1 /\ h.list = e.list /\ h.open = e.open
      /\ h.pending = e.pending /\ h.inbox = e.inbox
  <2>1. h = [e EXCEPT !.heard[c] = @ + 1] OBVIOUS
  <2> HIDE DEF h
  <2>2. Raised(V, Requests, c, e, h) BY <2>1, <1>1, <1>2, RaisedFirst
  <2> QED BY <2>2 DEF Raised
<1>4. e.heard[c] + 1 \in Nat
  <2>1. e \in Servers(V, Requests) BY <1>2 DEF AllSound
  <2>2. e.heard[c] \in Nat BY <2>1, ServerFields DEF Typed
  <2> QED BY <2>2
<1>5. m \in Messages(V) /\ m.n = e.heard[c] + 1
  <2>1. "tick" \in Kinds BY DEF Kinds, EventTypes
  <2>2. "first" \in V BY Zenon DEF OwnValues
  <2> QED BY <2>1, <2>2, <1>4, MessageType
<1> HIDE DEF h, m
<1>6. NoDup(h.list) /\ Connected(h, c) BY <1>1, <1>2, <1>3 DEF AllSound, Connected
<1>7. PICK i \in 1..Len(h.list) : c = h.list[i] BY <1>3, <1>6, IndexOf
<1>8. Replied(V, Requests, h, i, c, f) /\ Sound(f, c, 0)
  <2>1. 1 \in {0, 1} /\ (1 = 1 /\ m.n = h.heard[c] /\ 0 = 0) BY <1>3, <1>5
  <2>2. Replied(V, Requests, h, i, c, SendReply(h, c, m)) /\ Sound(SendReply(h, c, m), c, 0)
    BY <2>1, <1>3, <1>5, <1>6, <1>7, Replies
  <2> QED BY <2>2, <1>0
<1>9. OnlyOf(c, e, f)
  <2>1. OnlyOf(c, h, f) BY <1>8 DEF Replied
  <2> QED BY <2>1, <1>3, SameSame DEF OnlyOf
<1>10. Leads(V, Requests, c, e, f) BY <1>2, <1>8, <1>9, OnlyLeads DEF Replied
<1>11. Leads(V, Requests, c, a, f) BY <1>10, LeadsTwice DEF Answered
<1>12. f.open = a.open BY <1>3, <1>8 DEF Replied, Kept, Answered
<1>13. Connected(f, c) => f.pending[c] = a.pending[c] /\ f.inbox[c] = a.inbox[c]
  BY <1>1, <1>3, <1>8 DEF Replied, Answered
<1> QED BY <1>11, <1>12, <1>13 DEF Ticked

\* IPC_SUBSCRIBE, with the answer and the first tick if it asks for ticks
LEMMA SubscribeCommand ==
  ASSUME NEW V, OwnValues \subseteq V, NEW s, AllSound(V, Requests, s), NEW c \in Clients,
         Connected(s, c), NEW r \in Requests, r.type = "subscribe",
         r.known /\ "tick" \in r.events => Roomy(s, c)
  PROVE  Commanded(V, c, r, s, Subscribe(s, c, r))
<1> DEFINE a == [s EXCEPT !.sub[c] = @ \cup r.events]
           m(ok) == Message("reply", ok, 0)
           e == SendReply(a, c, m(TRUE))
           f == SendReply(a, c, m(FALSE))
           First(x) == IF "tick" \in r.events
                       THEN SendReply([x EXCEPT !.heard[c] = @ + 1], c, Message("tick", "first", x.heard[c] + 1))
                       ELSE x
<1>1. Subscribe(s, c, r) = IF r.known THEN Then(e, First) ELSE f BY DEF Subscribe
<1>2. /\ Leads(V, Requests, c, s, a) /\ Connected(a, c) /\ a.open = s.open
      /\ a.pending = s.pending /\ a.inbox = s.inbox /\ a.buf = s.buf /\ a.size = s.size
  <2>1. r.events \in SUBSET Kinds BY DEF Requests, Kinds
  <2> QED BY <2>1, Adds
<1> HIDE DEF a
<1>3. AllSound(V, Requests, a) /\ a.limit = s.limit BY <1>2 DEF Leads
<1>4. Answered(V, Requests, c, a, e) /\ Answered(V, Requests, c, a, f)
  <2>1. "reply" \in Kinds /\ 0 \in Nat BY DEF Kinds, EventTypes
  <2>2. m(TRUE) \in Messages(V) /\ m(TRUE).n = 0
    <3>1. TRUE \in V BY DEF OwnValues
    <3> QED BY <2>1, <3>1, MessageType, Zenon
  <2>3. m(FALSE) \in Messages(V) /\ m(FALSE).n = 0
    <3>1. FALSE \in V BY DEF OwnValues
    <3> QED BY <2>1, <3>1, MessageType, Zenon
  <2> HIDE DEF m
  <2> QED BY <2>2, <2>3, <1>2, <1>3, Answers
<1> HIDE DEF e, f
<1>5. ASSUME NEW x, Answered(V, Requests, c, a, x) PROVE Commanded(V, c, r, s, x)
  <2>1. Leads(V, Requests, c, s, x) BY <1>2, <1>5, LeadsTwice DEF Answered
  <2> QED BY <2>1, <1>2, <1>5 DEF Answered, Commanded
<1>6. CASE ~r.known BY <1>1, <1>4, <1>5, <1>6
<1>7. CASE r.known
  <2> HIDE DEF First
  <2>1. Subscribe(s, c, r) = First(e)
    <3>1. Then(e, First) = First(e) BY ThenIs
    <3> QED BY <3>1, <1>1, <1>7
  <2>2. CASE "tick" \notin r.events
    <3>1. First(e) = e BY <2>2 DEF First
    <3> QED BY <3>1, <2>1, <1>4, <1>5
  <2>3. CASE "tick" \in r.events
    <3> DEFINE g == SendReply([e EXCEPT !.heard[c] = @ + 1], c, Message("tick", "first", e.heard[c] + 1))
    <3>1. First(e) = g BY <2>3 DEF First
    <3>2. Roomy(a, c) BY <1>2, <1>3, <1>7, <2>3 DEF Roomy
    <3>0. g = SendReply([e EXCEPT !.heard[c] = @ + 1], c, Message("tick", "first", e.heard[c] + 1))
      OBVIOUS
    <3> HIDE DEF g
    <3>5. Ticked(V, c, a, g) BY <3>0, <3>2, <1>2, <1>3, <1>4, FirstTick
    <3>3. /\ Leads(V, Requests, c, a, g) /\ g.open = a.open
          /\ Connected(g, c) => g.pending[c] = a.pending[c] /\ g.inbox[c] = a.inbox[c]
      BY <3>5 DEF Ticked
    <3>4. Leads(V, Requests, c, s, g) BY <3>3, <1>2, LeadsTwice
    <3> QED BY <3>1, <3>3, <3>4, <2>1, <1>2 DEF Commanded
  <2> QED BY <2>2, <2>3
<1> QED BY <1>6, <1>7

\* c may ask for r now: it has room for what it is sent, or does not listen.
Fits(s, c, r) ==
  /\ r.type = "subscribe" /\ r.known /\ "tick" \in r.events => Roomy(s, c)
  /\ r.type = "tick" => s.sub[c] = {}

\* Every request is carried out, as long as it fits.
LEMMA Commands ==
  ASSUME NEW V, OwnValues \subseteq V, NEW s, AllSound(V, Requests, s), NEW c \in Clients,
         Connected(s, c), NEW r \in Requests, Fits(s, c, r), NEW answer \in V
  PROVE  Commanded(V, c, r, s, HandleCommand(s, c, r, answer))
<1>1. CASE r.type = "subscribe"
  <2>1. r.known /\ "tick" \in r.events => Roomy(s, c) BY <1>1 DEF Fits
  <2>2. HandleCommand(s, c, r, answer) = Subscribe(s, c, r) BY <1>1 DEF HandleCommand
  <2>3. Commanded(V, c, r, s, Subscribe(s, c, r)) BY <1>1, <2>1, SubscribeCommand
  <2> QED BY <2>2, <2>3
<1>2. CASE r.type = "tick"
  <2>1. s.sub[c] = {} BY <1>2 DEF Fits
  <2>2. HandleCommand(s, c, r, answer) = SendTick(s, c) BY <1>2 DEF HandleCommand
  <2>3. Commanded(V, c, r, s, SendTick(s, c)) BY <2>1, TickCommand
  <2> QED BY <2>2, <2>3
<1>3. CASE r.type # "subscribe" /\ r.type # "tick"
  <2>1. HandleCommand(s, c, r, answer) = Answer(s, c, answer) BY <1>3 DEF HandleCommand
  <2>2. Commanded(V, c, r, s, Answer(s, c, answer)) BY AnswerCommand
  <2> QED BY <2>1, <2>2
<1> QED BY <1>1, <1>2, <1>3

-----------------------------------------------------------------------------
(* Reading requests.                                                        *)

\* Only what c asks for changes.
AsksOf(R, c, s, q) ==
  /\ Record(q) /\ q.limit = s.limit /\ q.list = s.list /\ q.sub = s.sub /\ q.buf = s.buf
  /\ q.size = s.size /\ q.watch = s.watch /\ q.net = s.net /\ q.open = s.open
  /\ q.heard = s.heard /\ q.seen = s.seen
  /\ q.pending \in [Clients -> R \cup {None}] /\ q.inbox \in [Clients -> Seq(RequestUnits(R))]
  /\ \A x \in Clients \ {c} : q.pending[x] = s.pending[x] /\ q.inbox[x] = s.inbox[x]

\* Only clients that are connected ask.
MayAsk(s, c, q) == Connected(s, c) \/ (q.pending[c] = None /\ q.inbox[c] = <<>>)

\* A change in what c asks for leaves everything sound.
LEMMA AsksLead ==
  ASSUME NEW V, NEW R, NEW s, AllSound(V, R, s), NEW c \in Clients, NEW q, AsksOf(R, c, s, q),
         MayAsk(s, c, q)
  PROVE  Leads(V, R, c, s, q)
<1>1. s \in Servers(V, R) /\ NoDup(s.list) /\ Sound(s, c, 0) BY DEF AllSound
<1>2. Record(s) /\ Typed(V, R, s) BY <1>1, ServerFields
<1>3. Record(q) /\ Typed(V, R, q) BY <1>2 DEF AsksOf, Typed
<1>4. q \in Servers(V, R) BY <1>3, ServerFields
<1>5. \A x : Connected(q, x) <=> Connected(s, x) BY DEF AsksOf, Connected
<1>6. OnlyOf(c, s, q) BY <1>5 DEF AsksOf, OnlyOf, SameClient
<1>7. Unread(q, c) = Unread(s, c) BY DEF AsksOf, Unread
<1>8. Sound(q, c, 0) BY <1>1, <1>5, <1>7 DEF AsksOf, Sound, MayAsk
<1>9. NoDup(q.list) BY <1>1 DEF AsksOf
<1> QED BY <1>4, <1>6, <1>8, <1>9, OnlyLeads

\* The request that c waits with is p, and x comes after it.
Taken(s, c, p, x) == [s EXCEPT !.pending[c] = p, !.inbox[c] = x]
Takes(R, c, s, p, x, q) == AsksOf(R, c, s, q) /\ q.pending[c] = p /\ q.inbox[c] = x

\* Taking a request from the socket changes only what c asks for.
LEMMA TakesRequest ==
  ASSUME NEW V, NEW R, NEW s, AllSound(V, R, s), NEW c \in Clients, NEW p \in R \cup {None},
         NEW x \in Seq(RequestUnits(R))
  PROVE  Takes(R, c, s, p, x, Taken(s, c, p, x))
<1> DEFINE q == Taken(s, c, p, x)
<1>1. s \in Servers(V, R) BY DEF AllSound
<1>2. Record(s) /\ Typed(V, R, s) BY <1>1, ServerFields
<1>3. /\ q.limit = s.limit /\ q.list = s.list /\ q.sub = s.sub /\ q.buf = s.buf /\ q.size = s.size
      /\ q.watch = s.watch /\ q.net = s.net /\ q.open = s.open /\ q.heard = s.heard /\ q.seen = s.seen
      /\ q.pending = [s.pending EXCEPT ![c] = p] /\ q.inbox = [s.inbox EXCEPT ![c] = x]
  BY <1>2 DEF Record, Taken
<1>4. Record(q)
  <2>1. q = [s EXCEPT !.pending[c] = p, !.inbox[c] = x] BY DEF Taken
  <2> HIDE DEF q
  <2> QED BY <2>1, <1>1 DEF Servers, Record
<1> HIDE DEF q
<1>5. q.pending \in [Clients -> R \cup {None}] /\ q.pending[c] = p
      /\ \A y \in Clients \ {c} : q.pending[y] = s.pending[y]
  BY <1>2, <1>3, Update DEF Typed
<1>6. q.inbox \in [Clients -> Seq(RequestUnits(R))] /\ q.inbox[c] = x
      /\ \A y \in Clients \ {c} : q.inbox[y] = s.inbox[y]
  BY <1>2, <1>3, Update DEF Typed
<1>7. Takes(R, c, s, p, x, q) BY <1>3, <1>4, <1>5, <1>6 DEF AsksOf, Takes
<1> QED BY <1>7 DEF q

\* The request of c whose header was read was carried out.
Handled(V, c, e, f) ==
  /\ Leads(V, Requests, c, e, f) /\ f.open = e.open
  /\ Connected(f, c) =>
       /\ f.pending[c] = None
       /\ f.inbox[c] = IF e.pending[c].bare THEN e.inbox[c] ELSE Tail(e.inbox[c])
       /\ e.pending[c].type # "subscribe" => f.sub[c] = e.sub[c]

\* ipc_client_handle_command, with the payload of the request read
LEMMA Handles ==
  ASSUME NEW V, OwnValues \subseteq V, NEW e, AllSound(V, Requests, e), NEW c \in Clients,
         Connected(e, c), NEW r, r = e.pending[c], r \in Requests, r.bare \/ e.inbox[c] # <<>>,
         Fits(e, c, r), NEW answer \in V, NEW x,
         x = IF r.bare THEN e.inbox[c] ELSE Tail(e.inbox[c])
  PROVE  Handled(V, c, e, HandleCommand(Taken(e, c, None, x), c, r, answer))
<1> DEFINE q == Taken(e, c, None, x)
           f == HandleCommand(q, c, r, answer)
<1> HIDE DEF q, f
<1>1. x \in Seq(RequestUnits(Requests)) /\ None \in Requests \cup {None}
  <2>1. e.inbox[c] \in Seq(RequestUnits(Requests)) BY ServerFields DEF AllSound, Typed
  <2> QED BY <2>1, HeadTail
<1>2. Takes(Requests, c, e, None, x, q) BY <1>1, TakesRequest DEF q
<1>3. AsksOf(Requests, c, e, q) /\ q.pending[c] = None /\ q.inbox[c] = x BY <1>2 DEF Takes
<1>4. Leads(V, Requests, c, e, q)
  <2>1. MayAsk(e, c, q) BY DEF MayAsk
  <2> QED BY <2>1, <1>3, AsksLead
<1>5. AllSound(V, Requests, q) BY <1>4 DEF Leads
<1>6. Connected(q, c) /\ Fits(q, c, r) BY <1>3 DEF AsksOf, Connected, Fits, Roomy
<1>7. Commanded(V, c, r, q, f) BY <1>5, <1>6, Commands DEF f
<1>8. Leads(V, Requests, c, e, f) BY <1>4, <1>7, LeadsTwice DEF Commanded
<1>9. Handled(V, c, e, f) BY <1>3, <1>7, <1>8 DEF Commanded, AsksOf, Handled
<1> QED BY <1>9 DEF f, q

\* The request that the server comes to when it reads, what comes after its header,
\* and whether that is enough to carry it out
AskedNow(s, c) == IF s.pending[c] # None THEN s.pending[c] ELSE Head(s.inbox[c]).m
LeftOf(s, c) == IF s.pending[c] # None THEN s.inbox[c] ELSE Tail(s.inbox[c])
Complete(s, c) == s.pending[c] # None \/ AskedNow(s, c).bare \/ LeftOf(s, c) # <<>>

\* What reading from c leads to when a is the answer to its request
ReadWith(s, c, a) ==
  LET e == IF s.pending[c] # None THEN s ELSE Taken(s, c, AskedNow(s, c), LeftOf(s, c))
  IN  IF c \notin s.open THEN ClientDisconnect(s, c)
      ELSE IF Complete(s, c)
      THEN HandleCommand(Taken(e, c, None, IF AskedNow(s, c).bare THEN LeftOf(s, c) ELSE Tail(LeftOf(s, c))),
                         c, AskedNow(s, c), a)
      ELSE e

\* The server has read from c.
Read(V, c, s, e) ==
  /\ Leads(V, Requests, c, s, e) /\ e.open = s.open
  /\ Connected(e, c) =>
       /\ c \in s.open
       /\ Complete(s, c) =>
            /\ e.pending[c] = None
            /\ e.inbox[c] = IF AskedNow(s, c).bare THEN LeftOf(s, c) ELSE Tail(LeftOf(s, c))
            /\ AskedNow(s, c).type # "subscribe" => e.sub[c] = s.sub[c]
       /\ ~Complete(s, c) =>
            /\ e.pending[c] = AskedNow(s, c) /\ e.inbox[c] = LeftOf(s, c)
            /\ e.sub[c] = s.sub[c] /\ e.buf[c] = s.buf[c] /\ e.net[c] = s.net[c] /\ e.size[c] = s.size[c]

\* ipc_client_handle_readable keeps everything sound.
LEMMA Reads ==
  ASSUME NEW V, OwnValues \subseteq V, NEW a \in V, NEW s, AllSound(V, Requests, s),
         NEW c \in Clients, Readable(s, c), c \in s.open => Fits(s, c, AskedNow(s, c))
  PROVE  Read(V, c, s, ReadWith(s, c, a))
<1> DEFINE r == ReadWith(s, c, a)
           p == AskedNow(s, c)
           x == LeftOf(s, c)
           y == IF p.bare THEN x ELSE Tail(x)
           h == Taken(s, c, p, x)
<1>1. /\ c \notin s.open => r = ClientDisconnect(s, c)
      /\ c \in s.open /\ s.pending[c] # None => r = HandleCommand(Taken(s, c, None, y), c, p, a)
      /\ c \in s.open /\ s.pending[c] = None /\ Complete(s, c)
           => r = HandleCommand(Taken(h, c, None, y), c, p, a)
      /\ c \in s.open /\ ~Complete(s, c) => r = h /\ s.pending[c] = None
  BY DEF ReadWith, Complete
<1> HIDE DEF r
<1>5. s \in Servers(V, Requests) /\ NoDup(s.list) /\ Sound(s, c, 0) BY DEF AllSound
<1>6. Typed(V, Requests, s) BY <1>5, ServerFields
<1>7. Connected(s, c) BY DEF Readable
<1>9. CASE c \notin s.open
  <2>1. PICK i \in 1..Len(s.list) : c = s.list[i] BY <1>5, <1>7, IndexOf
  <2>2. r = ClientDisconnect(s, c) BY <1>1, <1>9
  <2>3. Disconnected(V, Requests, s, i, c, r) BY <1>5, <2>1, <2>2, Disconnects
  <2>4. Sound(r, c, 0) BY <1>5, <2>1, <2>2, DisconnectSound
  <2>5. Leads(V, Requests, c, s, r) BY <2>3, <2>4, OnlyLeads DEF Disconnected
  <2> QED BY <2>3, <2>5 DEF Disconnected, Kept, Read, r
<1>10. CASE c \in s.open /\ s.pending[c] # None
  <2>1. r = HandleCommand(Taken(s, c, None, y), c, p, a) BY <1>1, <1>10
  <2>2. s.pending[c] \in Requests BY <1>6, <1>10 DEF Typed
  <2>3. s.inbox[c] # <<>> BY <1>10 DEF Readable
  <2>4. p = s.pending[c] /\ x = s.inbox[c] /\ Complete(s, c)
    BY <1>10 DEF AskedNow, LeftOf, Complete
  <2>5. y = IF p.bare THEN s.inbox[c] ELSE Tail(s.inbox[c]) BY <2>4
  <2>6. p \in Requests /\ (p.bare \/ s.inbox[c] # <<>>) /\ Fits(s, c, p) BY <1>10, <2>2, <2>3, <2>4
  <2>7. Handled(V, c, s, r)
    <3> HIDE DEF p, x, y
    <3>1. Handled(V, c, s, HandleCommand(Taken(s, c, None, y), c, p, a))
      BY <1>7, <2>4, <2>5, <2>6, Handles
    <3> QED BY <3>1, <2>1
  <2> QED BY <1>10, <2>4, <2>7 DEF Handled, Read, r
<1>11. CASE c \in s.open /\ s.pending[c] = None
  <2>1. p = Head(s.inbox[c]).m /\ x = Tail(s.inbox[c]) BY <1>11 DEF AskedNow, LeftOf
  <2>4. s.inbox[c] \in Seq(RequestUnits(Requests)) /\ s.inbox[c] # <<>>
    BY <1>6, <1>11 DEF Typed, Readable
  <2>5. p \in Requests /\ x \in Seq(RequestUnits(Requests))
    <3>1. Head(s.inbox[c]) \in RequestUnits(Requests) /\ Tail(s.inbox[c]) \in Seq(RequestUnits(Requests))
      BY <2>4, HeadTail
    <3> QED BY <3>1, <2>1 DEF RequestUnits
  <2>6. Fits(s, c, p) BY <1>11
  <2>13. Complete(s, c) <=> (p.bare \/ x # <<>>) BY <1>11 DEF Complete
  <2> HIDE DEF p, x, h
  <2>7. AsksOf(Requests, c, s, h) /\ h.pending[c] = p /\ h.inbox[c] = x
    <3>1. p \in Requests \cup {None} BY <2>5
    <3>2. Takes(Requests, c, s, p, x, h) BY <3>1, <2>5, TakesRequest DEF h
    <3> QED BY <3>2 DEF Takes
  <2>8. Leads(V, Requests, c, s, h)
    <3>1. MayAsk(s, c, h) BY <1>7 DEF MayAsk
    <3> QED BY <3>1, <2>7, AsksLead
  <2>9. AllSound(V, Requests, h) BY <2>8 DEF Leads
  <2>10. Connected(h, c) /\ Fits(h, c, p)
    BY <2>6, <1>7, <2>7 DEF AsksOf, Connected, Fits, Roomy
  <2>11. CASE Complete(s, c)
    <3>1. r = HandleCommand(Taken(h, c, None, y), c, p, a) BY <1>1, <1>11, <2>11
    <3>2. p = h.pending[c] /\ (p.bare \/ h.inbox[c] # <<>>)
          /\ y = IF p.bare THEN h.inbox[c] ELSE Tail(h.inbox[c])
      BY <2>7, <2>11, <2>13
    <3> HIDE DEF y
    <3>3. Handled(V, c, h, r)
      <4>1. Handled(V, c, h, HandleCommand(Taken(h, c, None, y), c, p, a))
        BY <3>2, <2>5, <2>9, <2>10, Handles
      <4> QED BY <4>1, <3>1
    <3>4. Leads(V, Requests, c, s, r) BY <3>3, <2>8, LeadsTwice DEF Handled
    <3>5. r.open = s.open /\ h.sub = s.sub BY <3>3, <2>7 DEF Handled, AsksOf
    <3>6. Connected(r, c) =>
            /\ r.pending[c] = None /\ r.inbox[c] = IF p.bare THEN x ELSE Tail(x)
            /\ p.type # "subscribe" => r.sub[c] = s.sub[c]
      BY <3>3, <3>5, <2>7 DEF Handled
    <3> QED BY <3>4, <3>5, <3>6, <1>11, <2>11 DEF Read, p, x, r
  <2>12. CASE ~Complete(s, c)
    <3>1. r = h BY <1>1, <1>11, <2>12
    <3> QED BY <3>1, <1>11, <2>7, <2>8, <2>12 DEF AsksOf, Read, p, x, r
  <2> QED BY <2>11, <2>12
<1> QED BY <1>9, <1>10, <1>11

-----------------------------------------------------------------------------
(* The wire.                                                                *)

\* Only what is on the wire to c changes.
Wired(V, R, c, s, r) ==
  /\ Leads(V, R, c, s, r) /\ r.open = s.open /\ r.list = s.list /\ r.sub = s.sub
  /\ r.pending = s.pending /\ r.inbox = s.inbox

\* ipc_client_handle_writable: what was written is still unread, in the same order.
LEMMA Writes ==
  ASSUME NEW V, NEW R, NEW s, AllSound(V, R, s), NEW c \in Clients, NEW n \in Writable(s, c)
  PROVE  Wired(V, R, c, s, HandleWritable(s, c, n))
<1> DEFINE b == s.buf[c]
           a == s.net[c]
           p == SubSeq(b, 1, n)
           q == SubSeq(b, n + 1, Len(b))
           r == HandleWritable(s, c, n)
<1>1. s \in Servers(V, R) /\ NoDup(s.list) /\ Sound(s, c, 0) BY DEF AllSound
<1>2. Record(s) /\ Typed(V, R, s) BY <1>1, ServerFields
<1>3. a \in Seq(UnitsOf(V)) /\ b \in Seq(UnitsOf(V)) BY <1>2 DEF Typed
<1>4. Len(a) \in Nat /\ Len(b) \in Nat BY <1>3, LenProperties
<1>5. c \in s.watch /\ c \in s.open /\ n \in 1..Len(b)
  <2>1. c \in s.watch /\ c \in s.open /\ n \in 1..Min({Len(b), SocketRoom - Len(a)})
    BY DEF Writable
  <2> DEFINE x == Len(b)
             y == SocketRoom - Len(a)
  <2>2. x \in Int /\ y \in Int BY <1>4, RoomAssumption
  <2>3. Min({x, y}) \in Int /\ Min({x, y}) <= x
    <3> HIDE DEF x, y
    <3>1. \E z \in {x, y} : \A w \in {x, y} : z <= w BY <2>2
    <3> QED BY <3>1, <2>2 DEF Min
  <2>4. n \in 1..Min({x, y}) BY <2>1
  <2> HIDE DEF x, y
  <2>5. n \in 1..x BY <2>2, <2>3, <2>4
  <2> QED BY <2>1, <2>5 DEF x
<1>6. SplitAt(UnitsOf(V), b, n, p, q)
  <2> HIDE DEF b
  <2> QED BY <1>3, <1>5, Split
<1>7. r = [s EXCEPT !.net[c] = @ \o p, !.buf[c] = q, !.watch = IF q = <<>> THEN @ \ {c} ELSE @]
  BY DEF HandleWritable
<1> HIDE DEF p, q, r
<1>8. /\ r.limit = s.limit /\ r.list = s.list /\ r.sub = s.sub /\ r.size = s.size
      /\ r.pending = s.pending /\ r.inbox = s.inbox /\ r.open = s.open /\ r.heard = s.heard
      /\ r.seen = s.seen /\ r.watch = IF q = <<>> THEN s.watch \ {c} ELSE s.watch
      /\ r.net = [s.net EXCEPT ![c] = a \o p] /\ r.buf = [s.buf EXCEPT ![c] = q]
  BY <1>7, <1>2 DEF Record
<1>9. Record(r) BY <1>1, <1>7 DEF Servers, Record
<1> HIDE DEF a, b
<1>10. p \in Seq(UnitsOf(V)) /\ q \in Seq(UnitsOf(V)) /\ p \o q = b /\ Len(q) = Len(b) - n
  BY <1>6 DEF SplitAt
<1>11. a \o p \in Seq(UnitsOf(V)) BY <1>3, <1>10, ConcatProperties
<1>12. r.net \in [Clients -> Seq(UnitsOf(V))] /\ r.net[c] = a \o p
       /\ \A x \in Clients \ {c} : r.net[x] = s.net[x]
  BY <1>2, <1>8, <1>11, Update DEF Typed
<1>13. r.buf \in [Clients -> Seq(UnitsOf(V))] /\ r.buf[c] = q
       /\ \A x \in Clients \ {c} : r.buf[x] = s.buf[x]
  BY <1>2, <1>8, <1>10, Update DEF Typed
<1>14. Typed(V, R, r) BY <1>2, <1>8, <1>12, <1>13 DEF Typed
<1>15. r \in Servers(V, R) BY <1>9, <1>14, ServerFields
<1>16. \A x : Connected(r, x) <=> Connected(s, x) BY <1>8 DEF Connected
<1>17. OnlyOf(c, s, r) BY <1>8, <1>12, <1>13, <1>16 DEF OnlyOf, SameClient
<1>18. Unread(r, c) = Unread(s, c)
  <2>1. (a \o p) \o q = a \o (p \o q)
    <3>1. a \in Seq(UnitsOf(V)) /\ p \in Seq(UnitsOf(V)) /\ q \in Seq(UnitsOf(V)) BY <1>3, <1>10
    <3>2. Regrouped(UnitsOf(V), a, p, q) BY <3>1, Regroup
    <3> QED BY <3>2 DEF Regrouped
  <2> QED BY <2>1, <1>10, <1>12, <1>13 DEF Unread, a, b
<1>19. Sound(r, c, 0)
  <2>1. Connected(s, c) /\ Len(b) < s.size[c] /\ s.size[c] <= s.limit
    BY <1>1, <1>5 DEF Sound, b
  <2>2. Len(q) < r.size[c] /\ r.size[c] <= r.limit
    <3>1. s.size[c] \in Nat /\ s.limit \in Nat BY <1>2 DEF Typed
    <3> QED BY <3>1, <2>1, <1>4, <1>5, <1>8, <1>10
  <2>3. q # <<>> <=> c \in r.watch BY <1>5, <1>8
  <2> QED BY <2>1, <2>2, <2>3, <1>1, <1>8, <1>13, <1>16, <1>18 DEF Sound
<1>20. Leads(V, R, c, s, r) BY <1>1, <1>8, <1>15, <1>17, <1>19, OnlyLeads
<1>21. Wired(V, R, c, s, r) BY <1>8, <1>20 DEF Wired
<1> QED BY <1>21 DEF r

\* A client that reads a message comes to the events after it.
LEMMA Receives ==
  ASSUME NEW V, NEW R, NEW s, AllSound(V, R, s), NEW c \in Clients, Arrived(s, c)
  PROVE  Wired(V, R, c, s, RecvResponse(s, c))
<1> DEFINE b == s.buf[c]
           a == s.net[c]
           t == Tail(Tail(a))
           now == IF Head(a).m.n > 0 THEN Head(a).m.n ELSE s.seen[c]
           r == RecvResponse(s, c)
<1>1. s \in Servers(V, R) /\ NoDup(s.list) /\ Sound(s, c, 0) BY DEF AllSound
<1>2. Record(s) /\ Typed(V, R, s) BY <1>1, ServerFields
<1>3. a \in Seq(UnitsOf(V)) /\ b \in Seq(UnitsOf(V)) /\ s.seen[c] \in Nat /\ s.heard[c] \in Nat
  BY <1>2 DEF Typed
<1>4. Len(a) \in Nat /\ Len(b) \in Nat /\ Len(a) >= 2
  <2>1. Len(a) \in Nat /\ Len(b) \in Nat BY <1>3, LenProperties
  <2> QED BY <2>1 DEF Arrived
<1>5. Ahead(UnitsOf(V), a, b, t)
  <2> HIDE DEF a, b, t
  <2>1. Ahead(UnitsOf(V), a, b, Tail(Tail(a))) BY <1>3, <1>4, TailsConcat
  <2> QED BY <2>1 DEF t
<1>6. now \in Nat
  <2>1. Head(a) \in UnitsOf(V)
    <3>1. Len(a) # 0 BY <1>4
    <3>2. a # <<>> BY <3>1, EmptySeq
    <3> HIDE DEF a
    <3> QED BY <3>2, <1>3, HeadTail
  <2>2. Head(a).m.n \in Nat BY <2>1 DEF UnitsOf, Messages
  <2> QED BY <2>2, <1>3
<1>7. r = [s EXCEPT !.net[c] = t, !.seen[c] = now]
  BY DEF RecvResponse
<1> HIDE DEF r, t, now
<1>8. /\ r.limit = s.limit /\ r.list = s.list /\ r.sub = s.sub /\ r.size = s.size /\ r.buf = s.buf
      /\ r.pending = s.pending /\ r.inbox = s.inbox /\ r.open = s.open /\ r.heard = s.heard
      /\ r.watch = s.watch
      /\ r.net = [s.net EXCEPT ![c] = t] /\ r.seen = [s.seen EXCEPT ![c] = now]
  BY <1>7, <1>2 DEF Record
<1>9. Record(r) BY <1>1, <1>7 DEF Servers, Record
<1>10. t \in Seq(UnitsOf(V)) /\ t \o b = Tail(Tail(a \o b)) /\ (a \o b)[1] = Head(a) BY <1>5 DEF Ahead
<1>11. r.net \in [Clients -> Seq(UnitsOf(V))] /\ r.net[c] = t
       /\ \A x \in Clients \ {c} : r.net[x] = s.net[x]
  BY <1>2, <1>8, <1>10, Update DEF Typed
<1>12. r.seen \in [Clients -> Nat] /\ r.seen[c] = now
       /\ \A x \in Clients \ {c} : r.seen[x] = s.seen[x]
  BY <1>2, <1>8, <1>6, Update DEF Typed
<1>13. Typed(V, R, r) BY <1>2, <1>8, <1>11, <1>12 DEF Typed
<1>14. r \in Servers(V, R) BY <1>9, <1>13, ServerFields
<1>15. \A x : Connected(r, x) <=> Connected(s, x) BY <1>8 DEF Connected
<1>16. OnlyOf(c, s, r) BY <1>8, <1>11, <1>12, <1>15 DEF OnlyOf, SameClient
<1>17. ASSUME c \in s.open
       PROVE  \E last \in r.seen[c]..r.heard[c] :
                /\ Stream(Unread(r, c), r.seen[c], last)
                /\ Connected(r, c) => last = r.heard[c] - 0 /\ Len(Unread(r, c)) % 2 = 0
  <2> DEFINE q == a \o b
  <2>1. PICK last \in s.seen[c]..s.heard[c] :
          /\ Stream(q, s.seen[c], last)
          /\ Connected(s, c) => last = s.heard[c] - 0 /\ Len(q) % 2 = 0
    BY <1>1, <1>17 DEF Sound, Unread
  <2>2. q \in Seq(UnitsOf(V)) /\ Len(q) = Len(a) + Len(b)
    <3> HIDE DEF a, b
    <3> QED BY <1>3, ConcatProperties
  <2>3. Len(q) >= 2 /\ Len(q) \in Nat
    <3> HIDE DEF a, b, q
    <3> QED BY <2>2, <1>4
  <2>4. now = IF q[1].m.n > 0 THEN q[1].m.n ELSE s.seen[c] BY <1>10 DEF now
  <2>5. Unread(r, c) = Tail(Tail(q)) BY <1>8, <1>10, <1>11 DEF Unread
  <2>6. Len(t \o b) = Len(q) - 2
    <3>1. Len(t) = Len(a) - 2 BY <1>5 DEF Ahead
    <3>2. Len(t \o b) = Len(t) + Len(b)
      <4> HIDE DEF a, b
      <4> QED BY <1>3, <1>10, ConcatProperties
    <3> HIDE DEF a, b, q
    <3> QED BY <3>1, <3>2, <2>2, <1>4
  <2> HIDE DEF q
  <2>7. last \in Nat /\ s.seen[c] <= last /\ last <= s.heard[c] BY <2>1, <1>3
  <2>8. now \in s.seen[c]..last /\ Stream(Tail(Tail(q)), now, last)
    BY <2>1, <2>2, <2>3, <2>4, <2>7, <1>3, StreamTail
  <2>9. last \in r.seen[c]..r.heard[c] BY <2>7, <2>8, <1>3, <1>8, <1>12
  <2>10. Len(Unread(r, c)) = Len(q) - 2 BY <2>5, <2>6, <1>10 DEF q
  <2>11. Connected(r, c) => last = r.heard[c] - 0 /\ Len(Unread(r, c)) % 2 = 0
    BY <2>1, <2>3, <2>10, <1>8, <1>15
  <2> QED BY <2>5, <2>8, <2>9, <2>11, <1>12
<1>18. Sound(r, c, 0) BY <1>1, <1>8, <1>15, <1>17 DEF Sound
<1>19. Leads(V, R, c, s, r) BY <1>1, <1>8, <1>14, <1>16, <1>18, OnlyLeads
<1>20. Wired(V, R, c, s, r) BY <1>8, <1>19 DEF Wired
<1> QED BY <1>20 DEF r

\* c closed its end.
Closed(V, R, c, s, r) ==
  /\ Leads(V, R, c, s, r) /\ r.open = s.open \ {c} /\ r.list = s.list /\ r.sub = s.sub
  /\ r.pending = s.pending /\ r.inbox = s.inbox

\* A client that closes its end leaves the others alone.
LEMMA Closes ==
  ASSUME NEW V, NEW R, NEW s, AllSound(V, R, s), NEW c \in Clients
  PROVE  Closed(V, R, c, s, CloseSocket(s, c))
<1> DEFINE r == CloseSocket(s, c)
<1>1. s \in Servers(V, R) /\ NoDup(s.list) /\ Sound(s, c, 0) BY DEF AllSound
<1>2. Record(s) /\ Typed(V, R, s) BY <1>1, ServerFields
<1>3. r = [s EXCEPT !.open = @ \ {c}, !.net[c] = <<>>] BY DEF CloseSocket
<1> HIDE DEF r
<1>4. /\ r.limit = s.limit /\ r.list = s.list /\ r.sub = s.sub /\ r.size = s.size /\ r.buf = s.buf
      /\ r.pending = s.pending /\ r.inbox = s.inbox /\ r.heard = s.heard /\ r.seen = s.seen
      /\ r.watch = s.watch /\ r.open = s.open \ {c} /\ r.net = [s.net EXCEPT ![c] = <<>>]
  BY <1>3, <1>2 DEF Record
<1>5. Record(r) BY <1>1, <1>3 DEF Servers, Record
<1>6. r.net \in [Clients -> Seq(UnitsOf(V))] /\ \A x \in Clients \ {c} : r.net[x] = s.net[x]
  <2>1. <<>> \in Seq(UnitsOf(V)) BY EmptySeq
  <2> QED BY <2>1, <1>2, <1>4, Update DEF Typed
<1>7. Typed(V, R, r) BY <1>2, <1>4, <1>6 DEF Typed
<1>8. r \in Servers(V, R) BY <1>5, <1>7, ServerFields
<1>9. \A x : Connected(r, x) <=> Connected(s, x) BY <1>4 DEF Connected
<1>10. OnlyOf(c, s, r) BY <1>4, <1>6, <1>9 DEF OnlyOf, SameClient
<1>11. Sound(r, c, 0) BY <1>1, <1>4, <1>9 DEF Sound
<1>12. Leads(V, R, c, s, r) BY <1>1, <1>4, <1>8, <1>10, <1>11, OnlyLeads
<1>13. Closed(V, R, c, s, r) BY <1>4, <1>12 DEF Closed
<1> QED BY <1>13 DEF r

-----------------------------------------------------------------------------
(* Sending requests.                                                        *)

\* What c asks is among S.
AsksWithin(S, s, c) ==
  s.pending[c] \in S \cup {None} /\ s.inbox[c] \in Seq(RequestUnits(S))

\* c has written u, which the server takes if c is connected.
Sent(V, R, c, u, s, q) ==
  /\ Leads(V, R, c, s, q) /\ q.open = s.open /\ q.list = s.list /\ q.sub = s.sub /\ q.buf = s.buf
  /\ q.net = s.net /\ q.size = s.size /\ q.pending = s.pending
  /\ q.inbox[c] = IF Connected(s, c) THEN Append(s.inbox[c], u) ELSE s.inbox[c]

\* A half of a request leaves everything sound.
LEMMA SendsUnit ==
  ASSUME NEW V, NEW R, NEW s, AllSound(V, R, s), NEW c \in Clients, NEW r \in R,
         NEW part \in {"header", "payload"}
  PROVE  Sent(V, R, c, [m |-> r, part |-> part], s, SendUnit(s, c, r, part))
<1> DEFINE u == [m |-> r, part |-> part]
           x == IF Connected(s, c) THEN Append(s.inbox[c], u) ELSE s.inbox[c]
           q == SendUnit(s, c, r, part)
<1>1. s \in Servers(V, R) /\ NoDup(s.list) /\ Sound(s, c, 0) BY DEF AllSound
<1>2. Record(s) /\ Typed(V, R, s) BY <1>1, ServerFields
<1>3. u \in RequestUnits(R) BY DEF RequestUnits
<1>4. q = [s EXCEPT !.inbox[c] = x] BY DEF SendUnit
<1> HIDE DEF u
<1>5. x \in Seq(RequestUnits(R))
  <2>1. s.inbox[c] \in Seq(RequestUnits(R)) BY <1>2 DEF Typed
  <2> DEFINE y == s.inbox[c]
             T == RequestUnits(R)
  <2> HIDE DEF T
  <2>2. u \in T BY <1>3 DEF T
  <2>3. Append(y, u) \in Seq(T)
    <3>1. y \in Seq(T) BY <2>1 DEF T
    <3> HIDE DEF y
    <3> QED BY <2>2, <3>1, AppendProperties
  <2> QED BY <2>1, <2>3 DEF T
<1> HIDE DEF x, q
<1>6. /\ q.limit = s.limit /\ q.list = s.list /\ q.sub = s.sub /\ q.buf = s.buf /\ q.size = s.size
      /\ q.watch = s.watch /\ q.net = s.net /\ q.open = s.open /\ q.heard = s.heard /\ q.seen = s.seen
      /\ q.pending = s.pending /\ q.inbox = [s.inbox EXCEPT ![c] = x]
  BY <1>2, <1>4 DEF Record
<1>7. Record(q) BY <1>1, <1>4 DEF Servers, Record
<1>8. q.inbox \in [Clients -> Seq(RequestUnits(R))] /\ q.inbox[c] = x
      /\ \A y \in Clients \ {c} : q.inbox[y] = s.inbox[y]
  BY <1>2, <1>5, <1>6, Update DEF Typed
<1>9. AsksOf(R, c, s, q) BY <1>2, <1>6, <1>7, <1>8 DEF AsksOf, Typed
<1>10. MayAsk(s, c, q) BY <1>1, <1>6, <1>8 DEF Sound, MayAsk, x
<1>11. Leads(V, R, c, s, q) BY <1>9, <1>10, AsksLead
<1>12. Sent(V, R, c, u, s, q) BY <1>6, <1>8, <1>11 DEF Sent, x
<1> QED BY <1>12 DEF q, u

\* A half of a request that is among S keeps what c asks among S.
LEMMA SentWithin ==
  ASSUME NEW V, NEW R, NEW S, NEW c, NEW r \in S, NEW part \in {"header", "payload"}, NEW s, NEW q,
         Sent(V, R, c, [m |-> r, part |-> part], s, q), AsksWithin(S, s, c)
  PROVE  AsksWithin(S, q, c)
<1> DEFINE u == [m |-> r, part |-> part]
           y == s.inbox[c]
           T == RequestUnits(S)
<1>1. u \in T BY DEF RequestUnits
<1>2. y \in Seq(T) BY DEF AsksWithin
<1>3. q.inbox[c] = (IF Connected(s, c) THEN Append(y, u) ELSE y) /\ q.pending = s.pending BY DEF Sent
<1>4. q.inbox[c] \in Seq(T)
  <2> HIDE DEF u, y, T
  <2>1. Append(y, u) \in Seq(T) BY <1>1, <1>2, AppendProperties
  <2> QED BY <2>1, <1>2, <1>3
<1> QED BY <1>3, <1>4 DEF AsksWithin

\* c has sent the request r.
Requested(V, R, c, r, s, q) ==
  /\ Leads(V, R, c, s, q) /\ q.open = s.open /\ q.list = s.list /\ q.sub = s.sub
  /\ \A S : r \in S /\ AsksWithin(S, s, c) => AsksWithin(S, q, c)

\* ipc_single_command: a whole request, or its header when it is bare
LEMMA SendsRequest ==
  ASSUME NEW V, NEW R, NEW s, AllSound(V, R, s), NEW c \in Clients, NEW r \in R
  PROVE  Requested(V, R, c, r, s, SendRequest(s, c, r))
<1> DEFINE h == SendUnit(s, c, r, "header")
           Payload(e) == SendUnit(e, c, r, "payload")
           p == SendUnit(h, c, r, "payload")
           q == SendRequest(s, c, r)
<1>1. q = IF r.bare THEN h ELSE p
  <2>1. q = IF r.bare THEN h ELSE Then(h, Payload) BY DEF SendRequest
  <2>2. Then(h, Payload) = Payload(h)
    <3> HIDE DEF h, Payload
    <3> QED BY ThenIs
  <2>3. Payload(h) = p OBVIOUS
  <2> HIDE DEF h, Payload, p, q
  <2> QED BY <2>1, <2>2, <2>3
<1>2. Sent(V, R, c, [m |-> r, part |-> "header"], s, h) BY SendsUnit
<1> HIDE DEF h
<1>3. AllSound(V, R, h) BY <1>2 DEF Sent, Leads
<1>4. Sent(V, R, c, [m |-> r, part |-> "payload"], h, p) BY <1>3, SendsUnit
<1> HIDE DEF p, q
<1>5. Leads(V, R, c, s, h) /\ Leads(V, R, c, s, p) BY <1>2, <1>4, LeadsTwice DEF Sent
<1>6. ASSUME NEW S, r \in S, AsksWithin(S, s, c) PROVE AsksWithin(S, h, c) /\ AsksWithin(S, p, c)
  <2>1. AsksWithin(S, h, c) BY <1>2, <1>6, SentWithin
  <2>2. AsksWithin(S, p, c) BY <1>4, <1>6, <2>1, SentWithin
  <2> QED BY <2>1, <2>2
<1>7. Requested(V, R, c, r, s, h) BY <1>2, <1>5, <1>6 DEF Sent, Requested
<1>8. Requested(V, R, c, r, s, p) BY <1>2, <1>4, <1>5, <1>6 DEF Sent, Requested
<1> QED BY <1>1, <1>7, <1>8 DEF q

\* What the server has read is among what c asked.
LEMMA ReadWithin ==
  ASSUME NEW V, NEW S, NEW c, NEW s, NEW e, Read(V, c, s, e), Connected(e, c),
         AsksWithin(S, s, c), Readable(s, c)
  PROVE  AsksWithin(S, e, c) /\ AskedNow(s, c) \in S
<1>1. c \in s.open /\ s.inbox[c] # <<>> /\ s.inbox[c] \in Seq(RequestUnits(S))
  BY DEF Read, Readable, AsksWithin
<1>2. Head(s.inbox[c]) \in RequestUnits(S) /\ Tail(s.inbox[c]) \in Seq(RequestUnits(S))
  BY <1>1, HeadTail
<1>3. AskedNow(s, c) \in S
  <2>1. CASE s.pending[c] # None BY <2>1 DEF AsksWithin, AskedNow
  <2>2. CASE s.pending[c] = None BY <2>2, <1>2 DEF AskedNow, RequestUnits
  <2> QED BY <2>1, <2>2
<1>4. LeftOf(s, c) \in Seq(RequestUnits(S)) BY <1>1, <1>2 DEF LeftOf
<1>5. CASE Complete(s, c)
  <2>1. e.pending[c] = None
        /\ e.inbox[c] = IF AskedNow(s, c).bare THEN LeftOf(s, c) ELSE Tail(LeftOf(s, c))
    BY <1>5 DEF Read
  <2>2. ~AskedNow(s, c).bare => LeftOf(s, c) # <<>>
    <3>1. s.pending[c] # None => LeftOf(s, c) # <<>> BY <1>1 DEF LeftOf
    <3> QED BY <3>1, <1>5 DEF Complete
  <2>3. LeftOf(s, c) # <<>> => Tail(LeftOf(s, c)) \in Seq(RequestUnits(S)) BY <1>4, HeadTail
  <2>4. e.inbox[c] \in Seq(RequestUnits(S)) BY <1>4, <2>1, <2>2, <2>3
  <2> QED BY <1>3, <2>1, <2>4 DEF AsksWithin
<1>6. CASE ~Complete(s, c)
  <2>1. e.pending[c] = AskedNow(s, c) /\ e.inbox[c] = LeftOf(s, c) BY <1>6 DEF Read
  <2> QED BY <2>1, <1>3, <1>4 DEF AsksWithin
<1> QED BY <1>5, <1>6

=============================================================================
