---------------------------- MODULE Swaybar_proofs ----------------------------
(***************************************************************************)
(* The streams of the IPC server are sound whatever the bar, the           *)
(* compositor and the other clients do.                                    *)
(***************************************************************************)
EXTENDS Swaybar, IpcHandlers_proofs

\* What c asks for in the scene sc
PeerAsk(sc, c) ==
  IF c \in sc.listeners THEN Request("subscribe", sc.events, TRUE, FALSE)
  ELSE Request("tick", {}, TRUE, FALSE)

AskOf(sc, c) ==
  IF c = Ctl THEN {Asks.config, Asks.workspaces, Asks.scroller}
  ELSE IF c = Evt THEN {Asks.subscribe}
  ELSE {PeerAsk(sc, c)}

\* Who only ticks or only reads does not listen.
AsksSound(sc, s, c) ==
  /\ AsksWithin(AskOf(sc, c), s, c)
  /\ c \notin sc.listeners \cup {Evt} => s.sub[c] = {}

\* A listener asks once.  Until the server has read it all, nothing was sent.
Quiet(s, c) == s.pending[c] = None /\ s.inbox[c] = <<>>

Untouched(s, c) ==
  s.sub[c] = {} /\ s.buf[c] = <<>> /\ s.net[c] = <<>> /\ s.size[c] = InitialSize

HeaderUnit(r) == [m |-> r, part |-> "header"]
PayloadUnit(r) == [m |-> r, part |-> "payload"]

HeaderSent(s, c, r) ==
  \/ s.pending[c] = None /\ s.inbox[c] = <<HeaderUnit(r)>>
  \/ s.pending[c] = r /\ s.inbox[c] = <<>>

AllSent(s, c, r) ==
  \/ s.pending[c] = None /\ s.inbox[c] = <<HeaderUnit(r), PayloadUnit(r)>>
  \/ s.pending[c] = r /\ s.inbox[c] = <<PayloadUnit(r)>>

Phase(s, c, pc, r) ==
  /\ pc \in {"in", "payload", "waiting", "listening"}
  /\ pc = "in" => Untouched(s, c) /\ Quiet(s, c)
  /\ pc = "payload" => Untouched(s, c) /\ HeaderSent(s, c, r)
  /\ pc = "waiting" => Quiet(s, c) \/ (Untouched(s, c) /\ AllSent(s, c, r))
  /\ pc = "listening" => Quiet(s, c)

AsksOnce(sc, s, p, c) ==
  c \in sc.listeners /\ c \in s.open /\ Connected(s, c) => Phase(s, c, p[c], PeerAsk(sc, c))

\* All that holds of the scene, the server and the clients
Good(sc, s, p) ==
  /\ sc \in Scenes /\ s.limit = sc.limit /\ p = [c \in Peers |-> p[c]]
  /\ \E V : AllSound(V, Requests, s)
  /\ \A c \in Clients : AsksSound(sc, s, c)
  /\ \A c \in Peers : AsksOnce(sc, s, p, c)

IInv == Good(scene, ipc, peer)

\* What the clients of a scene ask for are requests, and only peers that listen ask for ticks.
LEMMA AskTypes ==
  ASSUME NEW sc \in Scenes, NEW c
  PROVE  /\ AskOf(sc, c) \subseteq Requests
         /\ \A r \in AskOf(sc, c) :
              /\ r.type = "tick" => c \notin {Ctl, Evt} /\ c \notin sc.listeners
              /\ r.type = "subscribe" => c \in sc.listeners \cup {Evt}
              /\ r.type = "subscribe" /\ "tick" \in r.events =>
                   c \notin {Ctl, Evt} /\ c \in sc.listeners /\ sc.limit >= 8
<1>1. sc.events \in SUBSET EventTypes /\ ("tick" \in sc.events => sc.limit >= 8)
  BY ScenesAssumption DEF InitialSize
<1>2. CASE c = Ctl
  BY <1>2, ClientsAssumption DEF AskOf, Asks, Request, Requests
<1>3. CASE c = Evt
  <2> DEFINE e == {"config", "state", "mode", "workspace", "scroller"}
             r == Request("subscribe", e, TRUE, FALSE)
  <2>1. AskOf(sc, c) = {r} BY <1>3, ClientsAssumption DEF AskOf, Asks
  <2>2. e \in SUBSET EventTypes /\ "tick" \notin e BY DEF EventTypes
  <2> HIDE DEF e
  <2>3. r.type = "subscribe" /\ r.events = e BY DEF Request
  <2>4. r \in Requests BY <2>2 DEF Request, Requests
  <2> HIDE DEF r
  <2> QED BY <2>1, <2>2, <2>3, <2>4, <1>3
<1>4. CASE c # Ctl /\ c # Evt
  BY <1>1, <1>4 DEF AskOf, PeerAsk, Request, Requests
<1> QED BY <1>2, <1>3, <1>4

-----------------------------------------------------------------------------
(* Whoever does not act keeps what holds of it.                             *)

\* What another client does keeps what x asks for.
LEMMA AsksStay ==
  ASSUME NEW sc, NEW s, NEW r, NEW x, Undisturbed(s, r, x), Sound(r, x, 0), AsksSound(sc, s, x)
  PROVE  AsksSound(sc, r, x)
<1>1. CASE Connected(r, x) BY <1>1 DEF Undisturbed, AsksSound, AsksWithin
<1>2. CASE ~Connected(r, x)
  <2>1. r.pending[x] = None /\ r.inbox[x] = <<>> /\ r.sub[x] = {} BY <1>2 DEF Sound
  <2>2. <<>> \in Seq(RequestUnits(AskOf(sc, x))) BY EmptySeq
  <2> QED BY <2>1, <2>2 DEF AsksSound, AsksWithin
<1> QED BY <1>1, <1>2

\* What another client does keeps how far a listener has come.
LEMMA OnceStays ==
  ASSUME NEW sc, NEW s, NEW r, NEW p, NEW q, NEW x, q[x] = p[x], Undisturbed(s, r, x),
         AsksOnce(sc, s, p, x)
  PROVE  AsksOnce(sc, r, q, x)
<1> SUFFICES ASSUME x \in sc.listeners, x \in r.open, Connected(r, x)
             PROVE  Phase(r, x, q[x], PeerAsk(sc, x))
  BY DEF AsksOnce
<1>1. Phase(s, x, p[x], PeerAsk(sc, x)) BY DEF AsksOnce, Undisturbed
<1>2. Quiet(s, x) => Quiet(r, x) BY DEF Undisturbed, Quiet
<1>3. Untouched(s, x) => Untouched(r, x) BY DEF Undisturbed, Untouched, SameClient
<1>4. /\ HeaderSent(s, x, PeerAsk(sc, x)) => HeaderSent(r, x, PeerAsk(sc, x))
      /\ AllSent(s, x, PeerAsk(sc, x)) => AllSent(r, x, PeerAsk(sc, x))
  BY DEF Undisturbed, HeaderSent, AllSent
<1> QED BY <1>1, <1>2, <1>3, <1>4 DEF Phase

\* The clients that go from p to q while c acts
OnlyPeer(c, p, q) == q = [x \in Peers |-> q[x]] /\ \A x \in Peers \ {c} : q[x] = p[x]

\* When c keeps what is asked of it, everything holds again.
LEMMA Led ==
  ASSUME NEW sc, NEW s, NEW p, Good(sc, s, p), NEW c \in Clients, NEW V, NEW r,
         Leads(V, Requests, c, s, r), AsksSound(sc, r, c), NEW q, OnlyPeer(c, p, q),
         c \in Peers => AsksOnce(sc, r, q, c)
  PROVE  Good(sc, r, q)
<1>1. AllSound(V, Requests, r) /\ r.limit = s.limit BY DEF Leads
<1>2. ASSUME NEW x \in Clients PROVE AsksSound(sc, r, x)
  <2>1. CASE x = c BY <2>1
  <2>2. CASE x # c
    <3>1. Undisturbed(s, r, x) /\ AsksSound(sc, s, x) /\ Sound(r, x, 0)
      BY <2>2, <1>1 DEF Leads, Good, AllSound
    <3> QED BY <3>1, AsksStay
  <2> QED BY <2>1, <2>2
<1>3. ASSUME NEW x \in Peers PROVE AsksOnce(sc, r, q, x)
  <2>1. CASE x = c BY <2>1
  <2>2. CASE x # c
    <3>1. Undisturbed(s, r, x) /\ AsksOnce(sc, s, p, x) /\ q[x] = p[x]
      BY <2>2 DEF Leads, Good, OnlyPeer, Peers
    <3> QED BY <3>1, OnceStays
  <2> QED BY <2>1, <2>2
<1> QED BY <1>1, <1>2, <1>3 DEF Good, OnlyPeer

\* The clients of a good state may stay as they are.
LEMMA SamePeers ==
  ASSUME NEW sc, NEW s, NEW p, Good(sc, s, p), NEW c PROVE OnlyPeer(c, p, p)
BY DEF Good, OnlyPeer

-----------------------------------------------------------------------------
(* The server's handlers.                                                   *)

\* What c asks for fits.
LEMMA AsksFit ==
  ASSUME NEW sc, NEW s, NEW p, Good(sc, s, p), NEW c \in Clients, Readable(s, c), c \in s.open
  PROVE  AskedNow(s, c) \in AskOf(sc, c) /\ Fits(s, c, AskedNow(s, c))
<1> DEFINE S == AskOf(sc, c)
           r == AskedNow(s, c)
<1>1. AsksWithin(S, s, c) /\ (c \notin sc.listeners \cup {Evt} => s.sub[c] = {})
  BY DEF Good, AsksSound
<1>2. s.inbox[c] # <<>> /\ s.inbox[c] \in Seq(RequestUnits(S)) /\ Connected(s, c)
  BY <1>1 DEF Readable, AsksWithin
<1>3. r \in S
  <2>1. CASE s.pending[c] # None BY <2>1, <1>1 DEF AsksWithin, AskedNow
  <2>2. CASE s.pending[c] = None
    <3>1. Head(s.inbox[c]) \in RequestUnits(S) BY <1>2, HeadTail
    <3> QED BY <3>1, <2>2 DEF AskedNow, RequestUnits
  <2> QED BY <2>1, <2>2
<1> HIDE DEF r
<1>4. sc \in Scenes /\ s.limit = sc.limit BY DEF Good
<1>5. /\ r.type = "tick" => c \notin {Ctl, Evt} /\ c \notin sc.listeners
      /\ r.type = "subscribe" /\ "tick" \in r.events =>
           c \notin {Ctl, Evt} /\ c \in sc.listeners /\ sc.limit >= 8
  BY <1>3, <1>4, AskTypes
<1>6. r.type = "tick" => s.sub[c] = {} BY <1>1, <1>5
<1>7. ASSUME r.type = "subscribe", "tick" \in r.events PROVE Roomy(s, c)
  <2>1. c \in Peers /\ c \in sc.listeners /\ s.limit >= 8 BY <1>4, <1>5, <1>7 DEF Peers
  <2>2. Phase(s, c, p[c], PeerAsk(sc, c)) BY <2>1, <1>2 DEF Good, AsksOnce
  <2>3. ~Quiet(s, c) BY <1>2 DEF Quiet
  <2>4. Untouched(s, c) BY <2>2, <2>3 DEF Phase
  <2> QED BY <2>1, <2>4 DEF Untouched, Roomy
<1>8. Fits(s, c, r) BY <1>6, <1>7 DEF Fits
<1> QED BY <1>3, <1>8 DEF r

\* Once the server has read from it, a listener has asked for a half or for all.
LEMMA ReadOnce ==
  ASSUME NEW sc \in Scenes, NEW s, NEW p, NEW c \in Peers, AsksOnce(sc, s, p, c), NEW V, NEW e,
         Read(V, c, s, e), Readable(s, c)
  PROVE  AsksOnce(sc, e, p, c)
<1> SUFFICES ASSUME c \in sc.listeners, c \in e.open, Connected(e, c)
             PROVE  Phase(e, c, p[c], PeerAsk(sc, c))
  BY DEF AsksOnce
<1> DEFINE r == PeerAsk(sc, c)
           h == HeaderUnit(r)
           u == PayloadUnit(r)
<1>1. c \in s.open /\ Connected(s, c) /\ s.inbox[c] # <<>> BY DEF Read, Readable
<1>2. Phase(s, c, p[c], r) BY <1>1 DEF AsksOnce
<1>3. r.bare = FALSE /\ r # None
  <2>1. r = Request("subscribe", sc.events, TRUE, FALSE) BY DEF PeerAsk
  <2>2. r \in AskOf(sc, c) BY DEF AskOf, Peers
  <2>3. r \in Requests BY <2>2, AskTypes
  <2> HIDE DEF r
  <2>4. r # None BY <2>3, NoneAssumption
  <2>5. r.bare = FALSE BY <2>1 DEF Request
  <2> QED BY <2>4, <2>5
<1>4. h.m = r /\ u.m = r BY DEF HeaderUnit, PayloadUnit
<1> HIDE DEF h, u, r
<1>5. ~Quiet(s, c) BY <1>1 DEF Quiet
<1>6. CASE p[c] = "payload"
  <2>1. Untouched(s, c) /\ s.pending[c] = None /\ s.inbox[c] = <<h>>
    BY <1>1, <1>2, <1>6 DEF Phase, HeaderSent, h
  <2>2. Head(<<h>>) = h /\ Tail(<<h>>) = <<>> OBVIOUS
  <2>3. AskedNow(s, c) = r /\ LeftOf(s, c) = <<>> BY <2>1, <2>2, <1>4 DEF AskedNow, LeftOf
  <2>4. ~Complete(s, c) BY <2>1, <2>3, <1>3 DEF Complete
  <2>5. /\ e.pending[c] = r /\ e.inbox[c] = <<>>
        /\ e.sub[c] = s.sub[c] /\ e.buf[c] = s.buf[c] /\ e.net[c] = s.net[c] /\ e.size[c] = s.size[c]
    BY <2>3, <2>4 DEF Read
  <2>6. Untouched(e, c) /\ HeaderSent(e, c, r) BY <2>1, <2>5 DEF Untouched, HeaderSent
  <2> QED BY <2>6, <1>6 DEF Phase, r
<1>7. CASE p[c] = "waiting"
  <2>1. AllSent(s, c, r) BY <1>2, <1>5, <1>7 DEF Phase
  <2>2. Head(<<h, u>>) = h /\ Tail(<<h, u>>) = <<u>> /\ Tail(<<u>>) = <<>> /\ <<u>> # <<>> OBVIOUS
  <2>3. AskedNow(s, c) = r /\ LeftOf(s, c) = <<u>>
    BY <2>1, <2>2, <1>3, <1>4 DEF AllSent, AskedNow, LeftOf, h, u
  <2>4. Complete(s, c) BY <2>2, <2>3 DEF Complete
  <2>5. Quiet(e, c) BY <2>2, <2>3, <2>4, <1>3 DEF Read, Quiet
  <2> QED BY <2>5, <1>7 DEF Phase, r
<1> QED BY <1>2, <1>5, <1>6, <1>7 DEF Phase

\* What reading leads to, with the compositor's answer
LEMMA ReadsAnswer ==
  ASSUME NEW V, NEW s, AllSound(V, Requests, s), NEW c \in Clients
  PROVE  HandleReadable(s, c, Answering) = ReadWith(s, c, Answering(AskedNow(s, c)))
<1> DEFINE Handle(e) ==
             LET r == e.pending[c]
                 Command(f) == HandleCommand(f, c, r, Answering(r))
             IN  Then([e EXCEPT !.pending[c] = None, !.inbox[c] = IF r.bare THEN @ ELSE Tail(@)], Command)
           Header(e) == IF e.pending[c].bare \/ e.inbox[c] # <<>> THEN Handle(e) ELSE e
           p == AskedNow(s, c)
           x == LeftOf(s, c)
           h == [s EXCEPT !.pending[c] = Head(s.inbox[c]).m, !.inbox[c] = Tail(@)]
           r == HandleReadable(s, c, Answering)
           Rest(e) == IF e.pending[c].bare THEN e.inbox[c] ELSE Tail(e.inbox[c])
<1>1. r = IF c \notin s.open THEN ClientDisconnect(s, c)
          ELSE IF s.pending[c] # None THEN Handle(s) ELSE Then(h, Header)
  BY DEF HandleReadable
<1>2. Then(h, Header) = Header(h)
  <2> HIDE DEF h, Header
  <2> QED BY ThenIs
<1>3. ASSUME NEW e
      PROVE  Handle(e) = HandleCommand(Taken(e, c, None, Rest(e)), c, e.pending[c], Answering(e.pending[c]))
  <2> DEFINE q == [e EXCEPT !.pending[c] = None, !.inbox[c] = IF e.pending[c].bare THEN @ ELSE Tail(@)]
             Command(f) == HandleCommand(f, c, e.pending[c], Answering(e.pending[c]))
  <2>1. Handle(e) = Then(q, Command) OBVIOUS
  <2>2. q = Taken(e, c, None, Rest(e)) BY DEF Taken
  <2>3. Then(q, Command) = Command(q)
    <3> HIDE DEF q, Command
    <3> QED BY ThenIs
  <2>4. Command(q) = HandleCommand(q, c, e.pending[c], Answering(e.pending[c])) OBVIOUS
  <2> HIDE DEF q, Handle, Command
  <2> QED BY <2>1, <2>2, <2>3, <2>4
<1> HIDE DEF Handle, h, r
<1>4. CASE c \notin s.open BY <1>1, <1>4 DEF ReadWith, r
<1>5. CASE c \in s.open /\ s.pending[c] # None
  <2>1. r = Handle(s) BY <1>1, <1>5
  <2>2. s.pending[c] = p /\ s.inbox[c] = x /\ Complete(s, c) BY <1>5 DEF AskedNow, LeftOf, Complete
  <2>3. ReadWith(s, c, Answering(p)) = HandleCommand(Taken(s, c, None, Rest(s)), c, p, Answering(p))
    BY <1>5, <2>2 DEF ReadWith
  <2> HIDE DEF p, x, Rest
  <2> QED BY <1>3, <2>1, <2>2, <2>3 DEF r, p
<1>6. CASE c \in s.open /\ s.pending[c] = None
  <2>1. r = Header(h) BY <1>1, <1>2, <1>6
  <2>2. p = Head(s.inbox[c]).m /\ x = Tail(s.inbox[c]) BY <1>6 DEF AskedNow, LeftOf
  <2>3. h = Taken(s, c, p, x) BY <2>2 DEF Taken, h
  <2> HIDE DEF p, x
  <2>4. h.pending[c] = p /\ h.inbox[c] = x
    <3>1. s \in Servers(V, Requests) BY DEF AllSound
    <3> QED BY <3>1, <2>3 DEF Servers, Taken
  <2>5. Complete(s, c) <=> (p.bare \/ x # <<>>) BY <1>6 DEF Complete, p, x
  <2>6. CASE Complete(s, c)
    <3>1. r = Handle(h) BY <2>1, <2>4, <2>5, <2>6
    <3>2. Handle(h) = HandleCommand(Taken(h, c, None, Rest(h)), c, p, Answering(p)) BY <1>3, <2>4
    <3>3. Rest(h) = IF p.bare THEN x ELSE Tail(x) BY <2>4
    <3>4. ReadWith(s, c, Answering(p))
            = HandleCommand(Taken(h, c, None, IF p.bare THEN x ELSE Tail(x)), c, p, Answering(p))
      BY <1>6, <2>3, <2>6 DEF ReadWith, p, x
    <3> HIDE DEF Rest, Header
    <3> QED BY <3>1, <3>2, <3>3, <3>4 DEF r, p
  <2>7. CASE ~Complete(s, c)
    <3>1. r = h BY <2>1, <2>4, <2>5, <2>7
    <3>2. ReadWith(s, c, Answering(p)) = h BY <1>6, <2>3, <2>7 DEF ReadWith, p, x
    <3> QED BY <3>1, <3>2 DEF r, p
  <2> QED BY <2>6, <2>7
<1> QED BY <1>4, <1>5, <1>6

\* ServerReads keeps the invariant.
LEMMA GoodReads ==
  ASSUME NEW sc, NEW s, NEW p, Good(sc, s, p), NEW c \in Clients, Readable(s, c), NEW a
  PROVE  Good(sc, ReadWith(s, c, a), p)
<1> DEFINE e == ReadWith(s, c, a)
<1>1. PICK V : OwnValues \subseteq V /\ AllSound(V, Requests, s) /\ a \in V
  <2>1. PICK W : AllSound(W, Requests, s) BY DEF Good
  <2> DEFINE V == W \cup OwnValues \cup {a}
  <2>2. W \subseteq V OBVIOUS
  <2>3. OwnValues \subseteq V /\ a \in V OBVIOUS
  <2> HIDE DEF V
  <2>4. AllSound(V, Requests, s) BY <2>1, <2>2, MoreValues
  <2> QED BY <2>3, <2>4
<1>2. c \in s.open => Fits(s, c, AskedNow(s, c)) BY AsksFit
<1>3. Read(V, c, s, e) BY <1>1, <1>2, Reads
<1> HIDE DEF e
<1>4. Leads(V, Requests, c, s, e) BY <1>3 DEF Read
<1>5. AsksSound(sc, s, c) /\ sc \in Scenes BY DEF Good
<1>6. AsksSound(sc, e, c)
  <2>1. CASE Connected(e, c)
    <3>1. AsksWithin(AskOf(sc, c), e, c) /\ AskedNow(s, c) \in AskOf(sc, c)
      BY <2>1, <1>3, <1>5, ReadWithin DEF AsksSound
    <3>2. AskedNow(s, c).type = "subscribe" => c \in sc.listeners \cup {Evt} BY <3>1, <1>5, AskTypes
    <3>3. c \notin sc.listeners \cup {Evt} => e.sub[c] = s.sub[c] BY <2>1, <3>2, <1>3 DEF Read
    <3> QED BY <3>1, <3>3, <1>5 DEF AsksSound
  <2>2. CASE ~Connected(e, c)
    <3>1. Sound(e, c, 0) BY <1>4 DEF Leads, AllSound
    <3>2. e.pending[c] = None /\ e.inbox[c] = <<>> /\ e.sub[c] = {} BY <2>2, <3>1 DEF Sound
    <3>3. <<>> \in Seq(RequestUnits(AskOf(sc, c))) BY EmptySeq
    <3> QED BY <3>2, <3>3 DEF AsksSound, AsksWithin
  <2> QED BY <2>1, <2>2
<1>7. c \in Peers => AsksOnce(sc, e, p, c)
  <2>1. c \in Peers => AsksOnce(sc, s, p, c) BY DEF Good
  <2> QED BY <2>1, <1>3, <1>5, ReadOnce
<1>8. OnlyPeer(c, p, p) BY SamePeers
<1>9. Good(sc, e, p) BY <1>4, <1>6, <1>7, <1>8, Led
<1> QED BY <1>9 DEF e

\* What is on the wire to c does not change what c asks.
LEMMA WireLed ==
  ASSUME NEW sc, NEW s, NEW p, Good(sc, s, p), NEW c \in Clients, NEW V, NEW r,
         Wired(V, Requests, c, s, r), NEW q, OnlyPeer(c, p, q),
         c \in Peers => AsksOnce(sc, r, q, c)
  PROVE  Good(sc, r, q)
<1>1. AsksSound(sc, s, c) BY DEF Good
<1>2. AsksSound(sc, r, c) BY <1>1 DEF Wired, AsksSound, AsksWithin
<1>3. Leads(V, Requests, c, s, r) BY DEF Wired
<1> QED BY <1>2, <1>3, Led

\* The bytes that the server writes to a listener come after all that it asks.
LEMMA GoodWrites ==
  ASSUME NEW sc, NEW s, NEW p, Good(sc, s, p), NEW c \in Clients, NEW n \in Writable(s, c)
  PROVE  Good(sc, HandleWritable(s, c, n), p)
<1> DEFINE r == HandleWritable(s, c, n)
<1>1. PICK V : AllSound(V, Requests, s) BY DEF Good
<1>2. Wired(V, Requests, c, s, r) BY <1>1, Writes
<1>3. s.buf[c] # <<>>
  <2>1. c \in s.watch BY DEF Writable
  <2>2. Sound(s, c, 0) BY <1>1 DEF AllSound
  <2> QED BY <2>1, <2>2 DEF Sound
<1> HIDE DEF r
<1>4. c \in Peers => AsksOnce(sc, r, p, c)
  <2> SUFFICES ASSUME c \in Peers, c \in sc.listeners, c \in r.open, Connected(r, c)
               PROVE  Phase(r, c, p[c], PeerAsk(sc, c))
    BY DEF AsksOnce
  <2>1. c \in s.open /\ Connected(s, c) BY <1>2 DEF Wired, Connected
  <2>2. Phase(s, c, p[c], PeerAsk(sc, c)) BY <2>1 DEF Good, AsksOnce
  <2>3. ~Untouched(s, c) BY <1>3 DEF Untouched
  <2>4. Quiet(s, c) => Quiet(r, c) BY <1>2 DEF Quiet, Wired
  <2> QED BY <2>2, <2>3, <2>4 DEF Phase
<1>5. OnlyPeer(c, p, p) BY SamePeers
<1> QED BY <1>2, <1>4, <1>5, WireLed DEF r

\* A client reads an answer or an event.
LEMMA GoodReceives ==
  ASSUME NEW sc, NEW s, NEW p, Good(sc, s, p), NEW c \in Clients, Arrived(s, c),
         NEW q, OnlyPeer(c, p, q),
         c \in Peers /\ c \in sc.listeners => p[c] \in {"waiting", "listening"} /\ q[c] = "listening"
  PROVE  Good(sc, RecvResponse(s, c), q)
<1> DEFINE r == RecvResponse(s, c)
<1>1. PICK V : AllSound(V, Requests, s) BY DEF Good
<1>2. Wired(V, Requests, c, s, r) BY <1>1, Receives
<1>3. s.net[c] # <<>>
  <2>1. Len(<<>>) = 0 OBVIOUS
  <2> QED BY <2>1 DEF Arrived
<1> HIDE DEF r
<1>4. c \in Peers => AsksOnce(sc, r, q, c)
  <2> SUFFICES ASSUME c \in Peers, c \in sc.listeners, c \in r.open, Connected(r, c)
               PROVE  Phase(r, c, q[c], PeerAsk(sc, c))
    BY DEF AsksOnce
  <2>1. c \in s.open /\ Connected(s, c) BY <1>2 DEF Wired, Connected
  <2>2. Phase(s, c, p[c], PeerAsk(sc, c)) BY <2>1 DEF Good, AsksOnce
  <2>3. ~Untouched(s, c) BY <1>3 DEF Untouched
  <2>4. Quiet(s, c) BY <2>2, <2>3 DEF Phase
  <2>5. Quiet(r, c) BY <2>4, <1>2 DEF Quiet, Wired
  <2> QED BY <2>5 DEF Phase
<1> QED BY <1>2, <1>4, WireLed DEF r

-----------------------------------------------------------------------------
(* What the bar and the clients do on their sockets.                        *)

\* A new connection has asked for nothing, and no other client comes with it.
LEMMA GoodConnects ==
  ASSUME NEW sc, NEW s, NEW p, Good(sc, s, p), NEW c \in Clients, ~Connected(s, c),
         NEW q, OnlyPeer(c, p, q), c \in Peers => q[c] = "in"
  PROVE  /\ Good(sc, HandleConnection(s, c), q)
         /\ \A x \in Clients \ {c} : Connected(HandleConnection(s, c), x) => Connected(s, x)
<1> DEFINE r == HandleConnection(s, c)
<1>1. PICK V : AllSound(V, Requests, s) BY DEF Good
<1>2. Accepted(V, Requests, c, s, r)
  <2>1. s.limit >= InitialSize BY ScenesAssumption DEF Good
  <2> QED BY <1>1, <2>1, Accepts
<1> HIDE DEF r
<1>3. AsksSound(sc, r, c)
  <2>1. <<>> \in Seq(RequestUnits(AskOf(sc, c))) BY EmptySeq
  <2> QED BY <2>1, <1>2 DEF Accepted, AsksSound, AsksWithin
<1>4. c \in Peers => AsksOnce(sc, r, q, c)
  BY <1>2 DEF AsksOnce, Phase, Untouched, Quiet, Accepted
<1>5. Leads(V, Requests, c, s, r) BY <1>2 DEF Accepted
<1>6. Good(sc, r, q) BY <1>3, <1>4, <1>5, Led
<1>7. \A x \in Clients \ {c} : Connected(r, x) => Connected(s, x) BY <1>5 DEF Leads, Undisturbed
<1> QED BY <1>6, <1>7 DEF r

\* A client closes its end.
LEMMA GoodCloses ==
  ASSUME NEW sc, NEW s, NEW p, Good(sc, s, p), NEW c \in Clients, NEW q, OnlyPeer(c, p, q)
  PROVE  Good(sc, CloseSocket(s, c), q)
<1> DEFINE r == CloseSocket(s, c)
<1>1. PICK V : AllSound(V, Requests, s) BY DEF Good
<1>2. Closed(V, Requests, c, s, r) BY <1>1, Closes
<1> HIDE DEF r
<1>3. AsksSound(sc, s, c) BY DEF Good
<1>4. AsksSound(sc, r, c) BY <1>2, <1>3 DEF Closed, AsksSound, AsksWithin
<1>5. AsksOnce(sc, r, q, c) BY <1>2 DEF Closed, AsksOnce
<1>6. Leads(V, Requests, c, s, r) BY <1>2 DEF Closed
<1> QED BY <1>4, <1>5, <1>6, Led DEF r

\* The bar asks, on the socket that it asks such things on.
LEMMA GoodAsks ==
  ASSUME NEW sc, NEW s, NEW p, Good(sc, s, p), NEW c \in {Ctl, Evt}, NEW r \in AskOf(sc, c)
  PROVE  Good(sc, SendRequest(s, c, r), p)
<1> DEFINE e == SendRequest(s, c, r)
<1>1. PICK V : AllSound(V, Requests, s) BY DEF Good
<1>2. c \in Clients /\ c \notin Peers BY ClientsAssumption DEF Peers
<1>3. r \in Requests /\ sc \in Scenes BY AskTypes DEF Good
<1>4. Requested(V, Requests, c, r, s, e) BY <1>1, <1>2, <1>3, SendsRequest
<1> HIDE DEF e
<1>5. AsksSound(sc, s, c) BY <1>2 DEF Good
<1>6. AsksSound(sc, e, c) BY <1>4, <1>5 DEF Requested, AsksSound
<1>7. Leads(V, Requests, c, s, e) BY <1>4 DEF Requested
<1>8. OnlyPeer(c, p, p) BY SamePeers
<1> QED BY <1>2, <1>6, <1>7, <1>8, Led DEF e

\* A client writes a half of what it asks.
LEMMA GoodUnit ==
  ASSUME NEW sc, NEW s, NEW p, Good(sc, s, p), NEW c \in Peers,
         NEW part \in {"header", "payload"}, NEW q, OnlyPeer(c, p, q),
         p[c] = (IF part = "header" THEN "in" ELSE "payload"),
         q[c] = (IF part = "header" THEN "payload" ELSE "waiting")
  PROVE  Good(sc, SendUnit(s, c, PeerAsk(sc, c), part), q)
<1> DEFINE r == PeerAsk(sc, c)
           e == SendUnit(s, c, r, part)
           u == [m |-> r, part |-> part]
<1>1. PICK V : AllSound(V, Requests, s) BY DEF Good
<1>2. c \in Clients /\ r \in AskOf(sc, c) BY DEF Peers, AskOf
<1>3. r \in Requests BY <1>2, AskTypes DEF Good
<1> HIDE DEF r
<1>4. Sent(V, Requests, c, u, s, e) BY <1>1, <1>2, <1>3, SendsUnit
<1> HIDE DEF e
<1>5. AsksSound(sc, s, c) BY <1>2 DEF Good
<1>6. AsksSound(sc, e, c)
  <2>1. AsksWithin(AskOf(sc, c), e, c) BY <1>2, <1>4, <1>5, SentWithin DEF AsksSound
  <2> QED BY <2>1, <1>4, <1>5 DEF Sent, AsksSound
<1>7. AsksOnce(sc, e, q, c)
  <2> SUFFICES ASSUME c \in sc.listeners, c \in e.open, Connected(e, c)
               PROVE  Phase(e, c, q[c], r)
    BY DEF AsksOnce, r
  <2>1. c \in s.open /\ Connected(s, c) BY <1>4 DEF Sent, Connected
  <2>2. Phase(s, c, p[c], r) BY <2>1 DEF Good, AsksOnce, r
  <2>3. Untouched(s, c) => Untouched(e, c) BY <1>4 DEF Untouched, Sent
  <2>4. e.pending[c] = s.pending[c] /\ e.inbox[c] = Append(s.inbox[c], u) BY <2>1, <1>4 DEF Sent
  <2> HIDE DEF u
  <2>5. CASE part = "header"
    <3>1. Untouched(s, c) /\ s.pending[c] = None /\ s.inbox[c] = <<>> BY <2>2, <2>5 DEF Phase, Quiet
    <3>2. Append(<<>>, u) = <<u>> OBVIOUS
    <3>3. u = HeaderUnit(r) BY <2>5 DEF HeaderUnit, u
    <3>4. HeaderSent(e, c, r) BY <3>1, <3>2, <3>3, <2>4 DEF HeaderSent
    <3> QED BY <3>1, <3>4, <2>3, <2>5 DEF Phase
  <2>6. CASE part = "payload"
    <3>1. Untouched(s, c) /\ HeaderSent(s, c, r) BY <2>2, <2>6 DEF Phase
    <3>2. u = PayloadUnit(r) BY <2>6 DEF PayloadUnit, u
    <3> DEFINE h == HeaderUnit(r)
    <3> HIDE DEF h
    <3>3. Append(<<h>>, u) = <<h, u>> /\ Append(<<>>, u) = <<u>>
      <4>1. Append(<<>>, u) = <<u>> OBVIOUS
      <4>2. <<h>> \in Seq({h, u}) /\ <<h, u>> \in Seq({h, u}) /\ u \in {h, u} OBVIOUS
      <4>3. Len(<<h>>) = 1 /\ <<h>>[1] = h /\ Len(<<h, u>>) = 2 OBVIOUS
      <4>4. /\ Append(<<h>>, u) \in Seq({h, u}) /\ Len(Append(<<h>>, u)) = 2
            /\ Append(<<h>>, u)[1] = h /\ Append(<<h>>, u)[2] = u
        BY <4>2, <4>3, AppendProperties
      <4> DEFINE x == Append(<<h>>, u)
      <4>5. x \in Seq({h, u}) /\ Len(x) = 2 /\ x[1] = h /\ x[2] = u BY <4>4
      <4> HIDE DEF x
      <4>6. x = <<h, u>> BY <4>5
      <4> QED BY <4>1, <4>6 DEF x
    <3>4. AllSent(e, c, r) BY <3>1, <3>2, <3>3, <2>4 DEF HeaderSent, AllSent, h
    <3> QED BY <3>1, <3>4, <2>3, <2>6 DEF Phase
  <2> QED BY <2>5, <2>6
<1>8. Leads(V, Requests, c, s, e) BY <1>4 DEF Sent
<1> QED BY <1>2, <1>6, <1>7, <1>8, Led DEF e, r

-----------------------------------------------------------------------------
(* The compositor tells everybody.                                          *)

\* An event to everybody keeps the invariant.
LEMMA GoodEvent ==
  ASSUME NEW sc, NEW s, NEW p, Good(sc, s, p), NEW type \in Kinds, NEW val
  PROVE  Good(sc, SendEvent(s, type, val), p)
<1> DEFINE r == SendEvent(s, type, val)
<1>1. PICK V : val \in V /\ AllSound(V, Requests, s)
  <2>1. PICK W : AllSound(W, Requests, s) BY DEF Good
  <2> DEFINE V == W \cup {val}
  <2>2. W \subseteq V /\ val \in V OBVIOUS
  <2> HIDE DEF V
  <2>3. AllSound(V, Requests, s) BY <2>1, <2>2, MoreValues
  <2> QED BY <2>2, <2>3
<1>2. Event(V, Requests, type, s, r) BY <1>1, SendsEvent
<1> HIDE DEF r
<1>3. AllSound(V, Requests, r) /\ r.limit = s.limit /\ \A x \in Clients : Undisturbed(s, r, x)
  BY <1>2, EventLeads
<1>4. ASSUME NEW x \in Clients PROVE AsksSound(sc, r, x)
  <2>1. Undisturbed(s, r, x) /\ Sound(r, x, 0) /\ AsksSound(sc, s, x)
    BY <1>3 DEF AllSound, Good
  <2> QED BY <2>1, AsksStay
<1>5. ASSUME NEW x \in Peers PROVE AsksOnce(sc, r, p, x)
  <2>1. Undisturbed(s, r, x) /\ AsksOnce(sc, s, p, x) BY <1>3 DEF Good, Peers
  <2> QED BY <2>1, OnceStays
<1> QED BY <1>3, <1>4, <1>5 DEF Good, r

-----------------------------------------------------------------------------
(* The invariant.                                                           *)

\* A server that nobody has connected to yet
LEMMA StartsSound ==
  ASSUME NEW limit \in Nat, NEW R PROVE AllSound({}, R, NoServer(limit))
<1> DEFINE s == NoServer(limit)
<1>1. /\ s.limit = limit /\ s.list = <<>> /\ s.watch = {} /\ s.open = {}
      /\ s.sub = [c \in Clients |-> {}] /\ s.buf = [c \in Clients |-> <<>>]
      /\ s.size = [c \in Clients |-> 0] /\ s.pending = [c \in Clients |-> None]
      /\ s.inbox = [c \in Clients |-> <<>>] /\ s.net = [c \in Clients |-> <<>>]
      /\ s.heard = [c \in Clients |-> 0] /\ s.seen = [c \in Clients |-> 0]
  BY DEF NoServer
<1>2. Record(s) BY DEF NoServer, Record
<1> HIDE DEF s
<1>3. <<>> \in Seq(UnitsOf({})) /\ <<>> \in Seq(RequestUnits(R)) /\ <<>> \in Seq(Clients)
  BY EmptySeq
<1>4. Typed({}, R, s)
  <2>1. s.buf \in [Clients -> Seq(UnitsOf({}))] /\ s.net \in [Clients -> Seq(UnitsOf({}))]
    BY <1>1, <1>3
  <2>2. s.inbox \in [Clients -> Seq(RequestUnits(R))] BY <1>1, <1>3
  <2>3. s.sub \in [Clients -> SUBSET Kinds] /\ s.pending \in [Clients -> R \cup {None}] BY <1>1
  <2>4. /\ s.size \in [Clients -> Nat] /\ s.heard \in [Clients -> Nat] /\ s.seen \in [Clients -> Nat]
        /\ s.limit \in Nat /\ s.watch \in SUBSET Clients /\ s.open \in SUBSET Clients
        /\ s.list \in Seq(Clients)
    BY <1>1, <1>3
  <2> QED BY <2>1, <2>2, <2>3, <2>4 DEF Typed
<1>5. s \in Servers({}, R) BY <1>2, <1>4, ServerFields
<1>6. NoDup(s.list) BY <1>1 DEF NoDup
<1>7. ASSUME NEW c \in Clients PROVE Sound(s, c, 0)
  <2>1. ~Connected(s, c) BY <1>1 DEF Connected, Contains
  <2> QED BY <2>1, <1>1 DEF Sound
<1> QED BY <1>5, <1>6, <1>7 DEF AllSound, s

\* The invariant holds at first.
LEMMA StartsGood == Init => IInv
<1> SUFFICES ASSUME Init PROVE Good(scene, ipc, peer) BY DEF IInv
<1>1. scene \in Scenes /\ ipc = NoServer(scene.limit) /\ scene.limit \in Nat
  BY ScenesAssumption DEF Init
<1>2. ipc.limit = scene.limit /\ ipc.open = {} BY <1>1 DEF NoServer
<1>3. AllSound({}, Requests, ipc) BY <1>1, StartsSound
<1>4. ASSUME NEW c \in Clients PROVE AsksSound(scene, ipc, c)
  <2>1. ipc.pending[c] = None /\ ipc.inbox[c] = <<>> /\ ipc.sub[c] = {} BY <1>1 DEF NoServer
  <2>2. <<>> \in Seq(RequestUnits(AskOf(scene, c))) BY EmptySeq
  <2> QED BY <2>1, <2>2 DEF AsksSound, AsksWithin
<1>5. \A c \in Peers : AsksOnce(scene, ipc, peer, c) BY <1>2 DEF AsksOnce
<1>6. peer = [c \in Peers |-> peer[c]] BY DEF Init
<1> QED BY <1>1, <1>2, <1>3, <1>4, <1>5, <1>6 DEF Good

\* One step per action
LEMMA StaysGood == IInv /\ [Next]_vars => IInv'
<1> SUFFICES ASSUME Good(scene, ipc, peer), [Next]_vars PROVE Good(scene, ipc, peer)'
  BY DEF IInv
<1>1. ASSUME UNCHANGED <<ipc, peer, scene>> PROVE Good(scene, ipc, peer)'
  BY <1>1
<1>2. ASSUME NEW type \in Kinds, NEW val, Tell(type, val), UNCHANGED <<peer, scene>>
      PROVE  Good(scene, ipc, peer)'
  BY <1>2, GoodEvent DEF Tell
<1> USE DEF Kinds, EventTypes
<1>3. ASSUME NEW o, NEW v, WorkspaceChanges(o, v) PROVE Good(scene, ipc, peer)'
  BY <1>2, <1>3 DEF WorkspaceChanges
<1>4. ASSUME NEW v, ScrollerChanges(v) PROVE Good(scene, ipc, peer)'
  BY <1>2, <1>4 DEF ScrollerChanges
<1>5. ASSUME NEW m, ModeChanges(m) PROVE Good(scene, ipc, peer)'
  BY <1>2, <1>5 DEF ModeChanges
<1>6. ASSUME NEW cfg, NEW named, ConfigChanges(cfg, named) PROVE Good(scene, ipc, peer)'
  BY <1>1, <1>2, <1>6 DEF ConfigChanges
<1>7. ASSUME NEW mode, NEW named, BarSetMode(mode, named) PROVE Good(scene, ipc, peer)'
  BY <1>6, <1>7 DEF BarSetMode
<1>8. ASSUME NEW hidden, NEW named, BarSetHiddenState(hidden, named) PROVE Good(scene, ipc, peer)'
  BY <1>6, <1>8 DEF BarSetHiddenState
<1>9. ASSUME NEW o, BarSetOutput(o) PROVE Good(scene, ipc, peer)'
  BY <1>6, <1>9 DEF BarSetOutput
<1>10. ASSUME Modifier PROVE Good(scene, ipc, peer)'
  BY <1>1, <1>2, <1>10 DEF Modifier
<1>11. ASSUME Reload PROVE Good(scene, ipc, peer)'
  <2> DEFINE s == SendEvent(ipc, "workspace", None)
             Op(r) == SendEvent(r, "config", scene.cfg)
  <2>1. ipc' = Then(s, Op) /\ peer' = peer /\ scene' = scene BY <1>11 DEF Reload
  <2>2. Good(scene, s, peer) BY GoodEvent
  <2> HIDE DEF s
  <2>3. ipc' = Op(s)
    <3> HIDE DEF Op
    <3> QED BY <2>1, ThenIs, Zenon
  <2>4. Good(scene, Op(s), peer) BY <2>2, GoodEvent
  <2> QED BY <2>1, <2>3, <2>4
<1>12. ASSUME NEW o, OutputPlugged(o) PROVE Good(scene, ipc, peer)'
  BY <1>1, <1>12 DEF OutputPlugged
<1>13. ASSUME NEW o, OutputUnplugged(o) PROVE Good(scene, ipc, peer)'
  BY <1>1, <1>13 DEF OutputUnplugged
<1>14. ASSUME NEW c \in Clients, ServerReads(c) PROVE Good(scene, ipc, peer)'
  <2>1. Readable(ipc, c) /\ ipc' = HandleReadable(ipc, c, Answering) /\ peer' = peer /\ scene' = scene
    BY <1>14 DEF ServerReads
  <2>2. PICK V : AllSound(V, Requests, ipc) BY DEF Good
  <2>3. ipc' = ReadWith(ipc, c, Answering(AskedNow(ipc, c))) BY <2>1, <2>2, ReadsAnswer
  <2> QED BY <2>1, <2>3, GoodReads
<1>15. ASSUME NEW c \in Clients, ServerWrites(c) PROVE Good(scene, ipc, peer)'
  BY <1>15, GoodWrites DEF ServerWrites
<1>16. ASSUME LaunchBar PROVE Good(scene, ipc, peer)'
  <2> DEFINE r == HandleConnection(ipc, Ctl)
             s == HandleConnection(r, Evt)
             Op(e) == SendRequest(e, Ctl, Asks.config)
  <2>1. ipc' = Then(s, Op) /\ peer' = peer /\ scene' = scene BY <1>16 DEF LaunchBar
  <2>2. /\ ~Connected(ipc, Ctl) /\ ~Connected(ipc, Evt)
        /\ Ctl \in Clients \ {Evt} /\ Evt \in Clients \ {Ctl} /\ Ctl \notin Peers /\ Evt \notin Peers
    BY <1>16, ClientsAssumption DEF LaunchBar, Vacant, Peers
  <2>3. OnlyPeer(Ctl, peer, peer) /\ OnlyPeer(Evt, peer, peer) BY SamePeers
  <2>4. Good(scene, r, peer) /\ ~Connected(r, Evt) BY <2>2, <2>3, GoodConnects
  <2> HIDE DEF r
  <2>5. Good(scene, s, peer) BY <2>2, <2>3, <2>4, GoodConnects
  <2> HIDE DEF s
  <2>6. ipc' = Op(s)
    <3> HIDE DEF Op
    <3> QED BY <2>1, ThenIs, Zenon
  <2>7. Asks.config \in AskOf(scene, Ctl) BY DEF AskOf
  <2>8. Good(scene, Op(s), peer) BY <2>5, <2>7, GoodAsks
  <2> QED BY <2>1, <2>6, <2>8
<1>17. ASSUME NEW c \in {Ctl, Evt}, Arrived(ipc, c) PROVE Good(scene, RecvResponse(ipc, c), peer)
  <2>1. c \in Clients /\ c \notin Peers BY ClientsAssumption DEF Peers
  <2>2. OnlyPeer(c, peer, peer) BY SamePeers
  <2> QED BY <1>17, <2>1, <2>2, GoodReceives
<1>18. ASSUME NEW s, Good(scene, s, peer)
       PROVE  /\ Good(scene, SendRequest(s, Evt, Asks.subscribe), peer)
              /\ Good(scene, SendRequest(s, Ctl, Asks.workspaces), peer)
              /\ Good(scene, SendRequest(s, Ctl, Asks.scroller), peer)
  <2>1. /\ Asks.subscribe \in AskOf(scene, Evt) /\ Asks.workspaces \in AskOf(scene, Ctl)
        /\ Asks.scroller \in AskOf(scene, Ctl)
    BY ClientsAssumption DEF AskOf
  <2> QED BY <1>18, <2>1, GoodAsks
<1> USE DEF BarReceives, BarStep
<1>19. ASSUME BarConfigured PROVE Good(scene, ipc, peer)'
  BY <1>17, <1>18, <1>19 DEF BarConfigured
<1>20. ASSUME BarSubscribed PROVE Good(scene, ipc, peer)'
  BY <1>17, <1>18, <1>20, Zenon DEF BarSubscribed
<1>21. ASSUME BarGotWorkspaces PROVE Good(scene, ipc, peer)'
  BY <1>17, <1>18, <1>21 DEF BarGotWorkspaces
<1>22. ASSUME BarGotScroller PROVE Good(scene, ipc, peer)'
  BY <1>17, <1>22 DEF BarGotScroller
<1>23. ASSUME BarRefreshed PROVE Good(scene, ipc, peer)'
  BY <1>17, <1>23 DEF BarRefreshed
<1>24. ASSUME BarHears PROVE Good(scene, ipc, peer)'
  <2> DEFINE m == Head(ipc.net[Evt]).m
             read == RecvResponse(ipc, Evt)
             question == IF m.type = "scroller" THEN "scroller" ELSE "workspaces"
             Op(s) == SendRequest(s, Ctl, Asks[question])
  <2>1. peer' = peer /\ scene' = scene /\ Arrived(ipc, Evt) BY <1>24, SMTT(60) DEF BarHears
  <2>2. ipc' = Then(read, Op) \/ ipc' = read BY <1>24 DEF BarHears
  <2>3. Good(scene, read, peer) BY <2>1, <1>17
  <2>4. Asks[question] = Asks.scroller \/ Asks[question] = Asks.workspaces BY DEF Asks
  <2> HIDE DEF read, question
  <2>5. Then(read, Op) = Op(read)
    <3> HIDE DEF Op
    <3> QED BY ThenIs, Zenon
  <2>6. Good(scene, Op(read), peer) BY <2>3, <2>4, <1>18
  <2> QED BY <2>1, <2>2, <2>3, <2>5, <2>6, SMTT(60)
<1>25. ASSUME NEW o, BarOutputAppears(o) PROVE Good(scene, ipc, peer)'
  BY <1>1, <1>18, <1>25 DEF BarOutputAppears
<1>26. ASSUME NEW o, BarOutputGone(o) \/ BarConfigure(o) \/ BarFrame(o) PROVE Good(scene, ipc, peer)'
  BY <1>1, <1>26 DEF BarOutputGone, BarConfigure, BarFrame
<1>27. ASSUME BarEnds PROVE Good(scene, ipc, peer)'
  <2> DEFINE r == CloseSocket(ipc, Ctl)
             s == CloseSocket(r, Evt)
  <2>1. ipc' = s /\ peer' = peer /\ scene' = scene BY <1>27 DEF BarEnds
  <2>2. OnlyPeer(Ctl, peer, peer) /\ OnlyPeer(Evt, peer, peer) BY SamePeers
  <2>3. Good(scene, r, peer) BY <2>2, ClientsAssumption, GoodCloses
  <2> HIDE DEF r
  <2>4. Good(scene, s, peer) BY <2>2, <2>3, ClientsAssumption, GoodCloses
  <2> QED BY <2>1, <2>4
<1>28. ASSUME NEW c \in Peers, NEW pc, peer' = [peer EXCEPT ![c] = pc]
       PROVE  OnlyPeer(c, peer, peer') /\ peer'[c] = pc /\ c \in Clients
  <2>1. peer = [x \in Peers |-> peer[x]] BY DEF Good
  <2>2. c \in Clients BY DEF Peers
  <2> HIDE DEF Peers
  <2> QED BY <1>28, <2>1, <2>2 DEF OnlyPeer
<1>29. ASSUME NEW c \in Peers, PeerConnects(c) PROVE Good(scene, ipc, peer)'
  <2>1. /\ ~Connected(ipc, c) /\ ipc' = HandleConnection(ipc, c)
        /\ peer' = [peer EXCEPT ![c] = "in"] /\ scene' = scene
    BY <1>29 DEF PeerConnects, Vacant
  <2>2. OnlyPeer(c, peer, peer') /\ peer'[c] = "in" /\ c \in Clients BY <2>1, <1>28
  <2> QED BY <2>1, <2>2, GoodConnects
<1>30. \A c : PeerRequest(c) = PeerAsk(scene, c) BY DEF PeerRequest, PeerAsk
<1>31. ASSUME NEW c \in Peers, PeerSendsHeader(c) PROVE Good(scene, ipc, peer)'
  <2>1. /\ ipc' = SendUnit(ipc, c, PeerAsk(scene, c), "header") /\ peer[c] = "in"
        /\ peer' = [peer EXCEPT ![c] = "payload"] /\ scene' = scene
    BY <1>30, <1>31 DEF PeerSendsHeader, PeerStep
  <2>2. OnlyPeer(c, peer, peer') /\ peer'[c] = "payload" BY <2>1, <1>28
  <2> QED BY <2>1, <2>2, GoodUnit
<1>32. ASSUME NEW c \in Peers, PeerSendsPayload(c) PROVE Good(scene, ipc, peer)'
  <2>1. /\ ipc' = SendUnit(ipc, c, PeerAsk(scene, c), "payload") /\ peer[c] = "payload"
        /\ peer' = [peer EXCEPT ![c] = "waiting"] /\ scene' = scene
    BY <1>30, <1>32 DEF PeerSendsPayload, PeerStep
  <2>2. OnlyPeer(c, peer, peer') /\ peer'[c] = "waiting" BY <2>1, <1>28
  <2> QED BY <2>1, <2>2, GoodUnit
<1>33. ASSUME NEW c \in Peers, PeerReceives(c) PROVE Good(scene, ipc, peer)'
  <2> DEFINE pc == IF c \in scene.listeners THEN "listening" ELSE "done"
  <2>1. /\ peer[c] \in {"waiting", "listening"} /\ Arrived(ipc, c) /\ ipc' = RecvResponse(ipc, c)
        /\ peer' = [peer EXCEPT ![c] = pc] /\ scene' = scene
    BY <1>33 DEF PeerReceives, PeerStep
  <2>2. OnlyPeer(c, peer, peer') /\ peer'[c] = pc /\ c \in Clients BY <2>1, <1>28
  <2> QED BY <2>1, <2>2, GoodReceives
<1>34. ASSUME NEW c \in Peers, PeerCloses(c) \/ PeerAborts(c) PROVE Good(scene, ipc, peer)'
  <2>1. ipc' = CloseSocket(ipc, c) /\ peer' = [peer EXCEPT ![c] = "out"] /\ scene' = scene
    BY <1>34 DEF PeerCloses, PeerAborts, PeerStep
  <2>2. OnlyPeer(c, peer, peer') /\ c \in Clients BY <2>1, <1>28
  <2> QED BY <2>1, <2>2, GoodCloses
<1>35. ASSUME Compositor PROVE Good(scene, ipc, peer)'
  BY <1>35, <1>3, <1>4, <1>5, <1>7, <1>8, <1>9, <1>10, <1>11, <1>12, <1>13 DEF Compositor
<1>36. ASSUME BarWorks PROVE Good(scene, ipc, peer)'
  BY <1>36, <1>16, <1>19, <1>20, <1>21, <1>22, <1>23, <1>24, <1>25, <1>26, <1>27 DEF BarWorks
<1>37. ASSUME Work PROVE Good(scene, ipc, peer)'
  BY <1>37, <1>14, <1>15, <1>31, <1>32, <1>33, <1>34, <1>36 DEF Work, PeerWorks
<1>38. ASSUME UNCHANGED vars PROVE Good(scene, ipc, peer)'
  BY <1>1, <1>38 DEF vars
<1> QED BY <1>29, <1>34, <1>35, <1>37, <1>38 DEF Next

\* The invariant implies that the streams are sound.
LEMMA GoodStreams == IInv => StreamsSound
<1> SUFFICES ASSUME Good(scene, ipc, peer) PROVE StreamsSound BY DEF IInv
<1>1. PICK V : AllSound(V, Requests, ipc) BY DEF Good
<1>2. \A c \in Clients : Sound(ipc, c, 0) BY <1>1 DEF AllSound
<1>3. Typed(V, Requests, ipc) BY <1>1, ServerFields DEF AllSound
<1>4. Watched(ipc)
  <2>1. ASSUME NEW c \in ToSet(ipc.list)
        PROVE  Len(ipc.buf[c]) < ipc.size[c] /\ ipc.size[c] <= ipc.limit
    <3>1. ipc.list \in Seq(Clients) BY <1>3 DEF Typed
    <3>2. Connected(ipc, c) /\ c \in Clients BY <3>1 DEF ToSet, Connected, Contains
    <3> QED BY <3>2, <1>2 DEF Sound
  <2> QED BY <2>1, <1>2 DEF Watched, Sound
<1>5. ASSUME NEW c \in ipc.open PROVE Whole(Unread(ipc, c)) /\ InOrder(ipc, c)
  <2>1. c \in Clients /\ ipc.heard[c] \in Nat BY <1>3 DEF Typed
  <2>2. PICK last \in ipc.seen[c]..ipc.heard[c] :
          /\ Stream(Unread(ipc, c), ipc.seen[c], last)
          /\ Connected(ipc, c) => last = ipc.heard[c] - 0
    BY <2>1, <1>2 DEF Sound
  <2> QED BY <2>1, <2>2 DEF Stream, InOrder
<1> QED BY <1>4, <1>5 DEF StreamsSound

\* Whatever the bar, the compositor and the other clients do, in whatever order their
\* requests, answers and events are sent, written and read, every client reads whole
\* messages in order and misses none of its events (ipc-server.c).
THEOREM StreamsCorrect == Spec => []StreamsSound
<1>1. Init => IInv BY StartsGood
<1>2. IInv /\ [Next]_vars => IInv' BY StaysGood
<1>3. IInv => StreamsSound BY GoodStreams
<1> QED BY <1>1, <1>2, <1>3, PTL DEF Spec

=============================================================================
