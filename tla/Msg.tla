---------------------------------- MODULE Msg ----------------------------------
(***************************************************************************)
(* The messages of flom: how a struct flom_msg_s becomes bytes and a       *)
(* struct again (flom_msg.c), how the receiver finds the end of a message  *)
(* in a stream (flom_tcp_recv_msg, flom_tls_recv_msg), and which messages  *)
(* the two ends of one connection exchange with which message structs, in  *)
(* buffers of different sizes.  What a daemon answers is left open here:   *)
(* the modules Session, Daemon and Resource* are about that.               *)
(*                                                                         *)
(* A byte is <<char>>, or stands for all the bytes of the name and the     *)
(* attributes of an element; lengths are scaled down accordingly.  The     *)
(* body of a struct is a C union: an array of half words, in which a       *)
(* pointer takes two, and every kind of message has a layout of its own.   *)
(***************************************************************************)
EXTENDS Naturals, Sequences, FiniteSets, SequencesExt, FiniteSetsExt, TLC

CONSTANTS Confs,       \* what the client may be configured to do
          Small,       \* FLOM_MSG_BUFFER_SIZE
          Large,       \* FLOM_NETWORK_BUFFER_SIZE
          MaxSends     \* bound: requests the client sends

\* via: the transport; level: the protocol level of the client's release; name: the
\* type of the resource and the length of its name; cert: the identity in the
\* certificate of the client; check: does the daemon compare it (tls_check_peer_id)?
Conf == [via : {"tcp", "tls", "udp"}, level : Nat, goal : {"lock", "shutdown"},
         type : {"simple", "numeric", "set", "hier", "sequence", "timestamp"},
         extra : Nat, mode : Nat, wait : {0, 1}, quantity : Nat, create : {0, 1},
         lifespan : Nat, flag : {0, 1}, cert : {"me", "other"}, check : BOOLEAN]

ASSUME MsgAssumption ==
  /\ Confs \subseteq Conf
  /\ Small \in Nat /\ Large \in Nat /\ MaxSends \in Nat

LEVEL == 3

VARIABLES conf,   \* the configuration of the client
          link,   \* [End -> what is on its way to it, one entry for each send]
          buf,    \* [End -> what it has read of the current message]
          want,   \* [End -> how many bytes it asks for, 0: the message is complete]
          msg,    \* [End -> struct flom_msg_s]
          last,   \* the last step seen on the connection, at the daemon
          client, \* what the client is doing
          place,  \* who has the connection in the daemon
          open,   \* the ends that have not closed the connection
          sends,  \* requests sent
          sent,   \* [End -> what was sent to it] (history)
          heard   \* [End -> what it has acted upon] (history)

vars == <<conf, link, buf, want, msg, last, client, place, open, sends, sent, heard>>

End == {"client", "daemon"}

(***************************************************************************)
(* struct flom_msg_s                                                       *)
(***************************************************************************)
Num(n) == <<"int", n>>
Str(s) == <<"str", s>>
Half == <<"half", 0>>     \* the second half of a pointer, or what is no value at all
Zero == Num(0)

\* Where the fields of each kind of message are in the union.
Layout(verb, step) ==
  CASE verb = "LOCK" /\ step = 8 ->
         [peerid |-> 1, name |-> 3, mode |-> 5, wait |-> 6, quantity |-> 7, create |-> 8,
          lifespan |-> 9]
    [] verb = "LOCK" /\ step = 16 -> [peerid |-> 1, rc |-> 3, element |-> 5]
    [] verb = "LOCK" /\ step \in {24, 32} -> [rc |-> 1, element |-> 3]
    [] verb = "UNLOCK" /\ step = 8 -> [name |-> 1, rollback |-> 3]
    [] verb = "DISCOVER" /\ step = 16 -> [address |-> 1, port |-> 3]
    [] verb = "MNGMNT" /\ step = 8 -> [peerid |-> 1, action |-> 3, immediate |-> 4]
    [] OTHER -> <<>>

Pointer == {"peerid", "name", "element", "address"}

Offset(m, f) == Layout(m.verb, m.step)[f]
Fields(m) == DOMAIN Layout(m.verb, m.step)
Get(m, f) == m.body[Offset(m, f)]

\* The struct with the fields of vs assigned.
PutAll(m, vs) ==
  LET at == [f \in DOMAIN vs |-> Offset(m, f)]
      first == {at[f] : f \in DOMAIN vs}
      second == {at[f] + 1 : f \in DOMAIN vs \cap Pointer}
      field(o) == CHOOSE f \in DOMAIN vs : at[f] = o
  IN  [m EXCEPT !.body =
         [i \in 1..9 |-> IF i \in first THEN vs[field(i)]
                         ELSE IF i \in second THEN IF vs[field(i - 1)] = Zero THEN Zero ELSE Half
                         ELSE m.body[i]]]

\* flom_msg_init, and a struct on the stack that nobody has initialised.
Blank == [state |-> "INITIALIZED", level |-> 0, verb |-> "NULL", step |-> 0,
          body |-> [i \in 1..9 |-> Zero]]
Garbage == [Blank EXCEPT !.body = [i \in 1..9 |-> Half]]

Message(m, level, verb, step, vs) ==
  PutAll([m EXCEPT !.level = level, !.verb = verb, !.step = step], vs)

\* flom_msg_free
Free(m) ==
  [PutAll(m, [f \in Fields(m) \cap Pointer |-> Zero]) EXCEPT !.state = "INVALID"]

\* flom_msg_build_answer
Answerable(step) == step \in {16, 24, 32}

BuildAnswer(m, step, rc, element) ==
  [Message(m, LEVEL, "LOCK", step,
           [rc |-> Num(rc), element |-> element] @@
           IF step = 16 THEN [peerid |-> Str("daemon")] ELSE <<>>)
     EXCEPT !.state = "READY"]

\* flom_msg_check_protocol, for what a client may send
FromClient(m) ==
  /\ m.step = 8
  /\ m.verb \in {"LOCK", "UNLOCK", "DISCOVER", "MNGMNT"}

\* flom_msg_get_peerid
PeerId(m) == IF "peerid" \in Fields(m) THEN Get(m, "peerid") ELSE Zero

(***************************************************************************)
(* flom_msg_serialize                                                      *)
(***************************************************************************)
Dec(n) == <<"%d", n>>          \* printed in decimal
Base64(s) == <<"base64", s>>
Text(s) == <<"%s", s>>

Chars(s) == [i \in DOMAIN s |-> <<s[i]>>]
ClosingTag == Chars(<<"<", "/", "m", "s", "g", ">">>)

Element(tag, attrs) == <<<<"<">>, <<"element", tag, attrs>>, <<"/">>, <<">">>>>

Formatted(m, f) ==
  LET v == Get(m, f) IN
  CASE f = "name" -> Base64(v[2])
    [] f \in Pointer /\ v = Zero -> Text("")
    [] f \in Pointer /\ v # Zero -> Text(v[2])
    [] OTHER -> Dec(v[2])

Attrs(m, fs) == [f \in fs |-> Formatted(m, f)]

\* Mutant of LockAttrs: the quantity is not sent.
LockAttrsNoQuantity(type) ==
  {"name", "wait", "create", "lifespan"} \cup IF type \in {"simple", "hier"} THEN {"mode"} ELSE {}

\* What a LOCK message says of the resource depends on its type.
LockAttrs(type) ==
  {"name", "wait", "create", "lifespan"} \cup
  CASE type \in {"simple", "hier"} -> {"mode"}
    [] type = "numeric" -> {"quantity"}
    [] OTHER -> {}

AnswerAttrs(m) == {"rc"} \cup {f \in {"element"} : Get(m, f) # Zero}

Body(m) ==
  CASE m.verb = "LOCK" /\ m.step = 8 ->
         Element("session", Attrs(m, {"peerid"})) \o
         Element("resource", Attrs(m, LockAttrs(Get(m, "name")[2].type))) \o
         [i \in 1..Get(m, "name")[2].extra |-> <<"x">>]
    [] m.verb = "LOCK" /\ m.step = 16 ->
         Element("session", Attrs(m, {"peerid"})) \o Element("answer", Attrs(m, AnswerAttrs(m)))
    [] m.verb = "LOCK" /\ m.step \in {24, 32} -> Element("answer", Attrs(m, AnswerAttrs(m)))
    [] m.verb = "UNLOCK" -> Element("resource", Attrs(m, {"name", "rollback"})) \o
         [i \in 1..Get(m, "name")[2].extra |-> <<"x">>]
    [] m.verb = "DISCOVER" /\ m.step = 16 -> Element("network", Attrs(m, {"address", "port"}))
    [] m.verb = "MNGMNT" ->
         Element("session", Attrs(m, {"peerid"})) \o Element("shutdown", Attrs(m, {"immediate"}))
    [] OTHER -> <<>>

Bytes(m) ==
  Chars(<<"<", "x", ">", "<", "m", "s", "g">>) \o
  <<<<"element", "msg", [level |-> Dec(m.level), verb |-> Text(m.verb), step |-> Dec(m.step)]>>,
    <<">">>>> \o
  Body(m) \o ClosingTag

\* With its terminator the message must fit in the buffer.
Fits(m, size) == Len(Bytes(m)) < size

(***************************************************************************)
(* flom_msg_deserialize: the callbacks of the parser                       *)
(***************************************************************************)
Known(tag) ==
  CASE tag = "resource" ->
         {"name", "mode", "rollback", "wait", "quantity", "create", "lifespan"}
    [] tag = "answer" -> {"rc", "element"}
    [] tag = "network" -> {"address", "port"}
    [] tag = "session" -> {"peerid"}
    [] tag = "shutdown" -> {"immediate"}
    [] OTHER -> {}

\* Is the tag one of those of this kind of message?
Belongs(m, tag) ==
  \/ tag = "resource" /\ m.verb \in {"LOCK", "UNLOCK"} /\ m.step = 8
  \/ tag = "answer" /\ m.verb = "LOCK" /\ m.step \in {16, 24, 32}
  \/ tag = "network" /\ m.verb = "DISCOVER" /\ m.step = 16
  \/ tag = "session" /\ \/ m.verb = "LOCK" /\ m.step \in {8, 16}
                        \/ m.verb = "MNGMNT" /\ m.step = 8
  \/ tag = "shutdown" /\ m.verb = "MNGMNT" /\ m.step = 8

\* A property of another verb, or one that network and shutdown do not have.
Wrong(m, tag, names) ==
  CASE Known(tag) = {} -> names # {}
    [] tag \in {"network", "shutdown"} -> ~(names \subseteq Known(tag))
    [] OTHER -> ~(names \cap Known(tag) \subseteq Fields(m))

\* strtol, the decoding of a name, g_strdup
Parsed(f, text) == IF f \in Pointer THEN Str(text[2]) ELSE Num(text[2])

StartElement(m, tag, attrs) ==
  LET names == DOMAIN attrs
      p == [m EXCEPT !.state = IF @ = "INITIALIZED" THEN "PARSING" ELSE @]
      got == [f \in names \cap Known(tag) |-> Parsed(f, attrs[f])]
      bad == [p EXCEPT !.state = "INVALID"]
  IN
  CASE m.state = "INVALID" -> m
    [] m.state # "INVALID" /\ tag = "msg" ->
         IF attrs["level"][2] # LEVEL THEN [bad EXCEPT !.level = attrs["level"][2]]
         ELSE [p EXCEPT !.level = LEVEL, !.verb = attrs["verb"][2], !.step = attrs["step"][2]]
    [] OTHER ->
         CASE Known(tag) # {} /\ ~Belongs(m, tag) -> p
           [] Known(tag) = {} /\ names = {} -> p
           [] (Known(tag) = {} \/ Belongs(m, tag)) /\ Wrong(m, tag, names) -> bad
           [] OTHER -> PutAll(p, IF tag = "shutdown" THEN got @@ [action |-> Num(1)] ELSE got)

EndElement(m, tag) ==
  CASE m.state = "INITIALIZED" -> [m EXCEPT !.state = "INVALID"]
    [] m.state = "PARSING" /\ tag = "msg" -> [m EXCEPT !.state = "READY"]
    [] OTHER -> m

\* What the parser makes of the struct, given the bytes of a message: one struct.  The
\* elements inside the message end where they start.
Deserialize(m, bytes) ==
  LET element(ms, b) ==
        IF b[2] = "msg" THEN {StartElement(x, b[2], b[3]) : x \in ms}
        ELSE {EndElement(x, b[2]) : x \in {StartElement(y, b[2], b[3]) : y \in ms}}
      parsed == FoldLeft(element, {m}, SelectSeq(bytes, LAMBDA b : b[1] = "element"))
  IN  IF IsSuffix(ClosingTag, bytes) THEN {EndElement(x, "msg") : x \in parsed} ELSE parsed

(***************************************************************************)
(* The receiver.                                                           *)
(***************************************************************************)
Other(e) == IF e = "client" THEN "daemon" ELSE "client"
RecvLen(e) == IF e = "client" THEN Large ELSE Small
T == Len(ClosingTag)

\* What recv(), or SSL_read(), may return bytes of: TCP does not keep the boundaries
\* between the sends, a TLS record or a datagram is one send.
Available(e) == IF conf.via = "tcp" THEN FlattenSeq(link[e])
                ELSE IF link[e] = <<>> THEN <<>> ELSE Head(link[e])
Left(e, n) ==
  LET rest == SubSeq(Available(e), n + 1, Len(Available(e)))
      more == IF conf.via = "tcp" THEN <<>> ELSE Tail(link[e])
  IN  IF rest = <<>> THEN more ELSE <<rest>> \o more

\* How much of the closing tag the bytes end with.
Matched(bytes) ==
  LET j[i \in 0..T] ==
        IF i = 0 THEN 0
        ELSE LET p == j[i - 1]
             IN  IF bytes[Len(bytes) - p] = ClosingTag[T - i + 1] THEN p + 1 ELSE 0
  IN  j[T]

\* Mutant of ToBeRead: the whole length of the tag every time.
ToBeReadWhole(bytes, asked) ==
  IF Len(bytes) < T THEN asked ELSE IF Matched(bytes) = T THEN 0 ELSE T

\* The bytes to ask for next: 0 when the message is complete.
ToBeRead(bytes, asked) == IF Len(bytes) < T THEN asked ELSE T - Matched(bytes)

\* Mutant of Overflows: too much room for the terminator.
OverflowsEarly(e, bytes, more) ==
  more > 0 /\ Len(bytes) >= T /\ Len(bytes) + more + 1 >= RecvLen(e)

Overflows(e, bytes, more) == more > 0 /\ Len(bytes) >= T /\ Len(bytes) + more >= RecvLen(e)

\* The closing of an end; what has not been read is lost.
Shut(e) ==
  /\ open' = open \ {e}
  /\ link' = [link EXCEPT ![e] = <<>>]
  /\ buf' = [buf EXCEPT ![e] = <<>>]
  /\ want' = [want EXCEPT ![e] = T]

\* What the loop of the receiver does with the n bytes it has got.
Got(e, n, bytes, more) ==
  IF Overflows(e, bytes, more) THEN Shut(e)
  ELSE /\ link' = [link EXCEPT ![e] = Left(e, n)]
       /\ buf' = [buf EXCEPT ![e] = bytes]
       /\ want' = [want EXCEPT ![e] = more]
       /\ UNCHANGED open

\* One recv() in flom_tcp_recv_msg: some of the bytes asked for.
TcpRead(e) ==
  /\ conf.via = "tcp"
  /\ \E n \in 1..Min({want[e], Len(Available(e))}) :
       \E bytes \in {buf[e] \o SubSeq(Available(e), 1, n)} :
         \E more \in {ToBeRead(bytes, want[e])} : Got(e, n, bytes, more)

\* One SSL_read() in flom_tls_recv_msg: all that the record has, up to what is asked.
TlsRead(e) ==
  /\ conf.via = "tls"
  /\ \E n \in {Min({want[e], Len(Available(e))})} :
       \E bytes \in {buf[e] \o SubSeq(Available(e), 1, n)} :
         \E more \in {ToBeRead(bytes, want[e])} : Got(e, n, bytes, more)

\* recvfrom() returns a datagram, or what of it the buffer can take.
UdpRead(e) ==
  /\ conf.via = "udp"
  /\ link' = [link EXCEPT ![e] = Tail(@)]
  /\ buf' = [buf EXCEPT ![e] = SubSeq(Available(e), 1, Min({Len(Available(e)), RecvLen(e)}))]
  /\ want' = [want EXCEPT ![e] = 0]
  /\ UNCHANGED open

\* The end waits for a message: the client when it has asked, the daemon whenever it
\* has the connection in a table of descriptors.
Listens(e) ==
  /\ e \in open
  /\ want[e] > 0
  /\ IF e = "client" THEN client \in {"asked", "waiting"} ELSE place \in {"main", "locker"}

Read(e) ==
  /\ Listens(e)
  /\ Available(e) # <<>>
  /\ TcpRead(e) \/ TlsRead(e) \/ UdpRead(e)
  /\ UNCHANGED <<conf, msg, last, client, place, sends, sent, heard>>

\* The other end has closed and there is nothing more to read.
Eof(e) ==
  /\ Listens(e)
  /\ conf.via # "udp"
  /\ Available(e) = <<>>
  /\ Other(e) \notin open
  /\ Shut(e)
  /\ UNCHANGED <<conf, msg, last, client, place, sends, sent, heard>>

(***************************************************************************)
(* The conversation.                                                       *)
(***************************************************************************)
OK == 0
ENQUEUED == 1
WAIT_RESOURCE == 2
BUSY == 4
CANT_WAIT == 5
IMPOSSIBLE == 6

\* What a receiver makes use of, of a LOCK request: a resource without modes or
\* quantities does not look at them.
Relevant(m) ==
  IF m.verb = "LOCK" /\ m.step = 8
  THEN Fields(m) \ CASE Get(m, "name")[2].type \in {"simple", "hier"} -> {"quantity"}
                     [] Get(m, "name")[2].type = "numeric" -> {"mode"}
                     [] OTHER -> {"mode", "quantity"}
  ELSE Fields(m)

\* A message as the program means it: a missing string is an empty one.
View(m) == <<m.verb, m.step,
             [f \in Relevant(m) |-> IF f \in Pointer /\ Get(m, f) = Zero THEN Str("")
                                    ELSE Get(m, f)]>>

\* The message is put on the wire to e; nobody reads it if e has closed.
Transmit(e, m) ==
  \E s \in {m} :
    /\ link' = IF e \in open THEN [link EXCEPT ![e] = Append(@, Bytes(s))] ELSE link
    /\ sent' = [sent EXCEPT ![e] = Append(@, View(s))]

\* The end acts upon the message in its buffer, and is ready for the next one.
Hear(e, m) ==
  /\ heard' = [heard EXCEPT ![e] = Append(@, View(m))]
  /\ buf' = [buf EXCEPT ![e] = <<>>]
  /\ want' = [want EXCEPT ![e] = T]

\* Mutant of Reset: the struct is freed but not initialised again.
ResetFreed(m) == [Free(m) EXCEPT !.state = "INITIALIZED"]

\* flom_msg_free and flom_msg_init
Reset(m) == Blank

Name == Str([type |-> conf.type, extra |-> conf.extra])

LockRequest ==
  Message(Blank, conf.level, "LOCK", 8,
          [peerid |-> Str("me"), name |-> Name, mode |-> Num(conf.mode),
           wait |-> Num(conf.wait), quantity |-> Num(conf.quantity),
           create |-> Num(conf.create), lifespan |-> Num(conf.lifespan)])

MaySend ==
  /\ "client" \in open
  /\ sends < MaxSends
  /\ sends' = sends + 1

\* flom_client_lock up to its first recv
SendLock ==
  /\ MaySend
  /\ conf.via # "udp" /\ conf.goal = "lock"
  /\ client \in {"idle", "told"}
  /\ msg' = [msg EXCEPT !["client"] = Blank]
  /\ \E m \in {LockRequest} :
       \/ /\ Fits(m, Large)
          /\ Transmit("daemon", m)
          /\ client' = "asked"
          /\ UNCHANGED <<buf, want, open>>
       \/ /\ ~Fits(m, Large)
          /\ Shut("client")
          /\ client' = "left"
          /\ UNCHANGED sent
  /\ UNCHANGED <<conf, last, place, heard>>

\* flom_client_unlock: its struct is not initialised, the fields it has are all set.
SendUnlock ==
  LET m == Message(Garbage, conf.level, "UNLOCK", 8,
                   [name |-> Name, rollback |-> Num(conf.flag)])
  IN
  /\ client = "locked"
  /\ "client" \in open
  /\ Transmit("daemon", m)
  /\ msg' = [msg EXCEPT !["client"] = Free(m)]
  /\ client' = "leaving"
  /\ UNCHANGED <<conf, buf, want, last, place, open, sends, heard>>

\* flom_client_shutdown
SendShutdown ==
  /\ MaySend
  /\ conf.goal = "shutdown"
  /\ client = "idle"
  /\ LET m == Message(Blank, conf.level, "MNGMNT", 8,
                      [peerid |-> Str("me"), action |-> Num(1), immediate |-> Num(conf.flag)])
     IN  /\ Transmit("daemon", m)
         /\ msg' = [msg EXCEPT !["client"] = m]
  /\ client' = "leaving"
  /\ UNCHANGED <<conf, buf, want, last, place, open, heard>>

\* flom_client_discover_udp sends again when no answer has come in time.
SendDiscover ==
  LET m == Message(Blank, conf.level, "DISCOVER", 8, <<>>)
  IN
  /\ MaySend
  /\ conf.via = "udp"
  /\ client \in {"idle", "asked"}
  /\ Transmit("daemon", m)
  /\ msg' = [msg EXCEPT !["client"] = Reset(m)]
  /\ client' = "asked"
  /\ UNCHANGED <<conf, buf, want, last, place, open, heard>>

\* A datagram is lost.
Lose(e) ==
  /\ conf.via = "udp"
  /\ link[e] # <<>>
  /\ link' = [link EXCEPT ![e] = Tail(@)]
  /\ UNCHANGED <<conf, buf, want, msg, last, client, place, open, sends, sent, heard>>

\* What an answer does: flom_client_lock, flom_client_wait_lock,
\* flom_client_discover_udp.
AfterAnswer(m) ==
  LET rc == Get(m, "rc")[2] IN
  CASE conf.via = "udp" -> "leaving"
    [] conf.via # "udp" /\ client = "asked" ->
         CASE rc = OK -> "locked"
           [] rc \in {ENQUEUED, WAIT_RESOURCE} -> "waiting"
           [] rc \in {BUSY, IMPOSSIBLE} -> "told"
           [] OTHER -> "leaving"
    [] OTHER -> IF rc = ENQUEUED THEN "waiting" ELSE "locked"

Expected(m) ==
  CASE conf.via = "udp" -> TRUE
    [] conf.via # "udp" /\ client = "asked" ->
         m.state = "READY" /\ m.verb = "LOCK" /\ m.step = 16
    [] OTHER -> m.verb = "LOCK" /\ m.step \in {16, 24, 32}

HandleAnswer(m) ==
  /\ msg' = [msg EXCEPT !["client"] = m]
  /\ \/ /\ Expected(m)
        /\ client' = AfterAnswer(m)
        /\ Hear("client", m)
        /\ UNCHANGED <<link, open>>
     \/ /\ ~Expected(m)
        /\ Shut("client")
        /\ UNCHANGED <<client, heard>>

ClientHandle ==
  /\ "client" \in open
  /\ want["client"] = 0
  /\ \E m \in Deserialize(Reset(msg["client"]), buf["client"]) : HandleAnswer(m)
  /\ UNCHANGED <<conf, last, place, sends, sent>>

\* flom_client_disconnect, or the end of the program.
Leave ==
  /\ client \in {"told", "leaving"}
  /\ "client" \in open
  /\ client' = "left"
  /\ Shut("client")
  /\ UNCHANGED <<conf, msg, last, place, sends, sent, heard>>

\* The client dies: the daemon may get only a part of what was on its way.
Die ==
  /\ "client" \in open
  /\ client' = "dead"
  /\ open' = open \ {"client"}
  /\ \E kept \in IF conf.via = "tcp"
                 THEN {<<SubSeq(Available("daemon"), 1, n)>> : n \in 1..Len(Available("daemon"))}
                      \cup {<<>>}
                 ELSE {SubSeq(link["daemon"], 1, n) : n \in 0..Len(link["daemon"])} :
       link' = [link EXCEPT !["client"] = <<>>, !["daemon"] = kept]
  /\ UNCHANGED <<conf, buf, want, msg, last, place, sends, sent, heard>>

(***************************************************************************)
(* The daemon: the main thread reads the first message of a connection.    *)
(***************************************************************************)
\* flom_accept_loop_pollin up to the choice of what to do with the message.
Accepted(m) ==
  /\ m.state = "READY"
  /\ FromClient(m)
  /\ conf.check /\ m.verb # "DISCOVER" => conf.via = "tls" /\ PeerId(m) = Str(conf.cert)

\* An invalid message, or a certificate of somebody else: the connection is closed.  A
\* message that is not a client's, or a peer id to check without TLS, is an error that
\* ends the loop of the daemon; the connection is closed, with all the others.
MainRefuses(m) ==
  /\ ~Accepted(m)
  /\ Shut("daemon")
  /\ last' = m.step
  /\ UNCHANGED <<place, sent, heard>>

\* flom_accept_discover_reply
MainDiscover(m) ==
  /\ Accepted(m) /\ m.verb = "DISCOVER"
  /\ \E address \in {Zero, Str("192.0.2.1")} :
       Transmit("client", Message(Blank, LEVEL, "DISCOVER", 16,
                                  [address |-> address, port |-> Num(28015)]))
  /\ Hear("daemon", m)
  /\ last' = m.step
  /\ UNCHANGED <<place, open>>

\* flom_daemon_mngmnt: at once, or when the locks have gone.
MainShutdown(m) ==
  /\ Accepted(m) /\ m.verb = "MNGMNT"
  /\ \/ /\ Get(m, "immediate") # Num(0)
        /\ Shut("daemon")
        /\ heard' = [heard EXCEPT !["daemon"] = Append(@, View(m))]
     \/ /\ Get(m, "immediate") = Num(0)
        /\ Hear("daemon", m)
        /\ UNCHANGED <<link, open>>
  /\ last' = m.step
  /\ UNCHANGED <<place, sent>>

\* flom_accept_loop_reply: a struct of its own, conn.msg keeps the request.
Reply(rc) == Transmit("client", BuildAnswer(Blank, 16, rc, Zero))

\* flom_accept_loop_transfer: to the locker of the resource, to the incubator, or back
\* to the client, whose connection is then closed.
MainLock(m) ==
  /\ Accepted(m) /\ m.verb = "LOCK"
  /\ Hear("daemon", m)
  /\ \/ /\ place' = "pipe"
        /\ last' = m.step
        /\ UNCHANGED <<link, sent, open>>
     \/ /\ Get(m, "create") = Num(0) /\ Get(m, "wait") # Num(0)
        /\ Reply(WAIT_RESOURCE)
        /\ place' = "incubator"
        /\ last' = 16
        /\ UNCHANGED open
     \/ /\ Get(m, "create") = Num(0) /\ Get(m, "wait") = Num(0)
        /\ Reply(CANT_WAIT)
        /\ open' = open \ {"daemon"}
        /\ last' = 16
        /\ UNCHANGED place

\* The struct of the connection is not reset between the messages.
MainHandle ==
  /\ place \in {"main", "incubator"}
  /\ "daemon" \in open
  /\ want["daemon"] = 0
  /\ \E m \in Deserialize(msg["daemon"], buf["daemon"]) :
       /\ msg' = [msg EXCEPT !["daemon"] = m]
       /\ MainRefuses(m) \/ MainDiscover(m) \/ MainShutdown(m) \/ MainLock(m)
  /\ UNCHANGED <<conf, client, sends>>

\* Somebody has created the resource: flom_accept_loop_transfer, which has just started
\* its locker, hands over what the incubator has for it.
Hatch ==
  /\ place = "incubator"
  /\ "daemon" \in open
  /\ buf["daemon"] = <<>>
  /\ place' = "pipe"
  /\ UNCHANGED <<conf, link, buf, want, msg, last, client, open, sends, sent, heard>>

(***************************************************************************)
(* The daemon: a locker takes the connection and answers.                  *)
(***************************************************************************)
\* Sets, sequences and timestamps tell the element with the lock.
Told(type, rc) ==
  IF rc = OK /\ type \in {"set", "sequence", "timestamp"} THEN Str("e") ELSE Zero

MayAnswer(m) ==
  {OK, IMPOSSIBLE} \cup IF Get(m, "wait") = Num(0) THEN {BUSY} ELSE {ENQUEUED}

\* inmsg of the resource and the answer of flom_locker_loop_pollin, which reuses the
\* struct of the request, with the step after that of the last message.
InmsgLock(m, step) ==
  \E rc \in MayAnswer(m) :
    \E a \in {BuildAnswer(Reset(m), step + 8, rc, Told(Get(m, "name")[2].type, rc))} :
      /\ Answerable(step + 8) /\ Fits(a, Small)
      /\ Transmit("client", a)
      /\ last' = a.step
      /\ place' = IF rc = ENQUEUED THEN "queued" ELSE "locker"
      /\ msg' = [msg EXCEPT !["daemon"] = Reset(a)]

\* An UNLOCK is not answered.
InmsgUnlock(m) ==
  /\ m.verb = "UNLOCK"
  /\ last' = m.step
  /\ place' = "locker"
  /\ msg' = [msg EXCEPT !["daemon"] = Reset(m)]
  /\ UNCHANGED <<link, sent>>

\* The connection comes out of the pipe, with the message the main thread has read.
LockerTake ==
  /\ place = "pipe"
  /\ InmsgLock(msg["daemon"], last)
  /\ UNCHANGED <<conf, buf, want, client, open, sends, heard>>

\* A further message: the LOCK of a client that was told BUSY, or an UNLOCK.
LockerHandle ==
  /\ place \in {"locker", "queued"}
  /\ "daemon" \in open
  /\ want["daemon"] = 0
  /\ \E m \in Deserialize(msg["daemon"], buf["daemon"]) :
       /\ m.state = "READY"
       /\ \/ m.verb = "LOCK" /\ InmsgLock(m, m.step)
          \/ InmsgUnlock(m)
       /\ Hear("daemon", m)
  /\ UNCHANGED <<conf, client, open, sends>>

\* The lock of a waiting client: a struct of its own, and always the third step.
Grant ==
  /\ place = "queued"
  /\ "daemon" \in open
  /\ Transmit("client", BuildAnswer(Blank, 24, OK, Told(conf.type, OK)))
  /\ last' = 24
  /\ place' = "locker"
  /\ UNCHANGED <<conf, buf, want, msg, client, open, sends, heard>>

\* The main thread looks for POLLHUP first, and drops what a client that has gone has
\* sent (flom_accept_loop).
Hangup ==
  /\ place \in {"main", "incubator"}
  /\ conf.via # "udp"
  /\ "daemon" \in open
  /\ "client" \notin open
  /\ buf["daemon"] = <<>>
  /\ Shut("daemon")
  /\ UNCHANGED <<conf, msg, last, client, place, sends, sent, heard>>

Init ==
  /\ conf \in Confs
  /\ link = [e \in End |-> <<>>]
  /\ buf = [e \in End |-> <<>>]
  /\ want = [e \in End |-> T]
  /\ msg = [e \in End |-> Blank]
  /\ last = 0
  /\ client = "idle"
  /\ place = "main"
  /\ open = End
  /\ sends = 0
  /\ sent = [e \in End |-> <<>>]
  /\ heard = [e \in End |-> <<>>]

ClientStep ==
  SendLock \/ SendUnlock \/ SendShutdown \/ SendDiscover \/ ClientHandle \/ Leave \/ Die

MainStep == MainHandle \/ Hatch \/ Hangup

LockerStep == LockerTake \/ LockerHandle \/ Grant

Next ==
  \/ ClientStep \/ MainStep \/ LockerStep
  \/ \E e \in End : Read(e) \/ Eof(e) \/ Lose(e)

\* A thread goes on reading and handling what poll() has reported: so do the threads of
\* the daemon, and the client while its call waits for an answer without a timeout.
\* Nobody is bound to ask, to unlock, or to leave.
Fairness ==
  /\ \A e \in End : WF_vars(Read(e)) /\ WF_vars(Eof(e))
  /\ WF_vars(ClientHandle)
  /\ WF_vars(MainHandle)
  /\ WF_vars(LockerTake) /\ WF_vars(LockerHandle)

Spec == Init /\ [][Next]_vars
FairSpec == Spec /\ Fairness

(***************************************************************************)
(* Properties.                                                             *)
(***************************************************************************)
\* The structs, the buffers and the threads have the values they can have: a buffer
\* holds a message being read or complete, a connection is with one thread.
TypeOK ==
  /\ conf \in Confs
  /\ \A e \in End : /\ want[e] \in 0..T
                     /\ msg[e].state \in {"INITIALIZED", "PARSING", "READY", "INVALID"}
                     /\ msg[e].step \in {0, 8, 16, 24, 32}
                     /\ DOMAIN msg[e].body = 1..9
  /\ last \in {0, 8, 16, 24, 32}
  /\ client \in {"idle", "asked", "waiting", "locked", "told", "leaving", "left", "dead"}
  /\ place \in {"main", "incubator", "pipe", "locker", "queued"}
  /\ open \subseteq End
  /\ sends \in 0..MaxSends

\* What an end acts upon is what the other end sent, field by field, in the order in
\* which it was sent, none twice, and never a message cut short or made of the pieces
\* of two; with UDP some may be missing.  A client of another protocol level, or with a
\* certificate that is not its own, is not acted upon at all.
ReceivedIsSent ==
  /\ \A e \in End : IF conf.via = "udp" THEN ToSet(heard[e]) \subseteq ToSet(sent[e])
                     ELSE IsPrefix(heard[e], sent[e])
  /\ conf.level # LEVEL \/ (conf.check /\ conf.cert # "me") => heard["daemon"] = <<>>

\* flom_tcp_recv_msg and flom_tls_recv_msg never ask for more than the message they are
\* reading still has, though they do not know its length: they do not wait for bytes
\* nobody will send, and leave the next message in the socket for poll() to report.
FrameExact ==
  \A e \in End :
    conf.via # "udp" =>
      \A n \in 0..(Min({want[e], Len(Available(e)) + 1}) - 1) :
        ~IsSuffix(ClosingTag, buf[e] \o SubSeq(Available(e), 1, n))

\* A message and the terminator written after it stay within the buffer of the receiver.
BufferBounds ==
  \A e \in End : Len(buf[e]) < RecvLen(e)

\* In a struct read as the kind of message its header says, every string is NULL or a
\* string and every number a number: no field is what another kind of message has left
\* in the union, which flom_msg_free would pass to g_free.
PointersSound ==
  \A e \in End : \A f \in Fields(msg[e]) :
    LET o == Offset(msg[e], f) IN
    IF f \in Pointer
    THEN \/ msg[e].body[o] = Zero /\ msg[e].body[o + 1] = Zero
         \/ msg[e].body[o][1] = "str" /\ msg[e].body[o + 1] = Half
    ELSE msg[e].body[o][1] = "int"

\* The connection does not lose messages, and the daemon takes this client's.
Acceptable ==
  /\ conf.via # "udp"
  /\ conf.level = LEVEL
  /\ conf.check => conf.cert = "me"
  /\ Fits(LockRequest, Small)

\* A request that both buffers can hold, of a client the daemon accepts, is acted upon
\* by the daemon, and every answer by the client, unless the client goes away first.
EveryMessageHeard ==
  /\ \A k \in 1..(MaxSends + 1) :
       (Acceptable /\ Len(sent["daemon"]) = k)
         ~> (Len(heard["daemon"]) >= k \/ client \in {"left", "dead"})
  /\ \A k \in 1..(2 * MaxSends + 1) :
       (conf.via # "udp" /\ Len(sent["client"]) = k)
         ~> (Len(heard["client"]) >= k \/ client \in {"left", "dead"})

\* Message structs hold what their kind of message has, at any point of parsing, answering
\* and freeing.
StructsSound ==
  /\ TypeOK
  /\ PointersSound

\* A receiver reads one message, all of it, and within its buffer.
ReadsExact ==
  /\ FrameExact
  /\ BufferBounds
==============================================================================
