----------------------------- MODULE RequestStream -----------------------------
(* The requests of one connection: HttpParser over the bytes that have       *)
(* arrived, the loop of Connection::process() around it, and what            *)
(* WebModule::dispatch() and Router make of a request. A message is its head *)
(* and its body; the wire is the messages one after the other. The client    *)
(* may send any part of it at any time, and the bytes of a body may look     *)
(* like the end of a head. A head is its last unit; the bytes before it are  *)
(* counted. The path of a head is the sequence of its segments.              *)
EXTENDS Naturals, Integers, Sequences, SequencesExt

CONSTANTS
  Wires,    \* what a client may send: sequences of messages
  Routes,   \* the tables of the controllers, one after the other
  Params,   \* the segments of a pattern that stand for a parameter
  Public,   \* first segments of paths that start with "/public"
  MaxHead,  \* kMaxHeaderBytes
  MaxBody,  \* kMaxBodyBytes
  ReadSize  \* bytes a read returns at most

VARIABLES
  messages,  \* what this client sends
  sent,      \* units it has sent
  fin,       \* it has sent FIN
  taken,     \* units that were read from the socket
  start,     \* units that were erased from _in
  continued, \* _sent_continue
  closing,   \* _pending_eof
  streaming, \* _stream is set
  replies    \* what was appended to _out

streamVars == <<messages, sent, fin, taken, start, continued, closing, streaming, replies>>

Byte == [kind |-> "byte"]
Junk == -1 \* a Content-Length that is no number, or a negative one

\* The units of a message and of the wire.
Units(m) == [i \in 1 .. m.lines |-> Byte] \o <<m.head>> \o m.body
Wire == FlattenSeq([i \in DOMAIN messages |-> Units(messages[i])])
Buffer == SubSeq(Wire, start + 1, taken)

-----------------------------------------------------------------------------
(* parse_incremental().                                                     *)
\* Method, target, version and every header line can be read; the headers that
\* tell where a message ends are there as often as they may be.
Refused(h) ==
  \/ ~h.wellFormed
  \/ h.recent /\ h.hosts # 1
  \/ Len(h.lengths) > 1 \/ h.coded
  \/ h.expect = "other"
  \/ h.lengths = <<Junk>>

Length(h) == IF h.lengths = <<>> THEN 0 ELSE h.lengths[1]
KeepAlive(h) == IF h.recent THEN h.connection # "close" ELSE h.connection = "keep-alive"

HeadEnd(buf) == SelectInSeq(buf, LAMBDA u : u.kind = "head")

\* Mutant: a body that has not arrived is not waited for.
Parse_IgnoresBody(buf) ==
  LET e == HeadEnd(buf) IN
  IF e = 0 THEN [result |-> "incomplete", expects |-> FALSE]
  ELSE IF Refused(buf[e]) THEN [result |-> "refused"]
  ELSE [result |-> "complete", consumed |-> e, head |-> buf[e]]

Parse(buf) ==
  LET e == HeadEnd(buf) IN
  IF e = 0 THEN IF Len(buf) > MaxHead THEN [result |-> "refused"]
                ELSE [result |-> "incomplete", expects |-> FALSE]
  ELSE IF Refused(buf[e]) THEN [result |-> "refused"]
  ELSE IF Length(buf[e]) > MaxBody THEN [result |-> "too large"]
  ELSE IF Len(buf) < e + Length(buf[e])
       THEN [result |-> "incomplete", expects |-> buf[e].expect = "100-continue"]
  ELSE [result |-> "complete", consumed |-> e + Length(buf[e]), head |-> buf[e]]

-----------------------------------------------------------------------------
(* Router.                                                                  *)
\* match_segments(): a parameter takes one segment that is not empty.
Matches(pattern, path) ==
  /\ Len(pattern) = Len(path)
  /\ \A i \in DOMAIN path : IF pattern[i] \in Params THEN path[i] # "" ELSE pattern[i] = path[i]

\* What a handler does, as dispatch() answers it.
StatusOf(outcome) ==
  CASE outcome = "done" -> 200 [] outcome = "stream" -> 200
    [] outcome = "rejected" -> 409 [] outcome = "bad json" -> 400 [] outcome = "thrown" -> 500

Reply(status, body, stream) == [status |-> status, body |-> body, stream |-> stream]

\* WebModule::dispatch(), Router::dispatch(): the first route with the path and
\* the method; a HEAD is answered like a GET, without the body, unless it fails.
Dispatch(h) ==
  LET known == {i \in DOMAIN Routes : Matches(Routes[i].pattern, h.path)}
      able == {i \in known : Routes[i].method \in {h.method} \cup (IF h.method = "HEAD" THEN {"GET"} ELSE {})}
      chosen == Routes[CHOOSE i \in able : \A j \in able : i <= j]
  IN IF h.path[1] \in Public THEN Reply(200, h.method # "HEAD", FALSE)
     ELSE IF able # {}
     THEN Reply(StatusOf(chosen.outcome), h.method # "HEAD" \/ chosen.outcome \notin {"done", "stream"},
                chosen.outcome = "stream")
     ELSE IF known # {} THEN Reply(405, TRUE, FALSE) ELSE Reply(404, TRUE, FALSE)

-----------------------------------------------------------------------------
(* The client and the loop of process(), one turn of it a step.             *)
StreamInit ==
  /\ messages \in Wires /\ sent = 0 /\ fin = FALSE /\ taken = 0 /\ start = 0
  /\ continued = FALSE /\ closing = FALSE /\ streaming = FALSE /\ replies = <<>>

Send ==
  /\ ~fin /\ sent' \in sent + 1 .. Len(Wire)
  /\ UNCHANGED <<messages, fin, taken, start, continued, closing, streaming, replies>>
Finish ==
  /\ ~fin /\ fin' = TRUE
  /\ UNCHANGED <<messages, sent, taken, start, continued, closing, streaming, replies>>

Parsing == ~closing /\ ~streaming

Answer ==
  /\ Parsing
  /\ \E p \in {Parse(Buffer)} :
       /\ p.result = "complete"
       /\ start' = start + p.consumed /\ continued' = FALSE
       /\ \E reply \in {Dispatch(p.head)} : replies' = Append(replies, reply) /\ streaming' = reply.stream
       /\ closing' = ~KeepAlive(p.head)
  /\ UNCHANGED <<messages, sent, fin, taken>>

\* What cannot be read would not get better: no more is parsed.
Refuse ==
  /\ Parsing
  /\ \E p \in {Parse(Buffer)} :
       /\ p.result \in {"refused", "too large"}
       /\ replies' = Append(replies, Reply(IF p.result = "refused" THEN 400 ELSE 413, TRUE, FALSE))
  /\ closing' = TRUE
  /\ UNCHANGED <<messages, sent, fin, taken, start, continued, streaming>>

\* Mutant: the client is asked again for every part of the body.
Ask_Again(p) ==
  /\ continued' = p.expects
  /\ replies' = IF p.expects THEN Append(replies, Reply(100, FALSE, FALSE)) ELSE replies

\* 100 Continue is sent before the body is waited for, once for a request.
Ask(p) ==
  /\ continued' = (continued \/ p.expects)
  /\ replies' = IF p.expects /\ ~continued THEN Append(replies, Reply(100, FALSE, FALSE)) ELSE replies

\* Nothing to parse yet: more is read, or the end of the input is.
Read ==
  /\ Parsing
  /\ \E p \in {Parse(Buffer)} : p.result = "incomplete" /\ Ask(p)
  /\ \/ /\ sent > taken /\ taken' \in taken + 1 .. (IF sent < taken + ReadSize THEN sent ELSE taken + ReadSize)
        /\ UNCHANGED closing
     \/ sent = taken /\ fin /\ closing' = TRUE /\ UNCHANGED taken
     \/ sent = taken /\ ~fin /\ continued # continued' /\ UNCHANGED <<taken, closing>>
  /\ UNCHANGED <<messages, sent, fin, start, streaming>>

\* A connection that streams reads and drops what still comes.
Drop ==
  /\ streaming /\ ~closing /\ sent > taken /\ taken' = sent
  /\ UNCHANGED <<messages, sent, fin, start, continued, closing, streaming, replies>>

StreamNext == Send \/ Finish \/ Answer \/ Refuse \/ Read \/ Drop

-----------------------------------------------------------------------------
Finals == SelectSeq(replies, LAMBDA r : r.status # 100)
Size(i) == Len(Units(messages[i]))
EndOf(i) == LET end[j \in 0 .. Len(messages)] == IF j = 0 THEN 0 ELSE end[j - 1] + Size(j) IN end[i]

\* The answer to message i, whatever was sent with it.
Due(i) ==
  LET h == messages[i].head IN
  IF Refused(h) THEN Reply(400, TRUE, FALSE)
  ELSE IF Length(h) > MaxBody THEN Reply(413, TRUE, FALSE) ELSE Dispatch(h)
EndsIt(i) ==
  LET h == messages[i].head IN
  Refused(h) \/ Length(h) > MaxBody \/ ~KeepAlive(h) \/ Dispatch(h).stream
CutShort(i) == messages[i].lines > MaxHead /\ Finals[i].status = 400

(* However the wire is cut into reads, the answers are those to the         *)
(* messages, in their order, up to one that ends the connection; a head     *)
(* that is too long is the one that may be refused or not. When all that    *)
(* was sent has been read, every whole message has its answer. A client is  *)
(* asked to continue once, for the message that asks for it and before the  *)
(* answer to it.                                                            *)
RepliesFollowRequests ==
  /\ Len(Finals) <= Len(messages)
  /\ \A i \in DOMAIN Finals :
       /\ Finals[i] # Due(i) => CutShort(i)
       /\ i < Len(Finals) => ~EndsIt(i) /\ ~CutShort(i)
  /\ taken = sent /\ Parsing /\ Parse(Buffer).result = "incomplete" =>
       \A i \in DOMAIN messages : EndOf(i) <= sent => i <= Len(Finals)
  /\ \A j \in DOMAIN replies : replies[j].status = 100 =>
       LET i == Len(SelectSeq(SubSeq(replies, 1, j), LAMBDA r : r.status # 100)) + 1 IN
       /\ i <= Len(messages) /\ messages[i].head.expect = "100-continue"
       /\ j > 1 => replies[j - 1].status # 100
=============================================================================
