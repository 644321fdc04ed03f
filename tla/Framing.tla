------------------------------- MODULE Framing -------------------------------
(***************************************************************************)
(* One client connection between the client's writes and parse()           *)
(* (src/src/Socket.cpp, receive): the transport cuts the client's bytes    *)
(* anywhere, readbuf collects them, and the framing loop finds messages in *)
(* it.                                                                     *)
(*                                                                         *)
(* Bytes are symbols.  "text" stands for a request up to its end tag,      *)
(* "frame" for a type-105 header up to its end tag with the length of its  *)
(* payload and the compression flag, "</" and "isr>" for the two halves of *)
(* the end tag (so that a cut can fall inside it), "zip" for a payload     *)
(* that inflates to a request and "junk" for one that does not inflate.    *)
(* A length counts symbols.                                                *)
(***************************************************************************)
EXTENDS Naturals, Sequences

CONSTANTS Kinds,       \* the kinds of message this client sends
          MaxMessages  \* bound on the messages of one connection

AllKinds == {"plain", "framed", "zipped", "corrupt", "empty"}

ASSUME FramingAssumption ==
    /\ Kinds \subseteq AllKinds
    /\ MaxMessages \in Nat

\* The kinds that carry a request: a payload that does not inflate and an
\* empty one do not.
Understood == {"plain", "framed", "zipped"}

VARIABLES sent,     \* the kinds of the messages sent so far
          outgoing, \* bytes on their way
          arrived,  \* TLS records, or one run of bytes, waiting in the kernel
          dataless, \* a further TLS record has begun that has no data to read
          closed,   \* the peer has closed, behind all its bytes
          broken,   \* the connection was reset, or a record is no good
          secure,   \* the handshake succeeded: records, not a byte stream
          readbuf,  \* bytes received and not yet consumed
          handled,  \* positions in sent of the requests parse() was given
          taken,    \* how many messages the framing loop has consumed
          idle,     \* no end tag was found for 120 seconds
          up        \* the socket is in the server's set

clientVars == <<sent, outgoing>>
netVars    == <<arrived, dataless, closed, broken, secure>>
serverVars == <<readbuf, handled, taken, idle, up>>
vars       == <<clientVars, netVars, serverVars>>

-----------------------------------------------------------------------------
Sym(name, id) == [sym |-> name, id |-> id]

EndTag == <<Sym("</", 0), Sym("isr>", 0)>>

RequestText(id) == <<Sym("text", id)>> \o EndTag

Frame(payload, zip) ==
    <<[sym |-> "frame", length |-> Len(payload), zip |-> zip]>> \o EndTag \o payload

\* What a client writes for its id-th message.
Encode(kind, id) ==
    CASE kind = "plain"   -> RequestText(id)
      [] kind = "framed"  -> Frame(RequestText(id), FALSE)
      [] kind = "zipped"  -> Frame(<<Sym("zip", id)>>, TRUE)
      [] kind = "corrupt" -> Frame(<<Sym("junk", id)>>, TRUE)
      [] kind = "empty"   -> Frame(<<>>, FALSE)

-----------------------------------------------------------------------------
(***************************************************************************)
(* readbuf.find("</isr>"): the positions the end tag starts at.            *)
(***************************************************************************)
EndTagsAt(buf) ==
    {p \in 1 .. (Len(buf) - 1) : SubSeq(buf, p, p + 1) = EndTag}

\* is_framed_payload: the text up to the end tag is a type-105 header.
IsFrame(xml) == Len(xml) = 3 /\ xml[1].sym = "frame"

\* The requests parse() finds in a document.  Of what these clients send,
\* anything but exactly one request is not well-formed and is ignored.
ParsedText(doc) ==
    IF Len(doc) = 3 /\ doc[1].sym = "text" THEN <<doc[1].id>> ELSE <<>>

Inflate(payload) ==
    IF Len(payload) = 1 /\ payload[1].sym = "zip"
    THEN RequestText(payload[1].id) ELSE <<>>

Nothing(buf) == [rest |-> buf, ids |-> <<>>, count |-> 0]

(***************************************************************************)
(* One turn of the framing loop: the first end tag ends either a header,   *)
(* whose payload must be complete before both are dropped from the buffer, *)
(* or a whole request.  count = 0 means the loop breaks.                   *)
(***************************************************************************)
Step(buf) ==
    IF EndTagsAt(buf) = {} THEN Nothing(buf)
    ELSE
      LET position == CHOOSE p \in EndTagsAt(buf) : \A q \in EndTagsAt(buf) : p <= q
          header == position + 1
          xml == SubSeq(buf, 1, header)
          total == IF IsFrame(xml) THEN header + xml[1].length ELSE header
          payload == SubSeq(buf, header + 1, total)
      IN  IF Len(buf) < total THEN Nothing(buf)
          ELSE [rest |-> SubSeq(buf, total + 1, Len(buf)),
                ids |-> ParsedText(IF ~IsFrame(xml) THEN xml
                                   ELSE IF xml[1].zip THEN Inflate(payload)
                                   ELSE payload),
                count |-> 1]

\* Wrong: returns to the caller after the first message.
MutConsume(buf) == Step(buf)

(***************************************************************************)
(* The framing loop, turn after turn.  A turn that breaks changes nothing  *)
(* and every other takes bytes away, so Len(buf) turns are all there are.  *)
(***************************************************************************)
Consume(buf) ==
    LET after[n \in 0 .. Len(buf)] ==
            IF n = 0 THEN Nothing(buf)
            ELSE LET before == after[n - 1]
                     turn == Step(before.rest)
                 IN  [rest |-> turn.rest, ids |-> before.ids \o turn.ids,
                      count |-> before.count + turn.count]
    IN  after[Len(buf)]

-----------------------------------------------------------------------------
Init ==
    /\ sent = <<>>
    /\ outgoing = <<>>
    /\ arrived = <<>>
    /\ dataless = FALSE
    /\ closed = FALSE
    /\ broken = FALSE
    /\ secure \in BOOLEAN
    /\ readbuf = <<>>
    /\ handled = <<>>
    /\ taken = 0
    /\ idle = FALSE
    /\ up = TRUE

Send(kind) ==
    /\ ~closed
    /\ Len(sent) < MaxMessages
    /\ sent' = Append(sent, kind)
    /\ outgoing' = outgoing \o Encode(kind, Len(sent) + 1)
    /\ UNCHANGED <<netVars, serverVars>>

\* The network delivers n more symbols: over TLS a record, else bytes that
\* join those already waiting.
Arrive(n) ==
    LET bytes == SubSeq(outgoing, 1, n) IN
    /\ arrived' = IF secure \/ arrived = <<>> THEN Append(arrived, bytes)
                  ELSE <<arrived[1] \o bytes>>
    /\ outgoing' = SubSeq(outgoing, n + 1, Len(outgoing))
    /\ dataless' = FALSE
    /\ UNCHANGED <<sent, closed, broken, secure, serverVars>>

\* Of the next TLS record only the beginning is there; or it is one of the
\* protocol's own, which SSL_read reads through to the data behind it.
ArriveDataless ==
    /\ secure
    /\ dataless' = TRUE
    /\ UNCHANGED <<clientVars, arrived, closed, broken, secure, serverVars>>

PeerCloses ==
    /\ outgoing = <<>>
    /\ ~closed
    /\ closed' = TRUE
    /\ UNCHANGED <<clientVars, arrived, dataless, broken, secure, serverVars>>

\* A reset, a time-out of the network, or a record that does not decrypt.
Break ==
    /\ broken' = TRUE
    /\ UNCHANGED <<clientVars, arrived, dataless, closed, secure, serverVars>>

-----------------------------------------------------------------------------
\* Wrong: what the loop did not consume is thrown away.
MutProcess(bytes) ==
    LET result == Consume(readbuf \o bytes) IN
    /\ readbuf' = <<>>
    /\ handled' = handled \o result.ids
    /\ taken' = taken + result.count
    /\ idle' = (idle /\ EndTagsAt(readbuf \o bytes) = {})

\* The framing loop runs over what was there before and what has come now.
\* An end tag counts as a request even if the payload is still to come.
Process(bytes) ==
    LET result == Consume(readbuf \o bytes) IN
    /\ readbuf' = result.rest
    /\ handled' = handled \o result.ids
    /\ taken' = taken + result.count
    /\ idle' = (idle /\ EndTagsAt(readbuf \o bytes) = {})

\* The main loop takes the socket out of its set, which closes it: receive()
\* returned 0, or the sweep found it.
Drop ==
    /\ up' = FALSE
    /\ UNCHANGED <<clientVars, netVars, readbuf, handled, taken, idle>>

\* Wrong: the close is looked for before the records in front of it.
MutReceiveNoRecord ==
    /\ up /\ secure
    /\ closed
    /\ Drop

(***************************************************************************)
(* receive() over TLS: SSL_read until SSL_pending is 0, which is one       *)
(* record.  With no data to read it wants more, the length read stays 0    *)
(* and is returned as such; behind the last record comes the close.        *)
(***************************************************************************)
ReceiveRecord ==
    /\ up /\ secure
    /\ arrived # <<>>
    /\ Process(Head(arrived))
    /\ arrived' = Tail(arrived)
    /\ UNCHANGED <<clientVars, dataless, closed, broken, secure, up>>

ReceiveNoRecord ==
    /\ up /\ secure
    /\ arrived = <<>>
    /\ dataless \/ closed
    /\ Drop

(***************************************************************************)
(* receive() in the clear: recv until it would block.  A close or an error *)
(* found behind the bytes returns 0 before the framing loop is reached.    *)
(***************************************************************************)
ReceiveStream ==
    /\ up /\ ~secure
    /\ arrived # <<>>
    /\ ~closed /\ ~broken
    /\ Process(Head(arrived))
    /\ arrived' = Tail(arrived)
    /\ UNCHANGED <<clientVars, dataless, closed, broken, secure, up>>

ReceiveClose ==
    /\ up /\ ~secure
    /\ closed
    /\ Drop

\* recv or SSL_read gives an error; the records in front of it may be lost.
ReceiveError == up /\ broken /\ Drop

Receive == ReceiveRecord \/ ReceiveNoRecord \/ ReceiveStream \/ ReceiveClose \/ ReceiveError

\* 120 seconds by the clock since the last end tag was found.
Overdue == ~idle /\ idle' = TRUE /\ UNCHANGED <<clientVars, netVars, readbuf, handled, taken, up>>

\* The main loop removes the connections that have been idle, whatever of
\* theirs has not been read.
Sweep == up /\ idle /\ Drop

Network ==
    \/ \E n \in 1 .. Len(outgoing) : Arrive(n)
    \/ ArriveDataless \/ PeerCloses \/ Break

\* A connection that was dropped is over, and nothing comes over a broken
\* one: what its client still does to it reaches nobody.
Next ==
    /\ up
    /\ \/ ~broken /\ ((\E kind \in Kinds : Send(kind)) \/ Network)
       \/ Receive \/ Overdue \/ Sweep

Spec == Init /\ [][Next]_vars

-----------------------------------------------------------------------------
Symbols ==
    [sym : {"text", "zip", "junk", "</", "isr>"}, id : 0 .. MaxMessages]
        \cup [sym : {"frame"}, length : 0 .. 3, zip : BOOLEAN]

TypeOK ==
    /\ sent \in Seq(Kinds)
    /\ outgoing \in Seq(Symbols)
    /\ arrived \in Seq(Seq(Symbols))
    /\ {dataless, closed, broken, secure, idle, up} \subseteq BOOLEAN
    /\ readbuf \in Seq(Symbols)
    /\ handled \in Seq(1 .. MaxMessages)
    /\ taken \in 0 .. Len(sent)

(***************************************************************************)
(* The connection implements the promised stream of requests.              *)
(***************************************************************************)
Stream == INSTANCE RequestStream WITH
    Kinds <- Kinds, Understood <- Understood,
    sent <- sent, handled <- handled, taken <- taken, up <- up

ImplementsRequestStream == Stream!Spec

(***************************************************************************)
(* The framing loop leaves nothing behind: once every byte of a connection *)
(* that is up has been read, every message was dealt with and the buffer   *)
(* is empty.  A length or an end tag taken wrong would leave the buffer    *)
(* out of step with the client for good.                                   *)
(***************************************************************************)
NothingLeftBehind ==
    (up /\ outgoing = <<>> /\ arrived = <<>>) =>
        taken = Len(sent) /\ readbuf = <<>>

(***************************************************************************)
(* A server that runs drops a connection with messages unread only for     *)
(* these reasons: in the clear, the close or an error came along with      *)
(* them; over TLS, a record that has no data to read (a part of one, or a  *)
(* whole one of the protocol's own) was alone when select woke; the        *)
(* connection broke; or no end tag was found for 120 seconds.  A TLS peer  *)
(* that writes, closes, and whose records arrive whole has everything it   *)
(* sent handled first.                                                     *)
(***************************************************************************)
LossIsExplained ==
    [][up /\ ~up' => \/ taken = Len(sent)
                     \/ ~secure /\ closed
                     \/ secure /\ dataless
                     \/ broken \/ idle]_vars
=============================================================================
