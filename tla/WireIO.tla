------------------------------- MODULE WireIO -------------------------------
(***************************************************************************)
(* Framing (wire_io.rs over encode_frame and decode_frame of               *)
(* eggtunnel-proto): one direction of a control stream, from the loop that *)
(* writes messages to the loop that reads them inside a select!.           *)
(*                                                                         *)
(* A frame is HeaderLen cells of header, the last holding the length word, *)
(* and Length[m] cells of payload.  A cell knows its frame and its place,  *)
(* which stands for what its bytes say.                                    *)
(***************************************************************************)
EXTENDS Integers, Sequences

CONSTANTS
  Messages,    \* messages the writing loop may send
  Length,      \* cells of each message's postcard payload
  HeaderLen,   \* cells of a header
  MaxFrame,    \* MAX_FRAME_BYTES, in cells
  Window,      \* cells the transport takes before a writer blocks
  Links,       \* the kinds of stream to look at (see link)
  BestEffort,  \* messages whose write timeout the loop survives
  MaxFrames    \* bound: frames begun

\* Every message of the protocol has a payload; a header that announces none is
\* refused as invalid, by decode_frame or by the match after it, and is left out.
ASSUME WireAssumption ==
  /\ Length \in [Messages -> Nat \ {0}] /\ BestEffort \subseteq Messages
  /\ HeaderLen \in Nat \ {0} /\ {MaxFrame, Window, MaxFrames} \subseteq Nat
  /\ Links \subseteq [whole : BOOLEAN, cancel : BOOLEAN, foreign : BOOLEAN]

VARIABLES
  link,    \* the stream: whether a frame arrives whole (one TLS record) or in
           \* pieces (QUIC), whether read_message is an arm of a select!, and
           \* whether the writer is a peer that does not check MaxFrame
  begun,   \* frames encoded so far
  out,     \* cells write_all has still to hand over
  torn,    \* frames dropped by a write that ran out of time
  open,    \* whether the writing half is open
  wire,    \* cells on their way
  buf,     \* cells held by the read_message under way
  got,     \* messages read, by the number of their frame; 0 if nobody sent it
  result   \* "reading", or why read_message failed

vars == <<link, begun, out, torn, open, wire, buf, got, result>>
writeVars == <<link, begun, out, torn, open>>
readVars == <<buf, got, result>>

Init ==
  /\ link \in Links
  /\ begun = 0 /\ out = <<>> /\ torn = {} /\ open = TRUE
  /\ wire = <<>> /\ buf = <<>> /\ got = <<>> /\ result = "reading"

(***************************************************************************)
(* The writing loop.                                                       *)
(***************************************************************************)

Total(m) == HeaderLen + Length[m]
Frame(m, n) == [i \in 1..Total(m) |-> [m |-> m, n |-> n, i |-> i]]
Fits(m) == Length[m] <= MaxFrame
MayWrite == open /\ out = <<>> /\ begun < MaxFrames

\* encode_frame, and write_all begins.
Encode(m) ==
  /\ MayWrite
  /\ Fits(m) \/ link.foreign
  /\ begun' = begun + 1
  /\ out' = Frame(m, begun')
  /\ UNCHANGED <<link, torn, open, wire, readVars>>

\* encode_frame refuses the message; the error ends the loop.
RefuseToEncode(m) ==
  /\ MayWrite /\ ~Fits(m) /\ ~link.foreign
  /\ open' = FALSE
  /\ UNCHANGED <<link, begun, out, torn, wire, readVars>>

\* The pieces write_all may hand over next.
Pieces == IF link.whole THEN {Len(out)} ELSE 1..Len(out)
HasRoom(k) == Len(wire) + k <= Window \/ (link.whole /\ wire = <<>>)

\* The transport takes some of the frame.
Push ==
  \E k \in Pieces :
    /\ out # <<>> /\ HasRoom(k)
    /\ wire' = wire \o SubSeq(out, 1, k)
    /\ out' = SubSeq(out, k + 1, Len(out))
    /\ UNCHANGED <<link, begun, torn, open, readVars>>

SurvivesTimeout(m) == m \in BestEffort

Blocked == \A k \in Pieces : ~HasRoom(k)

\* The budget of write_bounded or write_control runs out on a blocked write:
\* write_all is dropped with the rest of its frame.
WriteTimeout ==
  /\ out # <<>> /\ Blocked
  /\ out' = <<>> /\ torn' = torn \cup {out[1].n}
  /\ open' = SurvivesTimeout(out[1].m)
  /\ UNCHANGED <<link, begun, wire, readVars>>

\* The writing loop ends, possibly in the middle of a frame.
Close ==
  /\ open
  /\ open' = FALSE /\ out' = <<>>
  /\ UNCHANGED <<link, begun, torn, wire, readVars>>

\* The connection is reset: what is on its way is lost.
Reset ==
  /\ open /\ result = "reading"
  /\ open' = FALSE /\ out' = <<>> /\ wire' = <<>> /\ buf' = <<>>
  /\ result' = "io"
  /\ UNCHANGED <<link, begun, torn, got>>

(***************************************************************************)
(* read_message.                                                           *)
(***************************************************************************)

\* Seeded fault: a header is looked at one cell too late.
HeaderReadLate == Len(buf) > HeaderLen

HeaderRead == Len(buf) >= HeaderLen

\* Magic, version and message type are in place: the cells are a header.
IsHeader(s) == \A i \in 1..HeaderLen : s[i].i = i /\ s[i].n = s[1].n

\* Seeded fault: the length word is not compared with MAX_FRAME_BYTES.
NeverTooLarge(len) == FALSE

\* Seeded fault: a frame of exactly MAX_FRAME_BYTES is refused.
TooLargeInclusive(len) == len >= MaxFrame

TooLarge(len) == len > MaxFrame

Declared == Length[buf[HeaderLen].m]

HeaderAccepted == IsHeader(buf) /\ ~TooLarge(Declared)

\* Seeded fault: one byte of payload too many.
WantedMore == IF HeaderRead /\ HeaderAccepted THEN HeaderLen + Declared + 1 ELSE HeaderLen

\* Cells read_message reads before it looks at them.
Wanted == IF HeaderRead /\ HeaderAccepted THEN HeaderLen + Declared ELSE HeaderLen

\* read_exact and take(len).read_to_end poll the stream.
ReadCell ==
  /\ result = "reading" /\ wire # <<>>
  /\ Len(buf) < Wanted
  /\ buf' = Append(buf, Head(wire)) /\ wire' = Tail(wire)
  /\ UNCHANGED <<writeVars, got, result>>

Fail(why) == result' = why /\ buf' = <<>> /\ UNCHANGED got

\* decode_frame of the header alone finds it wrong.
RefuseHeader ==
  /\ result = "reading" /\ HeaderRead /\ ~HeaderAccepted
  /\ Fail(IF IsHeader(buf) THEN "too_large" ELSE "invalid")
  /\ UNCHANGED <<writeVars, wire>>

Intact == \A i \in 1..Len(buf) : buf[i].i = i /\ buf[i].n = buf[1].n

\* decode_frame of the whole frame.  Payload bytes of another frame may decode
\* to some value or fail to decode.
Decode ==
  /\ result = "reading" /\ HeaderRead /\ HeaderAccepted /\ Len(buf) = Wanted
  /\ \/ /\ got' = Append(got, IF Intact THEN buf[1].n ELSE 0)
        /\ buf' = <<>> /\ UNCHANGED result
     \/ ~Intact /\ Fail("invalid")
  /\ UNCHANGED <<writeVars, wire>>

\* UnexpectedEof or a short payload.
EndOfStream ==
  /\ result = "reading" /\ ~open /\ wire = <<>>
  /\ Len(buf) < Wanted
  /\ Fail("truncated")
  /\ UNCHANGED <<writeVars, wire>>

\* Another arm of the select! completes while the read is pending: the future
\* is dropped with its header and payload, and the next turn starts a new one.  A
\* poll takes all there is, so that a pending read has nothing left on the wire;
\* over TLS, where a frame comes whole, it has not begun one.
Cancel ==
  /\ link.cancel
  /\ result = "reading" /\ wire = <<>>
  /\ Len(buf) < Wanted
  /\ buf' = <<>>
  /\ UNCHANGED <<writeVars, wire, got, result>>

Next ==
  \/ \E m \in Messages : Encode(m) \/ RefuseToEncode(m)
  \/ Push \/ WriteTimeout \/ Close \/ Reset
  \/ ReadCell \/ RefuseHeader \/ Decode \/ EndOfStream \/ Cancel

Spec == Init /\ [][Next]_vars

\* Bytes move and the reading loop is polled.
FairSpec == Spec /\ WF_vars(Push) /\ WF_vars(ReadCell) /\ WF_vars(RefuseHeader)
                 /\ WF_vars(Decode) /\ WF_vars(EndOfStream)

(***************************************************************************)
(* Properties.                                                             *)
(***************************************************************************)

\* architecture/transports-wire-io.md:117: "each `read_message` consumes exactly
\* one frame. Control loops that `split()` the stream rely on this 1:1
\* property": the messages read are those written, in order, none lost, repeated
\* or made up, as far as the first frame a write timeout left unfinished.
InOrder == \A i \in DOMAIN got : (\A t \in torn : i < t) => got[i] = i

\* wire_io.rs:9-12: a failure is named for its cause: a truncation only if the
\* writer ended, a frame too large only from a peer that does not check, and an
\* invalid frame only after one that was torn.
ErrorExplained ==
  /\ result = "truncated" => ~open
  /\ result = "too_large" => link.foreign
  /\ result = "invalid" => torn # {}

\* wire_io.rs:38-40: a reader never holds more than a header and MAX_FRAME_BYTES,
\* whatever length the peer announces, and never more than arrived.
BufferBounded == Len(buf) <= HeaderLen + MaxFrame

\* From a peer that may tear frames or exceed their limit a reader stays small, and
\* names what is wrong.
FailsClosed == ErrorExplained /\ BufferBounded

\* Every message begun is read, unless the stream ends or a frame was torn.
AllArrive ==
  \A n \in 1..MaxFrames :
    (begun >= n) ~> (Len(got) >= n \/ result # "reading" \/ ~open \/ torn # {})

=============================================================================
