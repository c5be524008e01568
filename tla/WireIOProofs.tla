---------------------------- MODULE WireIOProofs ----------------------------
(***************************************************************************)
(* Proofs about WireIO for every set of messages, every length of header,  *)
(* payload and window, and any number of frames.                           *)
(***************************************************************************)
EXTENDS WireIO, SequenceTheorems, TLAPS

(***************************************************************************)
(* The stream as one sequence: what the reader holds, what is on its way   *)
(* and what the writer has still to hand over.                             *)
(***************************************************************************)
Cell == [m : Messages, n : Nat, i : Nat]

Arrived == Len(buf) + Len(wire)
Size == Arrived + Len(out)

Line == [j \in 1..Size |-> IF j <= Len(buf) THEN buf[j]
                           ELSE IF j <= Arrived THEN wire[j - Len(buf)]
                           ELSE out[j - Arrived]]

Types ==
  /\ link \in Links /\ begun \in Nat /\ torn \subseteq 1..begun /\ open \in BOOLEAN
  /\ out \in Seq(Cell) /\ wire \in Seq(Cell) /\ buf \in Seq(Cell) /\ got \in Seq(Nat)

\* A cell of a frame that was begun, of a message its writer could encode.
Sound(c) == c.i \in 1..Total(c.m) /\ c.n \in 1..begun /\ (Fits(c.m) \/ link.foreign)

\* write_all has the rest of the last frame, and the stream is open.
Rest ==
  out # <<>> =>
    /\ open
    /\ \A k \in 1..Len(out) :
         /\ out[k].m = out[1].m /\ out[k].n = begun
         /\ out[k].i = Total(out[1].m) - Len(out) + k

\* A frame of which nothing more comes.
Ended(c) == c.i = Total(c.m) \/ c.n \in torn

\* d may come after c: the next cell of its frame, or the first one of the next
\* frame of which anything was sent.
Follows(c, d) ==
  \/ d.m = c.m /\ d.n = c.n /\ d.i = c.i + 1
  \/ d.i = 1 /\ d.n > c.n /\ Ended(c) /\ (c.n + 1)..(d.n - 1) \subseteq torn

Linked == \A j \in 1..Size : Sound(Line[j]) /\ (j < Size => Follows(Line[j], Line[j + 1]))

\* The last cell belongs to the last frame, but for those torn before they began.
Last ==
  open /\ Size > 0 => Ended(Line[Size]) /\ (Line[Size].n + 1)..begun \subseteq torn

\* All frames before a torn one have been read: from here on the reader may be
\* out of step.
Astray == \E t \in torn : t <= Len(got) + 1

\* A reader that is not astray holds the beginning of the next frame, and the
\* stream goes on from there.
InStep ==
  result = "reading" /\ ~Astray =>
    /\ \A k \in 1..Len(buf) : buf[k].m = buf[1].m /\ buf[k].n = Len(got) + 1 /\ buf[k].i = k
    /\ Size > 0 => Line[1].n = Len(got) + 1 /\ Line[1].i = 1
    /\ Size = 0 /\ open => begun = Len(got)

\* Over a transport that delivers frames whole, no frame is ever cut.
Uncut ==
  link.whole =>
    /\ out # <<>> => Len(out) = Total(out[1].m)
    /\ Arrived > 0 => Line[Arrived].i = Total(Line[Arrived].m)

IInv == Types /\ Rest /\ Linked /\ Last /\ InStep /\ Uncut /\ InOrder /\ FailsClosed

(***************************************************************************)
(* How the steps move the stream.                                          *)
(***************************************************************************)
LEMMA Sizes ==
  ASSUME Types
  PROVE  /\ Len(buf) \in Nat /\ Len(wire) \in Nat /\ Len(out) \in Nat /\ Len(got) \in Nat
         /\ Arrived \in Nat /\ Size \in Nat
         /\ \A j \in 1..Size : Line[j] \in Cell
         /\ (buf = <<>>) = (Len(buf) = 0) /\ (wire = <<>>) = (Len(wire) = 0)
         /\ (out = <<>>) = (Len(out) = 0)
  <1>1. /\ Len(buf) \in Nat /\ Len(wire) \in Nat /\ Len(out) \in Nat /\ Len(got) \in Nat
    BY LenProperties DEF Types
  <1>2. ASSUME NEW j \in 1..Size PROVE Line[j] \in Cell
    <2>1. CASE j <= Len(buf) BY <1>1, <2>1, ElementOfSeq DEF Types, Line
    <2>2. CASE j > Len(buf) /\ j <= Arrived
      <3>1. j - Len(buf) \in 1..Len(wire) BY <1>1, <2>2 DEF Arrived
      <3> QED BY <1>1, <2>2, <3>1, ElementOfSeq DEF Types, Line
    <2>3. CASE ~(j <= Len(buf)) /\ ~(j <= Arrived)
      <3>1. j - Arrived \in 1..Len(out) BY <1>1, <2>3 DEF Arrived, Size
      <3>2. out[j - Arrived] \in Cell BY <3>1, ElementOfSeq DEF Types
      <3> QED BY <2>3, <3>2 DEF Line
    <2> QED BY <1>1, <2>1, <2>2, <2>3 DEF Arrived
  <1>3. /\ (buf = <<>>) = (Len(buf) = 0) /\ (wire = <<>>) = (Len(wire) = 0)
        /\ (out = <<>>) = (Len(out) = 0)
    BY EmptySeq DEF Types
  <1> QED BY <1>1, <1>2, <1>3 DEF Arrived, Size

LEMMA Lines ==
  /\ \A j \in 1..Size : Line[j] = IF j <= Len(buf) THEN buf[j]
                                  ELSE IF j <= Arrived THEN wire[j - Len(buf)]
                                  ELSE out[j - Arrived]
  /\ \A j \in 1..Size' : Line'[j] = IF j <= Len(buf') THEN buf'[j]
                                    ELSE IF j <= Arrived' THEN wire'[j - Len(buf')]
                                    ELSE out'[j - Arrived']
  BY DEF Line

LEMMA Places ==
  ASSUME Types
  PROVE  /\ \A k \in 1..Len(buf) : Line[k] = buf[k] /\ k \in 1..Size
         /\ \A k \in 1..Len(wire) : Line[Len(buf) + k] = wire[k] /\ Len(buf) + k \in 1..Size
         /\ \A k \in 1..Len(out) : Line[Arrived + k] = out[k] /\ Arrived + k \in 1..Size
  <1>1. Len(buf) \in Nat /\ Len(wire) \in Nat /\ Len(out) \in Nat BY Sizes
  <1>2. ASSUME NEW k \in 1..Len(buf) PROVE Line[k] = buf[k] /\ k \in 1..Size
    BY <1>1 DEF Line, Size, Arrived
  <1>3. ASSUME NEW k \in 1..Len(wire)
        PROVE  Line[Len(buf) + k] = wire[k] /\ Len(buf) + k \in 1..Size
    <2>1. /\ ~(Len(buf) + k <= Len(buf)) /\ Len(buf) + k <= Arrived
          /\ (Len(buf) + k) - Len(buf) = k /\ Len(buf) + k \in 1..Size
      BY <1>1 DEF Arrived, Size
    <2> QED BY <2>1 DEF Line
  <1>4. ASSUME NEW k \in 1..Len(out)
        PROVE  Line[Arrived + k] = out[k] /\ Arrived + k \in 1..Size
    <2>1. /\ ~(Arrived + k <= Len(buf)) /\ ~(Arrived + k <= Arrived)
          /\ (Arrived + k) - Arrived = k /\ Arrived + k \in 1..Size
      BY <1>1 DEF Arrived, Size
    <2> QED BY <2>1 DEF Line
  <1> QED BY <1>2, <1>3, <1>4

\* The stream loses its first d cells and perhaps some at its end.
Slides(d) == Size' + d <= Size /\ \A j \in 1..Size' : Line'[j] = Line[j + d]

\* Handing cells over does not change the stream.
LEMMA PushSlides ==
  ASSUME Types, Types', NEW k \in 1..Len(out), buf' = buf,
         wire' = wire \o SubSeq(out, 1, k), out' = SubSeq(out, k + 1, Len(out))
  PROVE  /\ Slides(0) /\ Size' = Size
         /\ Len(out') = Len(out) - k /\ \A j \in 1..Len(out') : out'[j] = out[k + j]
         /\ Arrived' = Arrived + k
  <1>1. /\ Len(buf) \in Nat /\ Len(wire) \in Nat /\ Len(out) \in Nat BY Sizes
  <1>2. \A j \in 1..Len(out) : out[j] \in Cell BY ElementOfSeq DEF Types
  <1>3. /\ SubSeq(out, 1, k) \in Seq(Cell) /\ Len(SubSeq(out, 1, k)) = k
        /\ \A j \in 1..k : SubSeq(out, 1, k)[j] = out[j]
    BY <1>1, <1>2, SubSeqProperties
  <1>4. /\ Len(out') = Len(out) - k
        /\ \A j \in 1..Len(out') : out'[j] = out[k + j]
    BY <1>1, <1>2, SubSeqProperties
  <1>5. /\ Len(wire') = Len(wire) + k
        /\ \A j \in 1..Len(wire') : wire'[j] = IF j <= Len(wire) THEN wire[j]
                                               ELSE SubSeq(out, 1, k)[j - Len(wire)]
    BY <1>1, <1>3, ConcatProperties DEF Types
  <1>0. k \in Nat /\ k <= Len(out) /\ Len(buf') = Len(buf) BY <1>1
  <1>6. Size' = Size /\ Arrived' = Arrived + k
    BY ONLY <1>0, <1>1, <1>4, <1>5 DEF Size, Arrived
  <1>7. ASSUME NEW j \in 1..Size PROVE Line'[j] = Line[j]
    <2>0. j \in 1..Size' BY <1>6
    <2>1. CASE j <= Len(buf) BY <2>0, <2>1, Lines
    <2>2. CASE ~(j <= Len(buf)) /\ j <= Arrived
      <3>1. j - Len(buf) \in 1..Len(wire) BY <1>1, <2>2 DEF Arrived
      <3>2. wire'[j - Len(buf)] = wire[j - Len(buf)] BY <1>1, <1>5, <3>1
      <3>3. j <= Arrived' BY <1>1, <1>6, <2>2 DEF Arrived
      <3> QED BY <2>0, <2>2, <3>2, <3>3, Lines
    <2>3. CASE ~(j <= Arrived) /\ j <= Arrived'
      <3>1. /\ j - Len(buf) \in 1..Len(wire') /\ ~(j - Len(buf) <= Len(wire))
            /\ ~(j <= Len(buf))
            /\ (j - Len(buf)) - Len(wire) = j - Arrived /\ j - Arrived \in 1..k
        BY <1>1, <1>5, <1>6, <2>3 DEF Arrived
      <3>2. wire'[j - Len(buf)] = SubSeq(out, 1, k)[j - Arrived] BY <1>5, <3>1
      <3>3. wire'[j - Len(buf)] = out[j - Arrived] BY <1>3, <3>1, <3>2
      <3> QED BY <2>0, <2>3, <3>1, <3>3, Lines
    <2>4. CASE ~(j <= Arrived')
      <3>1. /\ ~(j <= Arrived) /\ ~(j <= Len(buf)) /\ j - Arrived' \in 1..Len(out')
            /\ k + (j - Arrived') = j - Arrived
        BY <1>1, <1>4, <1>6, <2>4 DEF Arrived, Size
      <3>2. out'[j - Arrived'] = out[j - Arrived] BY <1>4, <3>1
      <3> QED BY <2>0, <2>4, <3>1, <3>2, Lines
    <2> QED BY <2>1, <2>2, <2>3, <2>4
  <1>8. Size \in Nat BY Sizes
  <1>9. \A j \in 1..Size' : j + 0 = j BY ONLY <1>6, <1>8
  <1>10. Size' + 0 <= Size BY ONLY <1>6, <1>8
  <1> QED BY <1>4, <1>6, <1>7, <1>9, <1>10 DEF Slides

\* Reading a cell does not either.
LEMMA ReadSlides ==
  ASSUME Types, Types', wire # <<>>, out' = out,
         buf' = Append(buf, Head(wire)), wire' = Tail(wire)
  PROVE  /\ Slides(0) /\ Size' = Size /\ Arrived' = Arrived
         /\ Len(buf') = Len(buf) + 1 /\ buf'[Len(buf) + 1] = Line[Len(buf) + 1]
         /\ \A j \in 1..Len(buf) : buf'[j] = buf[j]
  <1>1. /\ Len(buf) \in Nat /\ Len(wire) \in Nat \ {0} /\ Len(out) \in Nat BY Sizes
  <1>2. /\ Head(wire) \in Cell /\ Head(wire) = wire[1] /\ Len(wire') = Len(wire) - 1
        /\ \A j \in 1..Len(wire') : wire'[j] = wire[j + 1]
    BY HeadTailProperties DEF Types
  <1>3. /\ Len(buf') = Len(buf) + 1 /\ buf'[Len(buf) + 1] = wire[1]
        /\ \A j \in 1..Len(buf) : buf'[j] = buf[j]
    BY <1>2, AppendProperties DEF Types
  <1>4. Size' = Size /\ Arrived' = Arrived BY <1>1, <1>2, <1>3 DEF Size, Arrived
  <1>5. Line[Len(buf) + 1] = wire[1]
    BY <1>1, Places
  <1>6. ASSUME NEW j \in 1..Size PROVE Line'[j] = Line[j]
    <2>0. j \in 1..Size' BY <1>4
    <2>1. CASE j <= Len(buf)
      <3>1. j \in 1..Len(buf) /\ j <= Len(buf') BY <1>1, <1>3, <2>1
      <3> QED BY <1>3, <2>0, <2>1, <3>1, Lines
    <2>2. CASE j = Len(buf) + 1
      <3>1. j <= Len(buf') BY <1>1, <1>3, <2>2
      <3> QED BY <1>3, <1>5, <2>0, <2>2, <3>1, Lines
    <2>3. CASE j > Len(buf) + 1 /\ j <= Arrived
      <3>1. /\ ~(j <= Len(buf)) /\ ~(j <= Len(buf')) /\ j - Len(buf') \in 1..Len(wire')
            /\ (j - Len(buf')) + 1 = j - Len(buf)
        BY <1>1, <1>2, <1>3, <2>3 DEF Arrived
      <3>2. wire'[j - Len(buf')] = wire[j - Len(buf)] BY <1>2, <3>1
      <3> QED BY <1>4, <2>0, <2>3, <3>1, <3>2, Lines
    <2>4. CASE ~(j <= Arrived) /\ j # Len(buf) + 1
      <3>1. ~(j <= Len(buf)) /\ ~(j <= Len(buf')) BY <1>1, <1>3, <2>4 DEF Arrived
      <3> QED BY <1>4, <2>0, <2>4, <3>1, Lines
    <2> QED BY <1>1, <2>1, <2>2, <2>3, <2>4 DEF Size, Arrived
  <1>7. \A j \in 1..Size' : j + 0 = j BY <1>1 DEF Size, Arrived
  <1> QED BY <1>1, <1>3, <1>4, <1>5, <1>6, <1>7 DEF Slides, Size, Arrived

\* A write that is given up takes its rest off the stream.
LEMMA CutSlides ==
  ASSUME Types, Types', out' = <<>>, buf' = buf, wire' = wire
  PROVE  Slides(0) /\ Size' = Arrived /\ Arrived' = Arrived
  <1>1. /\ Len(buf) \in Nat /\ Len(wire) \in Nat /\ Len(out) \in Nat BY Sizes
  <1>2. Size' = Arrived /\ Arrived' = Arrived BY <1>1, EmptySeq DEF Size, Arrived
  <1>3. ASSUME NEW j \in 1..Arrived PROVE Line'[j] = Line[j + 0]
    <2>1. j \in 1..Size' /\ j \in 1..Size /\ j + 0 = j /\ j <= Arrived
      BY <1>1, <1>2 DEF Size, Arrived
    <2> QED BY <1>2, <2>1, Lines
  <1> QED BY <1>1, <1>2, <1>3 DEF Slides, Size, Arrived

\* A reader that begins again takes what it holds off the stream.
LEMMA DropSlides ==
  ASSUME Types, Types', buf' = <<>>, wire' = wire, out' = out
  PROVE  Slides(Len(buf)) /\ Size' = Size - Len(buf) /\ Arrived' = Arrived - Len(buf)
  <1>1. /\ Len(buf) \in Nat /\ Len(wire) \in Nat /\ Len(out) \in Nat BY Sizes
  <1>2. Len(buf') = 0 BY EmptySeq
  <1>3. Size' = Size - Len(buf) /\ Arrived' = Arrived - Len(buf) /\ Arrived' = Len(wire)
    BY <1>1, <1>2 DEF Size, Arrived
  <1>4. ASSUME NEW j \in 1..Size' PROVE Line'[j] = Line[j + Len(buf)]
    <2>1. /\ j + Len(buf) \in 1..Size
          /\ ~(j <= Len(buf')) /\ ~(j + Len(buf) <= Len(buf))
          /\ (j <= Arrived') = (j + Len(buf) <= Arrived)
          /\ j - Len(buf') = j /\ (j + Len(buf)) - Len(buf) = j
          /\ j - Arrived' = (j + Len(buf)) - Arrived
      BY <1>1, <1>2, <1>3 DEF Arrived, Size
    <2> QED BY <2>1, Lines
  <1> QED BY <1>1, <1>3, <1>4 DEF Slides, Size, Arrived

(***************************************************************************)
(* Types.                                                                  *)
(***************************************************************************)
LEMMA Lengths ==
  ASSUME NEW m \in Messages
  PROVE  /\ Length[m] \in Nat \ {0} /\ HeaderLen \in Nat \ {0} /\ MaxFrame \in Nat
         /\ Total(m) \in Nat \ {0} /\ Total(m) = HeaderLen + Length[m]
  BY WireAssumption DEF Total

LEMMA FrameIsSeq ==
  ASSUME NEW m \in Messages, NEW n \in Nat
  PROVE  /\ Frame(m, n) \in Seq(Cell) /\ Len(Frame(m, n)) = Total(m)
         /\ \A k \in 1..Total(m) : Frame(m, n)[k] = [m |-> m, n |-> n, i |-> k]
  <1>1. Total(m) \in Nat BY Lengths
  <1>2. \A k \in 1..Total(m) : [m |-> m, n |-> n, i |-> k] \in Cell BY <1>1 DEF Cell
  <1> QED BY <1>1, <1>2 DEF Frame

Takes(k) ==
  /\ wire' = wire \o SubSeq(out, 1, k) /\ out' = SubSeq(out, k + 1, Len(out))
  /\ UNCHANGED <<link, begun, torn, open, readVars>>

LEMMA PushTakes ==
  ASSUME Types, Push
  PROVE  \E k \in 1..Len(out) : Takes(k) /\ (link.whole => k = Len(out))
  <1>1. Len(out) \in Nat /\ (out = <<>>) = (Len(out) = 0) BY Sizes
  <1>2. PICK k \in Pieces : out # <<>> /\ Takes(k) BY DEF Push, Takes
  <1>3. k \in 1..Len(out) /\ (link.whole => k = Len(out)) BY <1>1, <1>2 DEF Pieces
  <1> QED BY <1>2, <1>3

LEMMA TypesKept ==
  ASSUME IInv, [Next]_vars
  PROVE  Types'
  <1>t. Types BY DEF IInv
  <1>s. Len(buf) \in Nat /\ Len(wire) \in Nat /\ Len(out) \in Nat BY <1>t, Sizes
  <1>e. \A S : <<>> \in Seq(S) BY EmptySeq
  <1>1. ASSUME NEW m \in Messages, Encode(m) PROVE Types'
    <2>1. begun + 1 \in Nat /\ 1..begun \subseteq 1..(begun + 1) BY <1>t DEF Types
    <2>2. out' \in Seq(Cell) BY <1>1, <2>1, FrameIsSeq DEF Encode
    <2> QED BY <1>t, <1>1, <2>1, <2>2 DEF Types, Encode, readVars
  <1>2. ASSUME NEW m \in Messages, RefuseToEncode(m) PROVE Types'
    BY <1>t, <1>2 DEF Types, RefuseToEncode, readVars
  <1>3. CASE Push
    <2>1. PICK k \in 1..Len(out) : Takes(k) BY <1>t, <1>3, PushTakes
    <2>2. \A j \in 1..Len(out) : out[j] \in Cell BY <1>t, ElementOfSeq DEF Types
    <2>3. SubSeq(out, 1, k) \in Seq(Cell) BY <1>s, <2>2, SubSeqProperties
    <2>4. out' \in Seq(Cell) BY <1>s, <2>1, <2>2, SubSeqProperties DEF Takes
    <2>5. wire' \in Seq(Cell) BY <1>t, <2>1, <2>3, ConcatProperties DEF Types, Takes
    <2> QED BY <1>t, <2>1, <2>4, <2>5 DEF Types, Takes, readVars
  <1>4. CASE WriteTimeout
    <2>0. out # <<>> BY <1>4 DEF WriteTimeout
    <2>1. 1 \in 1..Len(out)
      <3>1. Len(out) # 0 BY <1>t, <2>0, Sizes
      <3> QED BY <1>s, <3>1
    <2>a. out[1].n = begun BY <2>0, <2>1 DEF IInv, Rest
    <2>2. begun \in 1..begun
      <3>1. Line[Arrived + 1] = out[1] /\ Arrived + 1 \in 1..Size BY <1>t, <2>1, Places
      <3> QED BY <2>a, <3>1 DEF IInv, Linked, Sound
    <2> QED BY <1>t, <1>4, <1>e, <2>a, <2>2 DEF Types, WriteTimeout, readVars, SurvivesTimeout
  <1>5. CASE Close BY <1>t, <1>5, <1>e DEF Types, Close, readVars
  <1>6. CASE Reset BY <1>t, <1>6, <1>e DEF Types, Reset
  <1>7. CASE ReadCell
    <2>1. Head(wire) \in Cell /\ wire' \in Seq(Cell)
      BY <1>t, <1>7, HeadTailProperties DEF Types, ReadCell
    <2>2. buf' \in Seq(Cell) BY <1>t, <1>7, <2>1, AppendProperties DEF Types, ReadCell
    <2> QED BY <1>t, <1>7, <2>1, <2>2 DEF Types, ReadCell, writeVars
  <1>8. CASE RefuseHeader BY <1>t, <1>8, <1>e DEF Types, RefuseHeader, Fail, writeVars
  <1>9. CASE Decode
    <2>1. CASE got' = got BY <1>t, <1>9, <1>e, <2>1 DEF Types, Decode, Fail, writeVars
    <2>2. CASE got' = Append(got, IF Intact THEN buf[1].n ELSE 0) /\ buf' = <<>>
      <3>1. HeaderLen \in Nat \ {0} BY WireAssumption
      <3>2. 1 \in 1..Len(buf) BY <1>9, <1>s, <3>1 DEF Decode, HeaderRead
      <3>a. buf[1] \in Cell BY <1>t, <3>2, ElementOfSeq DEF Types
      <3>3. buf[1].n \in Nat BY <3>a DEF Cell
      <3>4. got' \in Seq(Nat) BY <1>t, <2>2, <3>3, AppendProperties DEF Types
      <3> QED BY <1>t, <1>9, <1>e, <2>2, <3>4 DEF Types, Decode, writeVars
    <2> QED BY <1>9, <2>1, <2>2 DEF Decode, Fail
  <1>10. CASE EndOfStream BY <1>t, <1>10, <1>e DEF Types, EndOfStream, Fail, writeVars
  <1>11. CASE Cancel BY <1>t, <1>11, <1>e DEF Types, Cancel, writeVars
  <1>12. CASE UNCHANGED vars BY <1>t, <1>12 DEF Types, vars
  <1> QED BY <1>1, <1>2, <1>3, <1>4, <1>5, <1>6, <1>7, <1>8, <1>9, <1>10, <1>11, <1>12 DEF Next

(***************************************************************************)
(* The cells stay in line.                                                 *)
(***************************************************************************)
Later == torn \subseteq torn' /\ begun <= begun' /\ link' = link

LEMMA Within ==
  ASSUME NEW a \in Nat, NEW b \in Nat, NEW d \in Nat, b + d <= a, NEW j \in 1..b
  PROVE  /\ j + d \in 1..a /\ (j + 1) + d = (j + d) + 1
         /\ (j < b => j + d < a /\ j + 1 \in 1..b)
  OBVIOUS

LEMMA LinkedSlides ==
  ASSUME Types, Types', Linked, Later, NEW d \in Nat, Slides(d)
  PROVE  Linked'
  <1>1. Size \in Nat /\ Size' \in Nat
    <2>1. Len(buf) \in Nat /\ Len(wire) \in Nat /\ Len(out) \in Nat BY Sizes
    <2>2. Len(buf') \in Nat /\ Len(wire') \in Nat /\ Len(out') \in Nat
      BY LenProperties DEF Types
    <2> QED BY <2>1, <2>2 DEF Size, Arrived
  <1>2. ASSUME NEW j \in 1..Size' PROVE Sound(Line[j])'
    <2>0. Size' + d <= Size /\ Line'[j] = Line[j + d] BY DEF Slides
    <2>1. j + d \in 1..Size BY <1>1, <2>0, Within
    <2>2. PICK c : c = Line[j + d] OBVIOUS
    <2>3. Sound(c) BY <2>1, <2>2 DEF Linked
    <2>4. Line'[j] = c BY <2>0, <2>2
    <2>5. begun \in Nat /\ begun' \in Nat BY DEF Types
    <2>6. c.n \in 1..begun' BY <2>3, <2>5 DEF Sound, Later
    <2>7. Fits(c.m) \/ link'.foreign BY <2>3 DEF Sound, Later
    <2>8. c.i \in 1..Total(c.m) BY <2>3 DEF Sound
    <2> QED BY ONLY <2>4, <2>6, <2>7, <2>8 DEF Sound
  <1>3. ASSUME NEW j \in 1..Size', j < Size' PROVE Follows(Line[j], Line[j + 1])'
    <2>1. /\ j + d \in 1..Size /\ j + d < Size /\ j + 1 \in 1..Size' /\ (j + 1) + d = (j + d) + 1
      <3>1. PICK a \in Nat, b \in Nat : a = Size /\ b = Size' BY <1>1
      <3>2. b + d <= a /\ j \in 1..b /\ j < b BY <1>3, <3>1 DEF Slides
      <3>3. j + d \in 1..a /\ j + d < a /\ j + 1 \in 1..b /\ (j + 1) + d = (j + d) + 1
        BY ONLY <3>2, Within
      <3> QED BY <3>1, <3>3
    <2>2. PICK c, e : c = Line[j + d] /\ e = Line[(j + d) + 1] OBVIOUS
    <2>3. Follows(c, e) BY <2>1, <2>2 DEF Linked
    <2>4. Line'[j] = c /\ Line'[j + 1] = e BY <2>1, <2>2 DEF Slides
    <2>5. torn \subseteq torn' BY DEF Later
    <2>6. \/ e.m = c.m /\ e.n = c.n /\ e.i = c.i + 1
          \/ /\ e.i = 1 /\ e.n > c.n /\ (c.i = Total(c.m) \/ c.n \in torn')
             /\ (c.n + 1)..(e.n - 1) \subseteq torn'
      BY ONLY <2>3, <2>5 DEF Follows, Ended
    <2> QED BY ONLY <2>4, <2>6 DEF Follows, Ended
  <1> QED BY <1>2, <1>3 DEF Linked

\* Encode puts a frame behind everything else.
LEMMA EncodePlaces ==
  ASSUME Types, Types', NEW m \in Messages, Encode(m)
  PROVE  /\ out = <<>> /\ Size = Arrived /\ Arrived' = Arrived /\ Size' = Size + Total(m)
         /\ \A j \in 1..Size : Line'[j] = Line[j]
         /\ \A k \in 1..Total(m) : Line'[Size + k] = [m |-> m, n |-> begun', i |-> k]
         /\ Len(out') = Total(m)
         /\ \A k \in 1..Total(m) : out'[k] = [m |-> m, n |-> begun', i |-> k]
  <1>1. Len(buf) \in Nat /\ Len(wire) \in Nat /\ Len(out) = 0
    BY Sizes DEF Encode, MayWrite
  <1>2. out' = Frame(m, begun') /\ buf' = buf /\ wire' = wire /\ out = <<>> /\ begun' \in Nat
    BY DEF Encode, MayWrite, Types, readVars
  <1>3. /\ Len(out') = Total(m) /\ Total(m) \in Nat
        /\ \A k \in 1..Total(m) : out'[k] = [m |-> m, n |-> begun', i |-> k]
    BY <1>2, FrameIsSeq, Lengths
  <1>4. Len(buf') = Len(buf) /\ Len(wire') = Len(wire) BY <1>2
  <1>5. Size = Arrived /\ Arrived' = Arrived /\ Size' = Size + Total(m) /\ Size \in Nat
    BY ONLY <1>1, <1>3, <1>4 DEF Size, Arrived
  <1>6. ASSUME NEW j \in 1..Size PROVE Line'[j] = Line[j]
    <2>1. j <= Arrived /\ j \in 1..Size' BY <1>3, <1>5
    <2> QED BY <1>2, <1>5, <2>1, Lines
  <1>7. ASSUME NEW k \in 1..Total(m) PROVE Line'[Size + k] = out'[k]
    <2>0. Arrived' = Len(buf) + Len(wire) BY ONLY <1>4 DEF Arrived
    <2>1. /\ Size + k \in 1..Size' /\ ~(Size + k <= Len(buf')) /\ ~(Size + k <= Arrived')
          /\ (Size + k) - Arrived' = k
      BY ONLY <1>1, <1>3, <1>4, <1>5, <2>0, k \in 1..Total(m)
    <2> QED BY <2>1, Lines
  <1> QED BY <1>2, <1>3, <1>5, <1>6, <1>7

LEMMA EncodeLinks ==
  ASSUME IInv, Types', NEW m \in Messages, Encode(m)
  PROVE  Linked' /\ Last' /\ Rest' /\ Uncut'
  <1>t. Types /\ Linked /\ Last /\ Uncut BY DEF IInv
  <1>1. /\ out = <<>> /\ Size = Arrived /\ Arrived' = Arrived /\ Size' = Size + Total(m)
        /\ \A j \in 1..Size : Line'[j] = Line[j]
        /\ \A k \in 1..Total(m) : Line'[Size + k] = [m |-> m, n |-> begun', i |-> k]
        /\ Len(out') = Total(m)
        /\ \A k \in 1..Total(m) : out'[k] = [m |-> m, n |-> begun', i |-> k]
    BY <1>t, EncodePlaces
  <1>2. /\ Size \in Nat /\ Total(m) \in Nat \ {0} /\ begun \in Nat /\ begun' = begun + 1
        /\ torn' = torn /\ link' = link /\ open' = open /\ open = TRUE
        /\ (Fits(m) \/ link.foreign)
    BY <1>t, Sizes, Lengths DEF Encode, MayWrite, Types
  <1>3. ASSUME NEW j \in 1..Size' PROVE Sound(Line[j])'
    <2>1. CASE j \in 1..Size
      <3>1. PICK c : c = Line[j] OBVIOUS
      <3>2. Sound(c) /\ Line'[j] = c BY <1>1, <1>t, <2>1, <3>1 DEF Linked
      <3>3. c.i \in 1..Total(c.m) /\ c.n \in 1..begun' /\ (Fits(c.m) \/ link'.foreign)
        BY <1>2, <3>2 DEF Sound
      <3> QED BY ONLY <3>2, <3>3 DEF Sound
    <2>2. CASE ~(j \in 1..Size)
      <3>1. PICK k \in 1..Total(m) : j = Size + k
        <4>1. j - Size \in 1..Total(m) /\ j = Size + (j - Size) BY <1>1, <1>2, <2>2
        <4> QED BY <4>1
      <3>2. Line'[j] = [m |-> m, n |-> begun', i |-> k] BY <1>1, <3>1
      <3>3. /\ Line'[j].m = m /\ Line'[j].n = begun' /\ Line'[j].i = k BY <3>2
      <3>4. begun' \in 1..begun' /\ (Fits(m) \/ link'.foreign) BY <1>2
      <3> QED BY ONLY <3>3, <3>4, <3>1 DEF Sound
    <2> QED BY <2>1, <2>2
  <1>4. ASSUME NEW j \in 1..Size', j < Size' PROVE Follows(Line[j], Line[j + 1])'
    <2>1. CASE j < Size
      <3>0. j \in 1..Size /\ j + 1 \in 1..Size BY <1>2, <2>1
      <3>1. PICK c, e : c = Line[j] /\ e = Line[j + 1] OBVIOUS
      <3>2. Follows(c, e) /\ Line'[j] = c /\ Line'[j + 1] = e BY <1>1, <1>t, <2>1, <3>0, <3>1 DEF Linked
      <3>3. torn' = torn BY <1>2
      <3> QED BY ONLY <3>2, <3>3 DEF Follows, Ended
    <2>2. CASE j = Size
      <3>0. j \in 1..Size /\ j + 1 = Size + 1 /\ 1 \in 1..Total(m) BY <1>2, <2>2
      <3>1. PICK c : c = Line[Size] OBVIOUS
      <3>2. Line'[j] = c /\ Ended(c) /\ (c.n + 1)..begun \subseteq torn
        BY <1>1, <1>2, <1>t, <2>2, <3>0, <3>1 DEF Last
      <3>3. /\ Line'[j + 1].n = begun' /\ Line'[j + 1].i = 1
        <4>1. Line'[j + 1] = [m |-> m, n |-> begun', i |-> 1] BY <1>1, <3>0
        <4> QED BY <4>1
      <3>4. c.n \in 1..begun BY <1>t, <2>2, <3>0, <3>1 DEF Linked, Sound
      <3>5. begun' > c.n /\ (c.n + 1)..(begun' - 1) \subseteq torn' /\ torn' = torn
        BY <1>2, <3>2, <3>4
      <3> QED BY ONLY <3>2, <3>3, <3>5 DEF Follows, Ended
    <2>3. CASE j > Size
      <3>1. PICK k \in 1..Total(m) : j = Size + k /\ k + 1 \in 1..Total(m) /\ j + 1 = Size + (k + 1)
        <4>1. /\ j - Size \in 1..Total(m) /\ j = Size + (j - Size)
              /\ (j - Size) + 1 \in 1..Total(m) /\ j + 1 = Size + ((j - Size) + 1)
          BY <1>1, <1>2, <1>4, <2>3
        <4> QED BY <4>1
      <3>2. /\ Line'[j] = [m |-> m, n |-> begun', i |-> k]
            /\ Line'[j + 1] = [m |-> m, n |-> begun', i |-> k + 1]
        BY <1>1, <3>1
      <3>3. /\ Line'[j].m = m /\ Line'[j].n = begun' /\ Line'[j].i = k
            /\ Line'[j + 1].m = m /\ Line'[j + 1].n = begun' /\ Line'[j + 1].i = k + 1
        BY <3>2
      <3> QED BY ONLY <3>3 DEF Follows
    <2> QED BY <1>1, <1>2, <2>1, <2>2, <2>3
  <1>5. Linked' BY <1>3, <1>4 DEF Linked
  <1>6. Last'
    <2>1. Line'[Size'] = [m |-> m, n |-> begun', i |-> Total(m)] BY <1>1, <1>2
    <2>2. Line'[Size'].m = m /\ Line'[Size'].n = begun' /\ Line'[Size'].i = Total(m) BY <2>1
    <2>3. (begun' + 1)..begun' = {} BY <1>2
    <2> QED BY <2>2, <2>3 DEF Last, Ended
  <1>7. Rest'
    <2>1. ASSUME NEW k \in 1..Len(out')
          PROVE  /\ out'[k].m = out'[1].m /\ out'[k].n = begun'
                 /\ out'[k].i = Total(out'[1].m) - Len(out') + k
      <3>1. out'[k] = [m |-> m, n |-> begun', i |-> k] /\ out'[1] = [m |-> m, n |-> begun', i |-> 1]
        BY <1>1, <1>2
      <3>2. Total(m) - Len(out') + k = k BY <1>1, <1>2
      <3> QED BY <3>1, <3>2
    <2> QED BY <1>2, <2>1 DEF Rest
  <1>8. Uncut'
    <2>1. out'[1].m = m BY <1>1, <1>2
    <2>2. Arrived > 0 => Line'[Arrived] = Line[Arrived] BY <1>1, <1>2
    <2> QED BY <1>1, <1>2, <1>t, <2>1, <2>2 DEF Uncut
  <1> QED BY <1>5, <1>6, <1>7, <1>8

LEMMA PushLinks ==
  ASSUME IInv, Types', Push
  PROVE  Linked' /\ Last' /\ Rest' /\ Uncut'
  <1>t. Types /\ Linked /\ Last /\ Uncut /\ Rest BY DEF IInv
  <1>1. PICK k \in 1..Len(out) : Takes(k) /\ (link.whole => k = Len(out)) BY <1>t, PushTakes
  <1>2. /\ Slides(0) /\ Size' = Size
        /\ Len(out') = Len(out) - k /\ \A j \in 1..Len(out') : out'[j] = out[k + j]
        /\ Arrived' = Arrived + k
    BY <1>1, <1>t, PushSlides DEF Takes, readVars
  <1>3. /\ Len(out) \in Nat /\ Arrived \in Nat /\ Size \in Nat /\ Size = Arrived + Len(out)
        /\ out # <<>>
    BY <1>t, Sizes, EmptySeq DEF Size
  <1>4. link' = link /\ begun' = begun /\ torn' = torn /\ open' = open BY <1>1 DEF Takes
  <1>5. Linked' BY <1>2, <1>4, <1>t, LinkedSlides DEF Later, Types
  <1>6. \A j \in 1..Size : Line'[j] = Line[j] BY <1>2, <1>3 DEF Slides
  <1>7. Last' BY <1>2, <1>3, <1>4, <1>6, <1>t DEF Last, Ended
  <1>8. Rest'
    <2>1. open BY <1>3, <1>t DEF Rest
    <2>2. ASSUME out' # <<>>, NEW j \in 1..Len(out')
          PROVE  /\ out'[j].m = out'[1].m /\ out'[j].n = begun'
                 /\ out'[j].i = Total(out'[1].m) - Len(out') + j
      <3>1. /\ k + j \in 1..Len(out) /\ k + 1 \in 1..Len(out) /\ 1 \in 1..Len(out')
        BY <1>2, <1>3
      <3>2. out'[j] = out[k + j] /\ out'[1] = out[k + 1] BY <1>2, <3>1
      <3>3. /\ out[k + j].m = out[1].m /\ out[k + 1].m = out[1].m /\ out[k + j].n = begun
            /\ out[k + j].i = Total(out[1].m) - Len(out) + (k + j)
        BY <1>3, <1>t, <3>1 DEF Rest
      <3>4. out[1] \in Cell BY <1>3, <1>t, ElementOfSeq DEF Types
      <3>5. Total(out[1].m) \in Nat BY <3>4, Lengths DEF Cell
      <3>6. Total(out[1].m) - Len(out) + (k + j) = Total(out[1].m) - Len(out') + j
        BY <1>2, <1>3, <3>5
      <3> QED BY <1>4, <3>2, <3>3, <3>6
    <2> QED BY <1>4, <2>1, <2>2 DEF Rest
  <1>9. Uncut'
    <2>a. ASSUME link.whole
          PROVE  out' = <<>> /\ Line'[Arrived'].i = Total(Line'[Arrived'].m)
      <3>0. k = Len(out) BY <1>1, <2>a
      <3>1. k = Len(out) /\ Len(out') = 0 /\ Arrived' = Size /\ Size \in 1..Size
        BY <1>2, <1>3, <3>0
      <3>2. out' = <<>> BY <3>1, EmptySeq DEF Types
      <3>3. Line[Arrived + Len(out)] = out[Len(out)] BY <1>1, <1>t, <3>1, Places
      <3>4. /\ out[Len(out)].m = out[1].m
            /\ out[Len(out)].i = Total(out[1].m) - Len(out) + Len(out)
        BY <1>3, <1>t, <3>1 DEF Rest
      <3>5. out[1] \in Cell BY <1>3, <1>t, ElementOfSeq DEF Types
      <3>6. Total(out[1].m) \in Nat BY <3>5, Lengths DEF Cell
      <3>7. out[Len(out)].i = Total(out[1].m) BY <1>3, <3>4, <3>6
      <3> QED BY <1>3, <1>6, <3>1, <3>2, <3>3, <3>4, <3>7
    <2> QED BY <1>4, <2>a DEF Uncut
  <1> QED BY <1>5, <1>7, <1>8, <1>9

LEMMA ReadLinks ==
  ASSUME IInv, Types', ReadCell
  PROVE  Linked' /\ Last' /\ Rest' /\ Uncut'
  <1>t. Types /\ Linked /\ Last /\ Uncut /\ Rest BY DEF IInv
  <1>1. Slides(0) /\ Size' = Size /\ Arrived' = Arrived
    BY <1>t, ReadSlides DEF ReadCell, writeVars
  <1>2. link' = link /\ begun' = begun /\ torn' = torn /\ open' = open /\ out' = out
    BY DEF ReadCell, writeVars
  <1>3. Size \in Nat /\ Arrived \in Nat /\ Arrived <= Size
    BY <1>t, Sizes DEF Size, Arrived
  <1>4. Linked' BY <1>1, <1>2, <1>t, LinkedSlides DEF Later, Types
  <1>5. \A j \in 1..Size : Line'[j] = Line[j] BY <1>1, <1>3 DEF Slides
  <1>6. Last' BY <1>1, <1>2, <1>3, <1>5, <1>t DEF Last, Ended
  <1>7. Rest' BY <1>2, <1>t DEF Rest
  <1>8. Uncut' BY <1>1, <1>2, <1>3, <1>5, <1>t DEF Uncut
  <1> QED BY <1>4, <1>6, <1>7, <1>8

LEMMA CutLinks ==
  ASSUME IInv, Types', WriteTimeout \/ Close
  PROVE  Linked' /\ Last' /\ Rest' /\ Uncut'
  <1>t. Types /\ Linked /\ Last /\ Uncut /\ Rest BY DEF IInv
  <1>1. /\ out' = <<>> /\ wire' = wire /\ buf' = buf /\ link' = link /\ begun' = begun
        /\ torn \subseteq torn'
    BY DEF WriteTimeout, Close, readVars
  <1>2. Slides(0) /\ Size' = Arrived /\ Arrived' = Arrived BY <1>1, <1>t, CutSlides
  <1>3. Size \in Nat /\ Arrived \in Nat /\ Len(out) \in Nat /\ Size = Arrived + Len(out)
    BY <1>t, Sizes DEF Size, Arrived
  <1>4. Linked' BY <1>1, <1>2, <1>t, LinkedSlides DEF Later, Types
  <1>5. \A j \in 1..Arrived : Line'[j] = Line[j] BY <1>2, <1>3 DEF Slides
  <1>6. Last'
    <2> SUFFICES ASSUME WriteTimeout, Arrived > 0
                 PROVE  Ended(Line[Size])' /\ (Line'[Size'].n + 1)..begun' \subseteq torn'
      BY <1>2 DEF Last, Close
    <2>1. out # <<>> /\ torn' = torn \cup {out[1].n} BY DEF WriteTimeout
    <2>2. 1 \in 1..Len(out) /\ out[1].n = begun
      <3>1. Len(out) # 0 BY <1>t, <2>1, Sizes
      <3>2. 1 \in 1..Len(out) BY <1>3, <3>1
      <3> QED BY <1>t, <2>1, <3>2 DEF Rest
    <2>3. PICK c, e : c = Line[Arrived] /\ e = Line[Arrived + 1] OBVIOUS
    <2>4. Arrived \in 1..Size /\ Arrived < Size BY <1>3, <2>2
    <2>5. Follows(c, e) /\ Sound(c) BY <1>t, <2>3, <2>4 DEF Linked
    <2>6. e = out[1] BY <1>t, <2>2, <2>3, Places
    <2>7. begun \in Nat /\ c.n \in Nat BY <1>t, <2>5 DEF Types, Sound
    <2>8. begun \in torn' BY <2>1, <2>2
    <2>9. CASE e.n = c.n
      <3>1. c.n \in torn' BY <2>2, <2>6, <2>8, <2>9
      <3>2. (c.n + 1)..begun = {} BY <2>2, <2>6, <2>7, <2>9
      <3>3. Line'[Size'] = c BY <1>2, <1>3, <1>5, <2>3
      <3> QED BY ONLY <1>1, <3>1, <3>2, <3>3 DEF Ended
    <2>10. CASE e.n # c.n
      <3>1. Ended(c) /\ (c.n + 1)..(begun - 1) \subseteq torn BY <2>2, <2>5, <2>6, <2>10 DEF Follows
      <3>2. (c.n + 1)..begun \subseteq torn' BY <1>1, <2>7, <2>8, <3>1
      <3>3. Line'[Size'] = c BY <1>2, <1>3, <1>5, <2>3
      <3>4. c.i = Total(c.m) \/ c.n \in torn' BY <1>1, <3>1 DEF Ended
      <3> QED BY ONLY <1>1, <3>2, <3>3, <3>4 DEF Ended
    <2> QED BY <2>9, <2>10
  <1>7. Rest' BY <1>1 DEF Rest
  <1>8. Uncut' BY <1>1, <1>2, <1>3, <1>5, <1>t DEF Uncut
  <1> QED BY <1>4, <1>6, <1>7, <1>8

LEMMA DropLinks ==
  ASSUME IInv, Types', buf' = <<>>, wire' = wire, UNCHANGED writeVars
  PROVE  Linked' /\ Last' /\ Rest' /\ Uncut'
  <1>t. Types /\ Linked /\ Last /\ Uncut /\ Rest BY DEF IInv
  <1>2. link' = link /\ begun' = begun /\ torn' = torn /\ open' = open /\ out' = out
    BY DEF writeVars
  <1>1. Slides(Len(buf)) /\ Size' = Size - Len(buf) /\ Arrived' = Arrived - Len(buf)
    BY <1>2, <1>t, DropSlides
  <1>3. /\ Size \in Nat /\ Arrived \in Nat /\ Arrived <= Size /\ Len(buf) \in Nat
        /\ Len(buf) <= Arrived
    BY <1>t, Sizes DEF Size, Arrived
  <1>4. Linked' BY <1>1, <1>2, <1>3, <1>t, LinkedSlides DEF Later, Types
  <1>5. \A j \in 1..Size' : Line'[j] = Line[j + Len(buf)] BY <1>1 DEF Slides
  <1>6. Last'
    <2>1. CASE Size' > 0
      <3>1. Size' \in 1..Size' /\ Size' + Len(buf) = Size /\ Size > 0 BY <1>1, <1>3, <2>1
      <3>2. Line'[Size'] = Line[Size] BY <1>5, <3>1
      <3> QED BY <1>2, <1>t, <3>1, <3>2 DEF Last, Ended
    <2> QED BY <2>1 DEF Last
  <1>7. Rest' BY <1>2, <1>t DEF Rest
  <1>8. Uncut'
    <2>1. CASE Arrived' > 0
      <3>1. Arrived' \in 1..Size' /\ Arrived' + Len(buf) = Arrived /\ Arrived > 0
        BY <1>1, <1>3, <2>1
      <3>2. Line'[Arrived'] = Line[Arrived] BY <1>5, <3>1
      <3> QED BY <1>2, <1>t, <3>1, <3>2 DEF Uncut
    <2> QED BY <1>2, <1>t, <2>1 DEF Uncut
  <1> QED BY <1>4, <1>6, <1>7, <1>8

LEMMA LinksKept ==
  ASSUME IInv, Types', [Next]_vars
  PROVE  Linked' /\ Last' /\ Rest' /\ Uncut'
  <1>t. Types /\ Linked /\ Last /\ Uncut /\ Rest BY DEF IInv
  <1>1. CASE \E m \in Messages : RefuseToEncode(m)
    <2>1. UNCHANGED <<link, begun, out, torn, wire, buf>> /\ open' = FALSE /\ out = <<>>
      BY <1>1 DEF RefuseToEncode, MayWrite, readVars
    <2>2. Size' = Size /\ Arrived' = Arrived /\ Line' = Line BY <2>1 DEF Size, Arrived, Line
    <2> QED BY <1>t, <2>1, <2>2 DEF Linked, Last, Rest, Uncut, Sound, Follows, Ended
  <1>2. CASE Reset
    <2>1. out' = <<>> /\ wire' = <<>> /\ buf' = <<>> /\ open' = FALSE BY <1>2 DEF Reset
    <2>2. Len(out') = 0 /\ Len(wire') = 0 /\ Len(buf') = 0 BY <2>1, EmptySeq
    <2>3. Size' = 0 /\ Arrived' = 0 BY ONLY <2>2 DEF Size, Arrived
    <2>4. \A j \in 1..Size' : FALSE BY <2>3
    <2> QED BY <2>1, <2>3, <2>4 DEF Linked, Last, Rest, Uncut
  <1>3. CASE RefuseHeader BY <1>3, DropLinks DEF RefuseHeader, Fail
  <1>4. CASE Decode BY <1>4, DropLinks DEF Decode, Fail
  <1>5. CASE EndOfStream BY <1>5, DropLinks DEF EndOfStream, Fail
  <1>6. CASE Cancel BY <1>6, DropLinks DEF Cancel
  <1>7. CASE UNCHANGED vars
    <2>1. UNCHANGED <<link, begun, out, torn, open, wire, buf>> BY <1>7 DEF vars
    <2>2. Size' = Size /\ Arrived' = Arrived /\ Line' = Line BY <2>1 DEF Size, Arrived, Line
    <2> QED BY <1>t, <2>1, <2>2 DEF Linked, Last, Rest, Uncut, Sound, Follows, Ended
  <1> QED BY <1>1, <1>2, <1>3, <1>4, <1>5, <1>6, <1>7, EncodeLinks, PushLinks, ReadLinks, CutLinks
      DEF Next

(***************************************************************************)
(* The reader stays in step.                                               *)
(***************************************************************************)
\* Where the code reads messages in an arm of a select!, frames come whole: of
\* the transports only QUIC delivers them in pieces, and its control loops are
\* what WireIOCancel.cfg is about.
CancelledWhole == \A l \in Links : l.cancel => l.whole

LEMMA Bound ==
  ASSUME Types
  PROVE  \A k \in 1..Len(buf) : /\ buf[k] \in Cell /\ buf[k].m \in Messages
                                /\ buf[k].n \in Nat /\ buf[k].i \in Nat
                                /\ Total(buf[k].m) \in Nat \ {0}
                                /\ Total(buf[k].m) = HeaderLen + Length[buf[k].m]
  <1> SUFFICES ASSUME NEW k \in 1..Len(buf)
               PROVE  /\ buf[k] \in Cell /\ buf[k].m \in Messages
                      /\ buf[k].n \in Nat /\ buf[k].i \in Nat
                      /\ Total(buf[k].m) \in Nat \ {0}
                      /\ Total(buf[k].m) = HeaderLen + Length[buf[k].m]
    OBVIOUS
  <1>1. buf[k] \in Cell BY ElementOfSeq DEF Types
  <1>2. buf[k].m \in Messages /\ buf[k].n \in Nat /\ buf[k].i \in Nat BY <1>1 DEF Cell
  <1> QED BY <1>1, <1>2, Lengths

\* A reader that is in step and has a header knows it for one, and what it waits
\* for is the frame.
LEMMA Measured ==
  ASSUME Types, InStep, result = "reading", ~Astray, HeaderRead
  PROVE  /\ IsHeader(buf) /\ Intact /\ 1 \in 1..Len(buf)
         /\ Wanted = (IF HeaderAccepted THEN Total(buf[1].m) ELSE HeaderLen)
  <1>1. HeaderLen \in Nat \ {0} /\ Len(buf) \in Nat /\ HeaderLen <= Len(buf)
    BY WireAssumption, Sizes DEF HeaderRead
  <1>2. \A k \in 1..Len(buf) : buf[k].m = buf[1].m /\ buf[k].n = Len(got) + 1 /\ buf[k].i = k
    BY DEF InStep
  <1>3. 1 \in 1..Len(buf) /\ HeaderLen \in 1..Len(buf) BY <1>1
  <1>4. \A k \in 1..HeaderLen : k \in 1..Len(buf) BY <1>1
  <1>5. \A k \in 1..Len(buf) : buf[k].i = k /\ buf[k].n = buf[1].n BY <1>2, <1>3
  <1>6. IsHeader(buf) BY <1>4, <1>5 DEF IsHeader
  <1>7. Intact BY <1>5 DEF Intact
  <1>8. HeaderLen + Declared = Total(buf[1].m) BY <1>2, <1>3, Bound DEF Declared
  <1> QED BY <1>3, <1>6, <1>7, <1>8 DEF Wanted

\* A reader in step that holds the end of a frame reads no further.
LEMMA EndIsEnough ==
  ASSUME Types, InStep, result = "reading", ~Astray, Len(buf) > 0,
         buf[Len(buf)].i = Total(buf[Len(buf)].m)
  PROVE  ~(Len(buf) < Wanted)
  <1>1. HeaderLen \in Nat \ {0} /\ Len(buf) \in Nat BY WireAssumption, Sizes
  <1>2. Len(buf) \in 1..Len(buf) /\ 1 \in 1..Len(buf) BY <1>1
  <1>3. /\ buf[Len(buf)].m = buf[1].m /\ buf[Len(buf)].i = Len(buf) BY <1>2 DEF InStep
  <1>4. buf[1].m \in Messages /\ Total(buf[1].m) = HeaderLen + Length[buf[1].m] BY <1>2, Bound
  <1>5. Length[buf[1].m] \in Nat BY <1>4, Lengths
  <1>6. Len(buf) = Total(buf[1].m) BY <1>3
  <1>7. HeaderLen <= Len(buf) BY <1>1, <1>4, <1>5, <1>6
  <1>8. Wanted = (IF HeaderAccepted THEN Total(buf[1].m) ELSE HeaderLen)
    BY <1>1, <1>7, Measured DEF HeaderRead
  <1> QED BY <1>1, <1>6, <1>7, <1>8

LEMMA AstrayStays ==
  ASSUME Types, Types', Later, Len(got) <= Len(got'), Astray
  PROVE  Astray'
  <1>1. Len(got) \in Nat /\ Len(got') \in Nat BY LenProperties DEF Types
  <1>2. PICK t \in torn : t <= Len(got) + 1 BY DEF Astray
  <1>3. t \in Nat /\ t \in torn' BY <1>2 DEF Types, Later
  <1>4. t <= Len(got') + 1 BY <1>1, <1>2, <1>3
  <1> QED BY <1>3, <1>4 DEF Astray

LEMMA EncodeInStep ==
  ASSUME IInv, Types', NEW m \in Messages, Encode(m)
  PROVE  InStep'
  <1>t. Types /\ InStep BY DEF IInv
  <1>1. /\ UNCHANGED <<link, torn, open, wire, buf, got, result>> /\ begun' = begun + 1 /\ open
    BY DEF Encode, MayWrite, readVars
  <1>2. /\ Size' = Size + Total(m)
        /\ \A j \in 1..Size : Line'[j] = Line[j]
        /\ \A k \in 1..Total(m) : Line'[Size + k] = [m |-> m, n |-> begun', i |-> k]
    BY <1>t, EncodePlaces
  <1>3. Size \in Nat /\ Total(m) \in Nat \ {0} /\ Len(got) \in Nat BY <1>t, Sizes, Lengths
  <1> SUFFICES ASSUME result = "reading", ~Astray
               PROVE  /\ \A k \in 1..Len(buf) : buf[k].m = buf[1].m /\ buf[k].n = Len(got) + 1 /\ buf[k].i = k
                      /\ Line'[1].n = Len(got) + 1 /\ Line'[1].i = 1
                      /\ Size' > 0
    BY <1>1, <1>3 DEF InStep, Astray
  <1>4. Size' > 0 BY <1>2, <1>3
  <1>5. CASE Size > 0
    <2>1. Line'[1] = Line[1] BY <1>2, <1>3, <1>5
    <2> QED BY <1>4, <1>5, <1>t, <2>1 DEF InStep
  <1>6. CASE Size = 0
    <2>1. 1 \in 1..Total(m) /\ Size + 1 = 1 BY <1>3, <1>6
    <2>2. Line'[1] = [m |-> m, n |-> begun', i |-> 1] BY <1>2, <2>1
    <2>3. begun = Len(got) BY <1>1, <1>6, <1>t DEF InStep
    <2> QED BY <1>1, <1>4, <1>t, <2>2, <2>3 DEF InStep
  <1> QED BY <1>3, <1>5, <1>6

LEMMA PushInStep ==
  ASSUME IInv, Types', Push
  PROVE  InStep'
  <1>t. Types /\ InStep BY DEF IInv
  <1>1. PICK k \in 1..Len(out) : Takes(k) BY <1>t, PushTakes
  <1>2. UNCHANGED <<link, begun, torn, open, buf, got, result>> BY <1>1 DEF Takes, readVars
  <1>3. Slides(0) /\ Size' = Size BY <1>1, <1>2, <1>t, PushSlides DEF Takes
  <1>4. Size \in Nat BY <1>t, Sizes
  <1>5. Size > 0 => Line'[1] = Line[1] BY <1>3, <1>4 DEF Slides
  <1> QED BY <1>2, <1>3, <1>5, <1>t DEF InStep, Astray

LEMMA CutInStep ==
  ASSUME IInv, Types', WriteTimeout \/ Close
  PROVE  InStep'
  <1>t. Types /\ InStep /\ Rest BY DEF IInv
  <1>1. /\ out' = <<>> /\ UNCHANGED <<link, begun, wire, buf, got, result>> /\ torn \subseteq torn'
    BY DEF WriteTimeout, Close, readVars
  <1>2. Slides(0) /\ Size' = Arrived BY <1>1, <1>t, CutSlides
  <1>3. /\ Arrived \in Nat /\ Size \in Nat /\ Len(out) \in Nat /\ Size = Arrived + Len(out)
        /\ Len(got) \in Nat
    BY <1>t, Sizes DEF Size
  <1>4. ASSUME ~Astray' PROVE ~Astray BY <1>1, <1>4 DEF Astray
  <1>5. Arrived > 0 => Line'[1] = Line[1] BY <1>2, <1>3 DEF Slides
  <1>6. ASSUME result = "reading", ~Astray', Arrived = 0, open' PROVE begun = Len(got)
    <2>1. ~Astray BY <1>4, <1>6
    <2>2. WriteTimeout BY <1>6 DEF Close
    <2>3. out # <<>> /\ torn' = torn \cup {out[1].n} BY <2>2 DEF WriteTimeout
    <2>4. 1 \in 1..Len(out)
      <3>1. Len(out) # 0 BY <1>t, <2>3, Sizes
      <3> QED BY <1>3, <3>1
    <2>5. out[1].n = begun BY <1>t, <2>3, <2>4 DEF Rest
    <2>6. Line[1] = out[1] /\ Size > 0
      <3>1. Line[Arrived + 1] = out[1] BY <1>t, <2>4, Places
      <3>2. Arrived + 1 = 1 /\ Size > 0 BY <1>3, <1>6, <2>4
      <3> QED BY <3>1, <3>2
    <2>7. begun = Len(got) + 1 BY <1>6, <1>t, <2>1, <2>5, <2>6 DEF InStep
    <2>8. begun \in torn' /\ begun <= Len(got') + 1 BY <1>1, <1>3, <2>3, <2>5, <2>7
    <2> QED BY <1>6, <2>8 DEF Astray
  <1>7. Arrived > 0 => Size > 0 BY <1>3
  <1> SUFFICES ASSUME result = "reading", ~Astray'
               PROVE  /\ \A k \in 1..Len(buf) : buf[k].m = buf[1].m /\ buf[k].n = Len(got) + 1 /\ buf[k].i = k
                      /\ Arrived > 0 => Line'[1].n = Len(got) + 1 /\ Line'[1].i = 1
                      /\ Arrived = 0 /\ open' => begun = Len(got)
    BY <1>1, <1>2 DEF InStep
  <1> QED BY <1>4, <1>5, <1>6, <1>7, <1>t DEF InStep

LEMMA ReadInStep ==
  ASSUME IInv, Types', ReadCell
  PROVE  InStep'
  <1>t. Types /\ InStep /\ Linked BY DEF IInv
  <1>1. /\ UNCHANGED <<link, begun, torn, open, out, got, result>> /\ result = "reading"
        /\ wire # <<>> /\ Len(buf) < Wanted
    BY DEF ReadCell, writeVars
  <1>2. /\ Slides(0) /\ Size' = Size
        /\ Len(buf') = Len(buf) + 1 /\ buf'[Len(buf) + 1] = Line[Len(buf) + 1]
        /\ \A j \in 1..Len(buf) : buf'[j] = buf[j]
    BY <1>t, ReadSlides DEF ReadCell, writeVars
  <1>3. /\ Len(buf) \in Nat /\ Size \in Nat /\ Len(got) \in Nat /\ Len(buf) + 1 \in 1..Size
    <2>1. Len(wire) \in Nat /\ Len(wire) # 0 BY <1>1, <1>t, Sizes
    <2> QED BY <1>t, <2>1, Sizes DEF Size, Arrived
  <1>4. Line'[1] = Line[1] /\ Size > 0 BY <1>2, <1>3 DEF Slides
  <1>5. ASSUME ~Astray
        PROVE  LET d == buf'[Len(buf) + 1]
               IN  d.n = Len(got) + 1 /\ d.i = Len(buf) + 1 /\ (Len(buf) > 0 => d.m = buf[1].m)
    <2>1. CASE Len(buf) = 0 BY <1>1, <1>2, <1>4, <1>5, <1>t, <2>1 DEF InStep
    <2>2. CASE Len(buf) > 0
      <3>1. Len(buf) \in 1..Len(buf) /\ Len(buf) \in 1..Size /\ Len(buf) < Size BY <1>3, <2>2
      <3>2. PICK c, d : c = buf[Len(buf)] /\ d = Line[Len(buf) + 1] OBVIOUS
      <3>3. Line[Len(buf)] = c BY <1>t, <3>1, <3>2, Places
      <3>4. Follows(c, d) BY <1>t, <3>1, <3>2, <3>3 DEF Linked
      <3>5. c.m = buf[1].m /\ c.n = Len(got) + 1 /\ c.i = Len(buf)
        BY <1>1, <1>5, <1>t, <3>1, <3>2 DEF InStep
      <3>6. c.n \notin torn BY <1>3, <1>5, <3>5 DEF Astray
      <3>7. c.i # Total(c.m) BY <1>1, <1>5, <1>t, <2>2, <3>2, EndIsEnough
      <3>8. d.m = c.m /\ d.n = c.n /\ d.i = c.i + 1 BY <3>4, <3>6, <3>7 DEF Follows, Ended
      <3> QED BY <1>2, <3>2, <3>5, <3>8
    <2> QED BY <1>3, <2>1, <2>2
  <1>6. ASSUME ~Astray, NEW k \in 1..Len(buf')
        PROVE  buf'[k].m = buf'[1].m /\ buf'[k].n = Len(got) + 1 /\ buf'[k].i = k
    <2>1. CASE k \in 1..Len(buf)
      <3>1. 1 \in 1..Len(buf) BY <1>3, <2>1
      <3>2. buf'[k] = buf[k] /\ buf'[1] = buf[1] BY <1>2, <2>1, <3>1
      <3>3. buf[k].m = buf[1].m /\ buf[k].n = Len(got) + 1 /\ buf[k].i = k
        BY <1>1, <1>6, <1>t, <2>1 DEF InStep
      <3> QED BY <3>2, <3>3
    <2>2. CASE k = Len(buf) + 1
      <3>1. CASE Len(buf) = 0 BY <1>3, <1>5, <1>6, <2>2, <3>1
      <3>2. CASE Len(buf) > 0
        <4>1. 1 \in 1..Len(buf) BY <1>3, <3>2
        <4>2. buf'[1] = buf[1] BY <1>2, <4>1
        <4> QED BY <1>5, <1>6, <2>2, <3>2, <4>2
      <3> QED BY <1>3, <3>1, <3>2
    <2> QED BY <1>2, <1>3, <2>1, <2>2
  <1>7. Astray' = Astray BY <1>1 DEF Astray
  <1>8. ASSUME ~Astray PROVE Line'[1].n = Len(got) + 1 /\ Line'[1].i = 1
    BY <1>1, <1>4, <1>8, <1>t DEF InStep
  <1>9. Size' > 0 /\ ~(Size' = 0) BY <1>2, <1>3
  <1> QED BY <1>1, <1>6, <1>7, <1>8, <1>9 DEF InStep

\* What decode_frame has before it if the reader is in step.
LEMMA DecodeWhole ==
  ASSUME IInv, Decode, ~Astray
  PROVE  /\ Intact /\ Len(buf) \in 1..Len(buf) /\ 1 \in 1..Len(buf)
         /\ buf[1].n = Len(got) + 1
         /\ buf[Len(buf)].n = Len(got) + 1
         /\ buf[Len(buf)].i = Total(buf[Len(buf)].m)
  <1>t. Types /\ InStep BY DEF IInv
  <1>1. result = "reading" /\ HeaderRead /\ HeaderAccepted /\ Len(buf) = Wanted BY DEF Decode
  <1>2. Intact /\ 1 \in 1..Len(buf) /\ Wanted = Total(buf[1].m) BY <1>1, <1>t, Measured
  <1>3. Len(buf) \in 1..Len(buf) BY <1>2
  <1>4. /\ buf[Len(buf)].m = buf[1].m /\ buf[Len(buf)].n = Len(got) + 1
        /\ buf[Len(buf)].i = Len(buf) /\ buf[1].n = Len(got) + 1
    BY <1>1, <1>2, <1>3, <1>t DEF InStep
  <1> QED BY <1>1, <1>2, <1>3, <1>4

LEMMA DecodeInStep ==
  ASSUME IInv, Types', Decode
  PROVE  InStep'
  <1>t. Types /\ InStep /\ Linked /\ Last BY DEF IInv
  <1>1. buf' = <<>> /\ wire' = wire /\ UNCHANGED <<link, begun, out, torn, open>>
    BY DEF Decode, Fail, writeVars
  <1>2. CASE result' = "reading"
    <2>1. got' = Append(got, IF Intact THEN buf[1].n ELSE 0) BY <1>2 DEF Decode, Fail
    <2>2. Len(got) \in Nat /\ Size \in Nat /\ Len(buf) \in Nat /\ Len(buf) <= Size
          /\ Arrived \in Nat /\ Len(out) \in Nat
      BY <1>t, Sizes DEF Size, Arrived
    <2>3. Len(got') = Len(got) + 1
      <3>1. Len(buf) >= 1 BY <2>2, WireAssumption DEF Decode, HeaderRead
      <3>2. 1 \in 1..Len(buf) BY <2>2, <3>1
      <3>3. buf[1].n \in Nat BY <1>t, <3>2, Bound
      <3> QED BY <1>t, <2>1, <3>3, AppendProperties DEF Types
    <2>4. Slides(Len(buf)) /\ Size' = Size - Len(buf) BY <1>1, <1>t, DropSlides
    <2>5. Len(buf') = 0 BY <1>1, EmptySeq
    <2>6. ASSUME ~Astray' PROVE ~Astray
      BY <1>1, <1>t, <2>2, <2>3, <2>6, AstrayStays DEF Later, Types
    <2>7. ASSUME ~Astray'
          PROVE  /\ Size' > 0 => Line'[1].n = Len(got') + 1 /\ Line'[1].i = 1
                 /\ Size' = 0 /\ open => begun = Len(got')
      <3>1. /\ Len(buf) \in 1..Len(buf) /\ buf[Len(buf)].n = Len(got) + 1
            /\ buf[Len(buf)].i = Total(buf[Len(buf)].m)
        BY <2>6, <2>7, DecodeWhole
      <3>2. PICK c : c = buf[Len(buf)] OBVIOUS
      <3>3. /\ Line[Len(buf)] = c /\ Len(buf) \in 1..Size BY <1>t, <3>1, <3>2, Places
      <3>4. Len(got) + 2 \notin torn BY <1>1, <2>2, <2>3, <2>7 DEF Astray
      <3>5. Sound(c) BY <1>t, <3>3 DEF Linked
      <3>6. CASE Size' > 0
        <4>1. PICK d : d = Line[Len(buf) + 1] OBVIOUS
        <4>2. Line'[1] = d
          <5>1. 1 \in 1..Size' /\ 1 + Len(buf) = Len(buf) + 1 BY <2>2, <2>4, <3>6
          <5> QED BY <2>4, <4>1, <5>1 DEF Slides
        <4>3. Len(buf) < Size /\ Len(buf) + 1 \in 1..Size BY <2>2, <2>4, <3>6
        <4>4. Follows(c, d) /\ Sound(d) BY <1>t, <3>3, <4>1, <4>3 DEF Linked
        <4>5. c.i = Total(c.m) /\ c.n = Len(got) + 1 BY <3>1, <3>2
        <4>6. c.i \in Nat /\ d.n \in Nat BY <3>1, <3>2, <4>4, <1>t, Bound DEF Sound, Types
        <4>7. ~(d.m = c.m /\ d.i = c.i + 1) BY <4>4, <4>5, <4>6 DEF Sound
        <4>8. d.i = 1 /\ d.n > c.n /\ (c.n + 1)..(d.n - 1) \subseteq torn
          BY <4>4, <4>7 DEF Follows
        <4>9. d.n = Len(got) + 2 BY <2>2, <3>4, <4>5, <4>6, <4>8
        <4> QED BY <2>2, <2>3, <3>6, <4>2, <4>8, <4>9
      <3>7. CASE Size' = 0 /\ open
        <4>1. Size = Len(buf) /\ Size > 0 BY <2>2, <2>4, <3>1, <3>7
        <4>2. (c.n + 1)..begun \subseteq torn BY <1>t, <3>3, <3>7, <4>1 DEF Last
        <4>3. c.n = Len(got) + 1 /\ c.n \in 1..begun /\ begun \in Nat
          BY <1>t, <3>1, <3>2, <3>5 DEF Sound, Types
        <4>4. begun = Len(got) + 1 BY <2>2, <3>4, <4>2, <4>3
        <4> QED BY <2>3, <3>7, <4>4
      <3> QED BY <3>6, <3>7
    <2>8. \A k \in 1..Len(buf') : FALSE BY <2>5
    <2> QED BY <1>1, <2>7, <2>8 DEF InStep
  <1> QED BY <1>2 DEF InStep

LEMMA CancelInStep ==
  ASSUME CancelledWhole, IInv, Types', Cancel
  PROVE  InStep'
  <1>t. Types /\ InStep /\ Uncut BY DEF IInv
  <1>1. /\ link.cancel /\ result = "reading" /\ wire = <<>> /\ Len(buf) < Wanted /\ buf' = <<>>
        /\ UNCHANGED <<link, begun, out, torn, open, wire, got, result>>
    BY DEF Cancel, writeVars
  <1>2. link.whole BY <1>1, <1>t DEF CancelledWhole, Types
  <1>3. Len(buf) \in Nat /\ Len(wire) = 0 BY <1>1, <1>t, Sizes
  <1>4. ASSUME ~Astray PROVE buf' = buf
    <2> SUFFICES ASSUME Len(buf) > 0 PROVE FALSE BY <1>1, <1>3, <1>t, Sizes
    <2>1. Arrived = Len(buf) /\ Len(buf) \in 1..Len(buf) BY <1>3 DEF Arrived
    <2>2. Line[Arrived].i = Total(Line[Arrived].m) BY <1>2, <1>t, <2>1 DEF Uncut
    <2>3. Line[Len(buf)] = buf[Len(buf)] BY <1>t, <2>1, Places
    <2> QED BY <1>1, <1>4, <1>t, <2>1, <2>2, <2>3, EndIsEnough
  <1>5. ASSUME ~Astray PROVE Size' = Size /\ Line' = Line
    BY <1>1, <1>4, <1>5 DEF Size, Arrived, Line
  <1>6. Astray' = Astray BY <1>1 DEF Astray
  <1> QED BY <1>1, <1>4, <1>5, <1>6, <1>t DEF InStep

LEMMA StepKept ==
  ASSUME CancelledWhole, IInv, Types', [Next]_vars
  PROVE  InStep'
  <1>t. Types /\ InStep BY DEF IInv
  <1>1. CASE (\E m \in Messages : RefuseToEncode(m)) \/ UNCHANGED vars
    <2>1. /\ UNCHANGED <<begun, out, torn, wire, buf, got, result>> /\ (open' => open)
      BY <1>1 DEF RefuseToEncode, readVars, vars
    <2>2. Size' = Size /\ Line' = Line BY <2>1 DEF Size, Arrived, Line
    <2> QED BY <1>t, <2>1, <2>2 DEF InStep, Astray
  <1>2. CASE Reset \/ RefuseHeader \/ EndOfStream
    <2>1. result' # "reading" BY <1>2 DEF Reset, RefuseHeader, EndOfStream, Fail
    <2> QED BY <2>1 DEF InStep
  <1> QED BY <1>1, <1>2, EncodeInStep, PushInStep, CutInStep, ReadInStep, DecodeInStep, CancelInStep
      DEF Next

(***************************************************************************)
(* What the reader makes of it.                                            *)
(***************************************************************************)
LEMMA OrderKept ==
  ASSUME IInv, Types', [Next]_vars
  PROVE  InOrder'
  <1>t. Types /\ InOrder BY DEF IInv
  <1>1. CASE got' = got
    <2>1. torn \subseteq torn'
      BY DEF Next, vars, Encode, RefuseToEncode, Push, WriteTimeout, Close, Reset, ReadCell,
             RefuseHeader, Decode, EndOfStream, Cancel, readVars, writeVars
    <2> QED BY <1>1, <1>t, <2>1 DEF InOrder
  <1>2. CASE got' # got
    <2>1. Decode /\ got' = Append(got, IF Intact THEN buf[1].n ELSE 0)
      BY <1>2 DEF Next, vars, Encode, RefuseToEncode, Push, WriteTimeout, Close, Reset, ReadCell,
                  RefuseHeader, Decode, EndOfStream, Cancel, readVars, writeVars, Fail
    <2>2. Len(got) \in Nat /\ DOMAIN got = 1..Len(got) /\ torn' = torn /\ torn \subseteq Nat
      BY <1>t, <2>1, LenProperties DEF Decode, writeVars, Types
    <2>3. (IF Intact THEN buf[1].n ELSE 0) \in Nat
      <3>1. Len(buf) \in Nat /\ Len(buf) >= 1
        BY <1>t, <2>1, Sizes, WireAssumption DEF Decode, HeaderRead
      <3>2. 1 \in 1..Len(buf) BY <3>1
      <3>3. buf[1].n \in Nat BY <1>t, <3>2, Bound
      <3> QED BY <3>3
    <2>4. /\ Len(got') = Len(got) + 1 /\ \A i \in 1..Len(got) : got'[i] = got[i]
          /\ got'[Len(got) + 1] = (IF Intact THEN buf[1].n ELSE 0)
      BY <1>t, <2>1, <2>3, AppendProperties DEF Types
    <2>5. DOMAIN got' = 1..(Len(got) + 1) BY <2>4, LenProperties DEF Types
    <2>6. ASSUME NEW i \in DOMAIN got', \A t \in torn' : i < t PROVE got'[i] = i
      <3>1. CASE i \in 1..Len(got) BY <1>t, <2>2, <2>4, <2>6, <3>1 DEF InOrder
      <3>2. CASE i = Len(got) + 1
        <4>1. ~Astray
          <5> SUFFICES ASSUME NEW t \in torn, t <= Len(got) + 1 PROVE FALSE BY DEF Astray
          <5>1. i < t /\ t \in Nat BY <2>2, <2>6
          <5> QED BY <2>2, <3>2, <5>1
        <4>2. Intact /\ buf[1].n = Len(got) + 1 BY <2>1, <4>1, DecodeWhole
        <4> QED BY <2>4, <3>2, <4>2
      <3> QED BY <2>2, <2>5, <3>1, <3>2
    <2> QED BY <2>6 DEF InOrder
  <1> QED BY <1>1, <1>2

LEMMA BufferKept ==
  ASSUME IInv, Types', [Next]_vars
  PROVE  BufferBounded'
  <1>t. Types /\ BufferBounded BY DEF IInv, FailsClosed
  <1>c. HeaderLen \in Nat \ {0} /\ MaxFrame \in Nat BY WireAssumption
  <1>1. CASE ReadCell
    <2>1. Len(buf) < Wanted /\ Len(buf) \in Nat BY <1>1, <1>t, Sizes DEF ReadCell
    <2>2. Len(buf') = Len(buf) + 1 BY <1>1, <1>t, ReadSlides DEF ReadCell, writeVars
    <2>3. CASE HeaderRead /\ HeaderAccepted
      <3>1. HeaderLen \in 1..Len(buf) BY <1>c, <2>1, <2>3 DEF HeaderRead
      <3>2. Declared \in Nat /\ ~(Declared > MaxFrame)
        BY <1>t, <2>3, <3>1, Bound, Lengths DEF Declared, HeaderAccepted, TooLarge
      <3>3. Wanted = HeaderLen + Declared BY <2>3 DEF Wanted
      <3> QED BY <1>c, <2>1, <2>2, <3>2, <3>3 DEF BufferBounded
    <2>4. CASE ~(HeaderRead /\ HeaderAccepted)
      <3>1. Wanted = HeaderLen BY <2>4 DEF Wanted
      <3> QED BY <1>c, <2>1, <2>2, <3>1 DEF BufferBounded
    <2> QED BY <2>3, <2>4
  <1>2. CASE ~ReadCell
    <2>1. buf' = buf \/ buf' = <<>>
      BY <1>2 DEF Next, vars, Encode, RefuseToEncode, Push, WriteTimeout, Close, Reset,
                  RefuseHeader, Decode, EndOfStream, Cancel, readVars, writeVars, Fail
    <2>2. Len(<<>>) = 0 BY EmptySeq
    <2> QED BY <1>c, <1>t, <2>1, <2>2 DEF BufferBounded
  <1> QED BY <1>1, <1>2

LEMMA ErrorsKept ==
  ASSUME IInv, Types', [Next]_vars
  PROVE  ErrorExplained'
  <1>t. Types /\ ErrorExplained /\ Linked /\ InStep /\ Rest BY DEF IInv, FailsClosed
  <1>1. torn \subseteq torn' /\ link' = link /\ (open' => open)
    <2>1. CASE WriteTimeout
      <3>1. out # <<>> BY <2>1 DEF WriteTimeout
      <3>2. open BY <1>t, <3>1 DEF Rest
      <3> QED BY <2>1, <3>2 DEF WriteTimeout
    <2>2. CASE ~WriteTimeout
      BY <2>2 DEF Next, vars, Encode, RefuseToEncode, Push, Close, Reset, ReadCell,
                  RefuseHeader, Decode, EndOfStream, Cancel, readVars, writeVars, Fail
    <2> QED BY <2>1, <2>2
  <1>2. CASE RefuseHeader
    <2>1. result = "reading" /\ HeaderRead /\ ~HeaderAccepted /\ buf' = <<>>
      BY <1>2 DEF RefuseHeader, Fail
    <2>2. CASE ~IsHeader(buf)
      <3>1. Astray BY <1>t, <2>1, <2>2, Measured
      <3>2. torn # {} BY <3>1 DEF Astray
      <3>3. result' = "invalid" BY <1>2, <2>2 DEF RefuseHeader, Fail
      <3> QED BY <1>1, <3>2, <3>3 DEF ErrorExplained
    <2>3. CASE IsHeader(buf)
      <3>1. HeaderLen \in Nat \ {0} /\ Len(buf) \in Nat BY <1>t, WireAssumption, Sizes
      <3>2. HeaderLen \in 1..Len(buf) BY <2>1, <3>1 DEF HeaderRead
      <3>3. PICK c : c = buf[HeaderLen] OBVIOUS
      <3>4. Line[HeaderLen] = c /\ HeaderLen \in 1..Size BY <1>t, <3>2, <3>3, Places
      <3>5. Fits(c.m) \/ link.foreign BY <1>t, <3>4 DEF Linked, Sound
      <3>6. Length[c.m] > MaxFrame BY <2>1, <2>3, <3>3 DEF HeaderAccepted, TooLarge, Declared
      <3>7. Length[c.m] \in Nat /\ MaxFrame \in Nat BY <1>t, <3>2, <3>3, Bound, Lengths
      <3>8. link.foreign BY <3>5, <3>6, <3>7 DEF Fits
      <3>9. result' = "too_large" BY <1>2, <2>3 DEF RefuseHeader, Fail
      <3> QED BY <1>1, <3>8, <3>9 DEF ErrorExplained
    <2> QED BY <2>2, <2>3
  <1>3. CASE Decode
    <2>1. CASE result' = result BY <1>1, <1>t, <2>1 DEF ErrorExplained
    <2>2. CASE result' = "invalid" /\ ~Intact
      <3>1. Astray BY <1>3, <2>2, DecodeWhole
      <3>2. torn # {} BY <3>1 DEF Astray
      <3> QED BY <1>1, <2>2, <3>2 DEF ErrorExplained
    <2> QED BY <1>3, <2>1, <2>2 DEF Decode, Fail
  <1>4. CASE EndOfStream
    <2>1. result' = "truncated" /\ ~open BY <1>4 DEF EndOfStream, Fail
    <2> QED BY <1>1, <2>1 DEF ErrorExplained
  <1>5. CASE Reset
    <2>1. result' = "io" BY <1>5 DEF Reset
    <2> QED BY <2>1 DEF ErrorExplained
  <1>6. CASE ~(RefuseHeader \/ Decode \/ EndOfStream \/ Reset)
    <2>1. result' = result
      BY <1>6 DEF Next, vars, Encode, RefuseToEncode, Push, Close, WriteTimeout, ReadCell,
                  Cancel, readVars, writeVars
    <2> QED BY <1>1, <1>t, <2>1 DEF ErrorExplained
  <1> QED BY <1>2, <1>3, <1>4, <1>5, <1>6

(***************************************************************************)
(* The invariant and what follows from it.                                 *)
(***************************************************************************)
LEMMA Initially == Init => IInv
  <1> SUFFICES ASSUME Init PROVE IInv OBVIOUS
  <1>1. \A S : <<>> \in Seq(S) BY EmptySeq
  <1>2. Types BY <1>1 DEF Init, Types
  <1>3. Len(<<>>) = 0 BY EmptySeq
  <1>4. Len(buf) = 0 /\ Len(wire) = 0 /\ Len(out) = 0 /\ Len(got) = 0 BY <1>3 DEF Init
  <1>5. Size = 0 /\ Arrived = 0 BY ONLY <1>4 DEF Size, Arrived
  <1>6. \A j \in 1..Size : FALSE BY <1>5
  <1>7. Linked /\ Last BY <1>5, <1>6 DEF Linked, Last
  <1>8. InStep
    <2>1. \A k \in 1..Len(buf) : FALSE BY <1>4
    <2> QED BY <1>4, <1>5, <2>1 DEF InStep, Init
  <1>9. Rest /\ Uncut BY <1>5 DEF Rest, Uncut, Init
  <1>10. InOrder
    <2>1. DOMAIN got = 1..Len(got) BY <1>2, LenProperties DEF Types
    <2>2. \A i \in DOMAIN got : FALSE BY <1>4, <2>1
    <2> QED BY <2>2 DEF InOrder
  <1>11. FailsClosed
    <2>1. BufferBounded BY <1>4, WireAssumption DEF BufferBounded
    <2> QED BY <2>1 DEF FailsClosed, ErrorExplained, Init
  <1> QED BY <1>2, <1>7, <1>8, <1>9, <1>10, <1>11 DEF IInv

LEMMA Inductive ==
  ASSUME CancelledWhole, IInv, [Next]_vars
  PROVE  IInv'
  <1>1. Types' BY TypesKept
  <1>2. Linked' /\ Last' /\ Rest' /\ Uncut' BY <1>1, LinksKept
  <1>3. InStep' BY <1>1, StepKept
  <1>4. InOrder' BY <1>1, OrderKept
  <1>5. FailsClosed' BY <1>1, BufferKept, ErrorsKept DEF FailsClosed
  <1> QED BY <1>1, <1>2, <1>3, <1>4, <1>5 DEF IInv

\* The inductive invariant.
THEOREM Invariance ==
  ASSUME CancelledWhole
  PROVE  Spec => []IInv
  <1>1. IInv /\ [Next]_vars => IInv' BY Inductive, CancelledWhole
  <1> QED BY Initially, <1>1, PTL DEF Spec

\* Each read_message (wire_io.rs) consumes exactly one frame: as far as the first
\* frame that a write timeout tore, the messages read are those written, in their
\* order, however the transport cuts the frames and wherever a select! drops the
\* read, as long as no frame comes in pieces to a read that may be dropped.
THEOREM ReadAsWritten ==
  ASSUME CancelledWhole
  PROVE  Spec => []InOrder
  <1>1. IInv => InOrder BY DEF IInv
  <1> QED BY Invariance, <1>1, CancelledWhole, PTL

\* read_message fails for the reason it gives, and holds no more than a header and
\* MAX_FRAME_BYTES whatever the peer announces (wire_io.rs, read_message).
THEOREM ReaderFailsClosed ==
  ASSUME CancelledWhole
  PROVE  Spec => []FailsClosed
  <1>1. IInv => FailsClosed BY DEF IInv
  <1> QED BY Invariance, <1>1, CancelledWhole, PTL

=============================================================================
