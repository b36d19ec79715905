--------------------------- MODULE StreamingProofs ---------------------------
(***************************************************************************)
(* Proofs about Streaming, for answers of any length cut into chunks in    *)
(* any way: the framing of the SSE filter, the usage that the budget is    *)
(* charged, the types of what the de-anonymiser and the gate keep, the     *)
(* denied calls that the gate holds back, and the text that the client     *)
(* reads.                                                                  *)
(***************************************************************************)
EXTENDS Streaming, Induction

-----------------------------------------------------------------------------
(* The wire                                                                *)

Pieces(evs) == (1..Len(evs)) \X Range(Parts)

\* The four pieces of an event: two halves and two line ends.
LEMMA PartAt ==
  ASSUME NEW j \in 0..3
  PROVE  /\ Parts[1 + j] \in Range(Parts)
         /\ Parts[1 + j] = "tail" <=> j = 1
         /\ Parts[1 + j] = "nl" <=> j \in {2, 3}
<1>1. DOMAIN Parts = 1..4
  BY DEF Parts
<1>2. 1 + j \in DOMAIN Parts
  BY <1>1
<1>3. j = 0 \/ j = 1 \/ j = 2 \/ j = 3
  OBVIOUS
<1> QED
  BY <1>2, <1>3 DEF Parts, Range

\* Four pieces per event, in order.
LEMMA WireShape ==
  ASSUME NEW evs \in Seq(Event)
  PROVE  /\ Wire(evs) \in Seq(Pieces(evs))
         /\ Len(Wire(evs)) = 4 * Len(evs)
         /\ \A i \in 1..4 * Len(evs) :
              Wire(evs)[i] = <<1 + (i - 1) \div 4, Parts[1 + ((i - 1) % 4)]>>
<1> DEFINE n == 4 * Len(evs)
<1>1. n \in Nat /\ Len(evs) \in Nat
  BY LenProperties
<1>2. ASSUME NEW i \in 1..n
      PROVE  <<1 + (i - 1) \div 4, Parts[1 + ((i - 1) % 4)]>> \in Pieces(evs)
  <2>1. (i - 1) % 4 \in 0..3 /\ 1 + (i - 1) \div 4 \in 1..Len(evs)
    BY <1>1
  <2>2. Parts[1 + ((i - 1) % 4)] \in Range(Parts)
    BY <2>1, PartAt
  <2> QED
    BY <2>1, <2>2 DEF Pieces
<1>3. Wire(evs) \in [1..n -> Pieces(evs)]
  BY <1>2 DEF Wire
<1>4. Wire(evs) \in Seq(Pieces(evs)) /\ Len(Wire(evs)) = n
  BY <1>1, <1>3, SeqDef
<1> QED
  BY <1>4 DEF Wire

\* A blank line in whole events ends an event: after it, a multiple of four
\* pieces has gone by.
LEMMA BlankLineEndsEvent ==
  ASSUME NEW evs \in Seq(Event), NEW i \in 1..4 * Len(evs) - 1,
         Wire(evs)[i][2] = "nl", Wire(evs)[i + 1][2] = "nl"
  PROVE  (i + 1) % 4 = 0
<1>1. Len(evs) \in Nat
  BY LenProperties
<1>2. i \in 1..4 * Len(evs) /\ i + 1 \in 1..4 * Len(evs) /\ (i + 1) - 1 = i
  BY <1>1
<1>3. Parts[1 + ((i - 1) % 4)] = "nl" /\ Parts[1 + (i % 4)] = "nl"
  <2>1. /\ Wire(evs)[i] = <<1 + (i - 1) \div 4, Parts[1 + ((i - 1) % 4)]>>
        /\ Wire(evs)[i + 1] = <<1 + ((i + 1) - 1) \div 4, Parts[1 + (((i + 1) - 1) % 4)]>>
    BY <1>2, WireShape
  <2>2. Wire(evs)[i][2] = Parts[1 + ((i - 1) % 4)]
    BY <2>1
  <2>3. Wire(evs)[i + 1][2] = Parts[1 + (i % 4)]
    BY <2>1, <1>2
  <2> QED
    BY <2>2, <2>3
<1>4. (i - 1) % 4 \in {2, 3} /\ i % 4 \in {2, 3}
  <2>1. (i - 1) % 4 \in 0..3 /\ i % 4 \in 0..3
    BY <1>2
  <2> QED
    BY <1>3, <2>1, PartAt
<1> QED
  BY <1>2, <1>4

-----------------------------------------------------------------------------
(* Framing                                                                 *)

\* The variables of the wire have their types.
WireTypes ==
  /\ [cfg |-> cfg, events |-> events] \in Answers
  /\ pos \in 0..4 * Len(events)
  /\ status \in Statuses
  /\ buffer \in Seq(Pieces(events))
  /\ forwarded \in Seq(Pieces(events))

\* The client and the filter together have the first pieces sent, all of them
\* unless a denial dropped the last chunk.
NothingLost ==
  \E k \in 0..pos :
    /\ forwarded \o buffer = SubSeq(Wire(events), 1, k)
    /\ status # "denied" => k = pos

\* Without the output guard nothing is held; with it, whole events are handed
\* on until flush.
WholeEvents ==
  /\ ~cfg.output => buffer = <<>>
  /\ cfg.output /\ status # "ended" => Len(forwarded) % 4 = 0

FramingInv == WireTypes /\ NothingLost /\ WholeEvents

\* What WireTypes says of the events.
LEMMA EventsTyped ==
  ASSUME WireTypes
  PROVE  /\ events \in Seq(Event)
         /\ Len(events) \in Nat
         /\ DOMAIN events = 1..Len(events)
         /\ pos \in Nat
<1>1. events \in Seq(Event)
  BY ConstantsAssumption DEF WireTypes
<1> QED
  BY <1>1, LenProperties DEF WireTypes

\* A piece of wire has the type of the wire.
LEMMA ChunkTyped ==
  ASSUME NEW evs \in Seq(Event), NEW a \in Nat, NEW b \in Nat,
         a <= b, b <= 4 * Len(evs)
  PROVE  /\ SubSeq(Wire(evs), a + 1, b) \in Seq(Pieces(evs))
         /\ Len(SubSeq(Wire(evs), a + 1, b)) = b - a
         /\ \A i \in 1..b - a : SubSeq(Wire(evs), a + 1, b)[i] = Wire(evs)[a + i]
         /\ SubSeq(Wire(evs), 1, a) \o SubSeq(Wire(evs), a + 1, b) = SubSeq(Wire(evs), 1, b)
<1> DEFINE W == Wire(evs)  P == Pieces(evs)
<1>1. W \in Seq(P) /\ Len(W) = 4 * Len(evs)
  BY WireShape
<1> HIDE DEF W, P
<1>2. Len(evs) \in Nat
  BY LenProperties
<1>3. \A i \in a + 1..b : W[i] \in P
  BY <1>1, <1>2, ElementOfSeq
<1>4. /\ SubSeq(W, a + 1, b) \in Seq(P)
      /\ Len(SubSeq(W, a + 1, b)) = IF a + 1 <= b THEN b - (a + 1) + 1 ELSE 0
      /\ \A i \in 1..b - (a + 1) + 1 : SubSeq(W, a + 1, b)[i] = W[(a + 1) + i - 1]
  BY <1>3, SubSeqProperties, a + 1 \in Int, b \in Int
<1>5. \A i \in 1..b - a : SubSeq(W, a + 1, b)[i] = W[a + i]
  <2> SUFFICES ASSUME NEW i \in 1..b - a
               PROVE  SubSeq(W, a + 1, b)[i] = W[a + i]
    OBVIOUS
  <2>1. i \in 1..b - (a + 1) + 1 /\ (a + 1) + i - 1 = a + i
    OBVIOUS
  <2> QED
    BY <2>1, <1>4
<1>6. SubSeq(W, 1, a) \o SubSeq(W, a + 1, b) = SubSeq(W, 1, b)
  <2>1. 1 \in 1..Len(W) + 1 /\ a \in 1 - 1..Len(W) /\ b \in a..Len(W)
    BY <1>1, <1>2
  <2> QED
    BY <1>1, <2>1, ConcatAdjacentSubSeq
<1>7. Len(SubSeq(W, a + 1, b)) = b - a
  BY <1>4
<1> QED
  BY <1>4, <1>5, <1>6, <1>7 DEF W, P

\* Complete cuts the buffer after a blank line, or nowhere.
LEMMA CompleteCuts ==
  ASSUME NEW P, NEW buf \in Seq(P)
  PROVE  /\ Complete(buf) \in 0..Len(buf)
         /\ Complete(buf) # 0 => Complete(buf) - 1 \in Ends(buf)
<1>1. Len(buf) \in Nat
  BY LenProperties
<1>2. CASE Ends(buf) = {}
  BY <1>1, <1>2 DEF Complete
<1>3. CASE Ends(buf) # {}
  <2>1. Ends(buf) \in SUBSET (0..Len(buf))
    BY <1>1 DEF Ends
  <2>2. Max(Ends(buf)) \in Ends(buf)
    BY <1>1, <1>3, <2>1, MaxIsGreatest
  <2>3. Max(Ends(buf)) \in 1..Len(buf) - 1
    BY <2>2 DEF Ends
  <2>4. Complete(buf) = Max(Ends(buf)) + 1
    BY <1>3 DEF Complete
  <2> HIDE DEF Complete
  <2>5. Complete(buf) - 1 = Max(Ends(buf))
    BY <2>3, <2>4
  <2> QED
    BY <1>1, <2>2, <2>3, <2>4, <2>5
<1> QED
  BY <1>2, <1>3

\* To hand on the first c pieces of buf after f, and to keep the others, makes
\* up all of f and buf.
CutAt(P, f, buf, c) ==
  /\ f \o SubSeq(buf, 1, c) \in Seq(P)
  /\ Len(f \o SubSeq(buf, 1, c)) = Len(f) + c
  /\ SubSeq(buf, c + 1, Len(buf)) \in Seq(P)
  /\ (f \o SubSeq(buf, 1, c)) \o SubSeq(buf, c + 1, Len(buf)) = f \o buf

\* Concatenation may be regrouped.
LEMMA Regroup ==
  ASSUME NEW P, NEW f \in Seq(P), NEW b \in Seq(P), NEW w \in Seq(P)
  PROVE  (f \o b) \o w = f \o (b \o w)
BY SMT

\* Cutting a sequence and handing on its first part loses nothing.
LEMMA CutJoins ==
  ASSUME NEW P, NEW f \in Seq(P), NEW buf \in Seq(P), NEW c \in 0..Len(buf)
  PROVE  CutAt(P, f, buf, c)
<1> DEFINE now == SubSeq(buf, 1, c)  later == SubSeq(buf, c + 1, Len(buf))
<1>4. Len(buf) \in Nat /\ Len(f) \in Nat /\ c \in Nat
  BY LenProperties
<1>5. now \in Seq(P) /\ Len(now) = c /\ later \in Seq(P)
  <2>1. \A i \in 1..c : buf[i] \in P
    BY <1>4, ElementOfSeq
  <2>2. \A i \in c + 1..Len(buf) : buf[i] \in P
    BY <1>4, ElementOfSeq
  <2>3. now \in Seq(P) /\ Len(now) = IF 1 <= c THEN c - 1 + 1 ELSE 0
    BY <1>4, <2>1, SubSeqProperties, 1 \in Int, c \in Int
  <2>4. later \in Seq(P)
    BY <1>4, <2>2, SubSeqProperties, c + 1 \in Int, Len(buf) \in Int
  <2> QED
    BY <1>4, <2>3, <2>4
<1>6. now \o later = buf
  <2>1. 1 \in 1..Len(buf) + 1 /\ c \in 1 - 1..Len(buf) /\ Len(buf) \in c..Len(buf)
    BY <1>4
  <2>2. now \o later = SubSeq(buf, 1, Len(buf))
    BY <2>1, ConcatAdjacentSubSeq
  <2> QED
    BY <2>2, SubSeqFull
<1> HIDE DEF now, later
<1>7. (f \o now) \o later = f \o buf
  <2>1. now \in Seq(P) /\ later \in Seq(P)
    BY <1>5
  <2>2. (f \o now) \o later = f \o (now \o later)
    BY <2>1, SMT
  <2> QED
    BY <2>2, <1>6
<1>8. f \o now \in Seq(P) /\ Len(f \o now) = Len(f) + c
  BY <1>5, ConcatProperties
<1> QED
  BY <1>5, <1>7, <1>8 DEF now, later, CutAt

\* Where piece c - 1 of the buffer is when x pieces were handed on before.
CutIndex(x, y, z, c) ==
  /\ x + c - 1 \in 1..z - 1
  /\ x + c - 1 \in 1..x + y /\ (x + c - 1) + 1 \in 1..x + y
  /\ ~(x + c - 1 <= x) /\ ~((x + c - 1) + 1 <= x)
  /\ (x + c - 1) - x = c - 1 /\ ((x + c - 1) + 1) - x = (c - 1) + 1

LEMMA CutIndexes ==
  ASSUME NEW x \in Nat, NEW y \in Nat, NEW z \in Nat, NEW c \in Nat,
         c >= 2, c <= y, x + y <= z
  PROVE  CutIndex(x, y, z, c)
BY DEF CutIndex

\* What is handed on ends where an event ends, if it did before.
LEMMA CutAtEvent ==
  ASSUME NEW evs \in Seq(Event), NEW q \in Nat, q <= 4 * Len(evs),
         NEW f \in Seq(Pieces(evs)), NEW buf \in Seq(Pieces(evs)),
         f \o buf = SubSeq(Wire(evs), 1, q),
         NEW c \in 0..Len(buf), c # 0 => c - 1 \in Ends(buf),
         Len(f) % 4 = 0
  PROVE  (Len(f) + c) % 4 = 0
<1> DEFINE i == Len(f) + c - 1
<1>0. Len(evs) \in Nat /\ Len(f) \in Nat /\ Len(buf) \in Nat /\ c \in Nat
  BY LenProperties
<1>1. CASE c = 0
  BY <1>0, <1>1
<1>2. CASE c # 0
  <2>1. /\ c - 1 \in 1..Len(buf) - 1
        /\ buf[c - 1][2] = "nl"
        /\ buf[(c - 1) + 1][2] = "nl"
    BY <1>2 DEF Ends
  <2>2. Len(f \o buf) = Len(f) + Len(buf)
    BY ConcatProperties
  <2>3. /\ Len(SubSeq(Wire(evs), 0 + 1, q)) = q - 0
        /\ \A j \in 1..q - 0 : SubSeq(Wire(evs), 0 + 1, q)[j] = Wire(evs)[0 + j]
    BY ChunkTyped, 0 \in Nat, 0 <= q
  <2>4. Len(SubSeq(Wire(evs), 1, q)) = q
    BY <2>3
  <2>5. \A j \in 1..q : SubSeq(Wire(evs), 1, q)[j] = Wire(evs)[j]
    BY <2>3
  <2>6. Len(f) + Len(buf) = q
    BY <2>2, <2>4
  <2>7. /\ i \in 1..4 * Len(evs) - 1 /\ i \in 1..q /\ i + 1 \in 1..q
        /\ i \in 1..Len(f) + Len(buf) /\ i + 1 \in 1..Len(f) + Len(buf)
        /\ ~(i <= Len(f)) /\ ~(i + 1 <= Len(f))
        /\ i - Len(f) = c - 1 /\ (i + 1) - Len(f) = (c - 1) + 1
    <3>1. c >= 2 /\ c <= Len(buf)
      BY <1>0, <2>1
    <3>2. 4 * Len(evs) \in Nat /\ Len(f) + Len(buf) <= 4 * Len(evs)
      BY <1>0, <2>6
    <3>3. CutIndex(Len(f), Len(buf), 4 * Len(evs), c)
      BY <1>0, <3>1, <3>2, CutIndexes
    <3> QED
      BY <2>6, <3>3 DEF CutIndex
  <2>8. (f \o buf)[i] = buf[c - 1] /\ (f \o buf)[i + 1] = buf[(c - 1) + 1]
    <3>1. \A j \in 1..Len(f) + Len(buf) :
            (f \o buf)[j] = IF j <= Len(f) THEN f[j] ELSE buf[j - Len(f)]
      BY ConcatProperties, Zenon
    <3> HIDE DEF i
    <3>2. (f \o buf)[i] = buf[i - Len(f)]
      <4>1. i \in 1..Len(f) + Len(buf) /\ ~(i <= Len(f))
        BY <2>7
      <4> QED
        BY <3>1, <4>1, Zenon
    <3>3. (f \o buf)[i + 1] = buf[(i + 1) - Len(f)]
      <4>1. i + 1 \in 1..Len(f) + Len(buf) /\ ~(i + 1 <= Len(f))
        BY <2>7
      <4> QED
        BY <3>1, <4>1, Zenon
    <3>4. i - Len(f) = c - 1 /\ (i + 1) - Len(f) = (c - 1) + 1
      BY <2>7, Zenon
    <3> QED
      BY <3>2, <3>3, <3>4, Zenon
  <2>9. (f \o buf)[i] = Wire(evs)[i] /\ (f \o buf)[i + 1] = Wire(evs)[i + 1]
    <3> HIDE DEF i
    <3> QED
      BY <2>5, <2>7
  <2>10. (i + 1) % 4 = 0
    <3> HIDE DEF i
    <3>1. Wire(evs)[i][2] = "nl" /\ Wire(evs)[i + 1][2] = "nl"
      BY <2>1, <2>8, <2>9
    <3> QED
      BY <3>1, <2>7, BlankLineEndsEvent
  <2>11. i + 1 = Len(f) + c
    BY <1>0
  <2> HIDE DEF i
  <2> QED
    BY <2>10, <2>11
<1> QED
  BY <1>1, <1>2

\* The same for a buffer b that a chunk w extends, cut after its last event.
PushAt(P, f, b, w) ==
  LET buf == b \o w
      c == Complete(buf)
  IN  /\ buf \in Seq(P)
      /\ c \in 0..Len(buf)
      /\ c # 0 => c - 1 \in Ends(buf)
      /\ f \o buf = (f \o b) \o w
      /\ CutAt(P, f, buf, c)

LEMMA PushJoins ==
  ASSUME NEW P, NEW f \in Seq(P), NEW b \in Seq(P), NEW w \in Seq(P)
  PROVE  PushAt(P, f, b, w)
<1> DEFINE buf == b \o w  c == Complete(buf)
<1>1. buf \in Seq(P)
  BY ConcatProperties
<1>2. f \o buf = (f \o b) \o w
  BY Regroup
<1> HIDE DEF buf
<1>3. c \in 0..Len(buf) /\ (c # 0 => c - 1 \in Ends(buf))
  BY <1>1, CompleteCuts
<1> HIDE DEF c
<1>4. CutAt(P, f, buf, c)
  BY <1>1, <1>3, CutJoins
<1> QED
  BY <1>1, <1>2, <1>3, <1>4, Zenon DEF buf, c, PushAt

\* The pieces of one chunk, and what is held once it is in the buffer.
LEMMA ChunkArrives ==
  ASSUME WireTypes, NEW n \in 1..Len(Wire(events)), pos + n <= Len(Wire(events))
  PROVE  /\ SubSeq(Wire(events), pos + 1, pos + n) \in Seq(Pieces(events))
         /\ pos + n \in 0..4 * Len(events)
         /\ pos + n \in Nat
         /\ n \in Nat
         /\ forwarded \o buffer = SubSeq(Wire(events), 1, pos) =>
              (forwarded \o buffer) \o SubSeq(Wire(events), pos + 1, pos + n)
                = SubSeq(Wire(events), 1, pos + n)
<1>1. events \in Seq(Event) /\ Len(events) \in Nat /\ pos \in Nat
  BY EventsTyped
<1>2. Len(Wire(events)) = 4 * Len(events)
  BY <1>1, WireShape
<1>3. n \in Nat /\ pos + n \in Nat /\ pos <= pos + n /\ pos + n <= 4 * Len(events)
  BY <1>1, <1>2
<1>4. /\ SubSeq(Wire(events), pos + 1, pos + n) \in Seq(Pieces(events))
      /\ SubSeq(Wire(events), 1, pos) \o SubSeq(Wire(events), pos + 1, pos + n)
           = SubSeq(Wire(events), 1, pos + n)
  BY <1>1, <1>3, ChunkTyped
<1>5. pos + n \in 0..4 * Len(events)
  BY <1>1, <1>3
<1>6. forwarded \o buffer = SubSeq(Wire(events), 1, pos) =>
        (forwarded \o buffer) \o SubSeq(Wire(events), pos + 1, pos + n)
          = SubSeq(Wire(events), 1, pos + n)
  BY <1>4, Zenon
<1> QED
  BY <1>3, <1>4, <1>5, <1>6, Zenon

\* SseFilter::push keeps the framing.
LEMMA PushChunkFrames ==
  ASSUME FramingInv, status = "open",
         NEW n \in 1..Len(Wire(events)), pos + n <= Len(Wire(events)),
         PushChunk(SubSeq(Wire(events), pos + 1, pos + n))
  PROVE  /\ buffer' \in Seq(Pieces(events)) /\ forwarded' \in Seq(Pieces(events))
         /\ forwarded' \o buffer' = SubSeq(Wire(events), 1, pos + n)
         /\ ~cfg.output => buffer' = <<>>
         /\ cfg.output => Len(forwarded') % 4 = 0
<1> DEFINE P == Pieces(events)  chunk == SubSeq(Wire(events), pos + 1, pos + n)
           buf == buffer \o chunk  c == Complete(buf)
<1>0. PushChunk(chunk)
  OBVIOUS
<1>1. forwarded \o buffer = SubSeq(Wire(events), 1, pos)
  BY DEF FramingInv, NothingLost
<1>2. chunk \in Seq(P) /\ (forwarded \o buffer) \o chunk = SubSeq(Wire(events), 1, pos + n)
      /\ pos + n \in 0..4 * Len(events)
  BY <1>1, ChunkArrives DEF FramingInv
<1>3. buffer \in Seq(P) /\ forwarded \in Seq(P) /\ events \in Seq(Event) /\ Len(events) \in Nat
  BY EventsTyped DEF FramingInv, WireTypes
<1>a. buffer \in Seq(P) /\ forwarded \in Seq(P) /\ chunk \in Seq(P)
  BY <1>2, <1>3
<1> HIDE DEF P, chunk
<1>4. CASE cfg.output
  <2>a. PushAt(P, forwarded, buffer, chunk)
    BY <1>a, PushJoins, Zenon
  <2>1. /\ buf \in Seq(P)
        /\ c \in 0..Len(buf)
        /\ c # 0 => c - 1 \in Ends(buf)
        /\ forwarded \o buf = (forwarded \o buffer) \o chunk
        /\ CutAt(P, forwarded, buf, c)
    BY <2>a DEF PushAt
  <2>2. /\ buffer' = SubSeq(buf, c + 1, Len(buf))
        /\ forwarded' = forwarded \o SubSeq(buf, 1, c)
    BY <1>0, <1>4 DEF PushChunk
  <2> HIDE DEF buf, c
  <2>3. forwarded \o buf = SubSeq(Wire(events), 1, pos + n)
    BY <1>2, <2>1
  <2>4. /\ forwarded' \in Seq(P) /\ buffer' \in Seq(P)
        /\ forwarded' \o buffer' = SubSeq(Wire(events), 1, pos + n)
        /\ Len(forwarded') = Len(forwarded) + c
    BY <2>1, <2>2, <2>3 DEF CutAt
  <2>5. Len(forwarded) % 4 = 0
    BY <1>4 DEF FramingInv, WholeEvents
  <2>6. pos + n \in Nat /\ pos + n <= 4 * Len(events)
    BY <1>2, <1>3
  <2>7. (Len(forwarded) + c) % 4 = 0
    BY <1>3, <2>1, <2>3, <2>5, <2>6, CutAtEvent DEF P
  <2> QED
    BY <1>4, <2>4, <2>7 DEF P
<1>5. CASE ~cfg.output
  <2>1. buffer = <<>>
    BY <1>5 DEF FramingInv, WholeEvents
  <2>2. forwarded' = forwarded \o chunk /\ buffer' = buffer
    BY <1>0, <1>5 DEF PushChunk
  <2>3. forwarded \o buffer = forwarded
    BY <1>3, <2>1, ConcatEmptySeq
  <2>4. forwarded' \in Seq(P) /\ forwarded' \o buffer' = forwarded'
    BY <1>2, <1>3, <2>1, <2>2, ConcatProperties, ConcatEmptySeq
  <2> QED
    BY <1>2, <1>3, <1>5, <2>1, <2>2, <2>3, <2>4 DEF P
<1> QED
  BY <1>4, <1>5

LEMMA FramingInit == Init => FramingInv
<1> SUFFICES ASSUME Init
             PROVE  FramingInv
  OBVIOUS
<1>1. PICK a \in Answers : cfg = a.cfg /\ events = a.events
  BY DEF Init
<1>2. a \in [cfg : Switches, events : Seq(Event)]
  BY ConstantsAssumption
<1>3. [cfg |-> cfg, events |-> events] = a /\ events \in Seq(Event)
  BY <1>1, <1>2
<1>4. Len(events) \in Nat
  BY <1>3, LenProperties
<1>5. forwarded = <<>> /\ buffer = <<>> /\ pos = 0 /\ status = "open"
  BY DEF Init
<1>6. <<>> \in Seq(Pieces(events)) /\ Len(<<>>) = 0
  BY EmptySeq
<1>7. WireTypes
  BY <1>3, <1>4, <1>5, <1>6 DEF WireTypes, Statuses
<1>8. SubSeq(Wire(events), 1, 0) = <<>>
  BY SubSeqEmpty, 1 \in Int, 0 \in Int, 0 < 1
<1>9. <<>> \o <<>> = <<>>
  BY <1>6, ConcatEmptySeq
<1>10. NothingLost
  BY <1>5, <1>8, <1>9 DEF NothingLost
<1>11. WholeEvents
  BY <1>5, <1>6 DEF WholeEvents
<1> QED
  BY <1>7, <1>10, <1>11 DEF FramingInv

LEMMA FramingStep == FramingInv /\ [Next]_vars => FramingInv'
<1> SUFFICES ASSUME FramingInv, [Next]_vars
             PROVE  FramingInv'
  OBVIOUS
<1>0. /\ WireTypes /\ NothingLost /\ WholeEvents
      /\ events \in Seq(Event) /\ Len(events) \in Nat /\ pos \in Nat
  BY EventsTyped DEF FramingInv
<1>1. ASSUME NEW n \in 1..Len(Wire(events)), Chunk(n)
      PROVE  FramingInv'
  <2> DEFINE chunk == SubSeq(Wire(events), pos + 1, pos + n)
  <2>1. /\ status = "open" /\ pos + n <= Len(Wire(events)) /\ pos' = pos + n
        /\ cfg' = cfg /\ events' = events
        /\ \/ status' = "denied" /\ buffer' = buffer /\ forwarded' = forwarded
           \/ PushChunk(chunk) /\ status' = status
    BY <1>1, Zenon DEF Chunk
  <2> HIDE DEF chunk
  <2>2. pos + n \in 0..4 * Len(events) /\ n \in Nat
    BY <1>0, <1>1, <2>1, ChunkArrives
  <2>3. CASE status' = "denied" /\ buffer' = buffer /\ forwarded' = forwarded
    <3>1. WireTypes'
      BY <1>0, <2>1, <2>2, <2>3 DEF WireTypes, Statuses
    <3>2. forwarded \o buffer = SubSeq(Wire(events), 1, pos)
      BY <1>0, <2>1 DEF NothingLost
    <3>3. pos \in 0..pos'
      BY <1>0, <2>1, <2>2
    <3>4. NothingLost'
      BY <2>1, <2>3, <3>2, <3>3 DEF NothingLost
    <3>5. WholeEvents'
      BY <1>0, <2>1, <2>3 DEF WholeEvents
    <3> QED
      BY <3>1, <3>4, <3>5 DEF FramingInv
  <2>4. CASE PushChunk(chunk) /\ status' = status
    <3>1. /\ buffer' \in Seq(Pieces(events)) /\ forwarded' \in Seq(Pieces(events))
          /\ forwarded' \o buffer' = SubSeq(Wire(events), 1, pos + n)
          /\ ~cfg.output => buffer' = <<>>
          /\ cfg.output => Len(forwarded') % 4 = 0
      BY <1>1, <2>1, <2>4, PushChunkFrames DEF chunk
    <3>2. WireTypes'
      BY <1>0, <2>1, <2>2, <2>4, <3>1 DEF WireTypes
    <3>3. pos' \in 0..pos' /\ pos' = pos + n
      BY <1>0, <2>1, <2>2
    <3>4. NothingLost'
      BY <2>1, <2>4, <3>1, <3>3 DEF NothingLost
    <3>5. WholeEvents'
      BY <2>1, <2>4, <3>1 DEF WholeEvents
    <3> QED
      BY <3>2, <3>4, <3>5 DEF FramingInv
  <2> QED
    BY <2>1, <2>3, <2>4
<1>2. ASSUME StreamEnd
      PROVE  FramingInv'
  <2>1. /\ status = "open" /\ status' = "ended"
        /\ forwarded' = forwarded \o buffer /\ buffer' = <<>>
        /\ cfg' = cfg /\ events' = events /\ pos' = pos
    BY <1>2 DEF StreamEnd
  <2>2. buffer \in Seq(Pieces(events)) /\ forwarded \in Seq(Pieces(events))
    BY <1>0 DEF WireTypes
  <2>3. forwarded \o buffer \in Seq(Pieces(events))
    BY <2>2, ConcatProperties
  <2>4. (forwarded \o buffer) \o <<>> = forwarded \o buffer /\ <<>> \in Seq(Pieces(events))
    BY <2>3, ConcatEmptySeq, EmptySeq
  <2>5. WireTypes'
    BY <1>0, <2>1, <2>3, <2>4 DEF WireTypes, Statuses
  <2>6. NothingLost'
    BY <1>0, <2>1, <2>4 DEF NothingLost
  <2>7. WholeEvents'
    BY <2>1 DEF WholeEvents
  <2> QED
    BY <2>5, <2>6, <2>7 DEF FramingInv
<1>3. ASSUME NEW s \in {"failed", "dropped"}, StreamStop(s)
      PROVE  FramingInv'
  <2>1. /\ status = "open" /\ status' = s
        /\ forwarded' = forwarded /\ buffer' = buffer
        /\ cfg' = cfg /\ events' = events /\ pos' = pos
    BY <1>3 DEF StreamStop, textVars
  <2>2. WireTypes'
    BY <1>0, <1>3, <2>1 DEF WireTypes, Statuses
  <2>3. NothingLost'
    BY <1>0, <1>3, <2>1 DEF NothingLost
  <2>4. WholeEvents'
    BY <1>0, <1>3, <2>1 DEF WholeEvents
  <2> QED
    BY <2>2, <2>3, <2>4 DEF FramingInv
<1>4. CASE UNCHANGED vars
  <2>1. /\ status' = status /\ forwarded' = forwarded /\ buffer' = buffer
        /\ cfg' = cfg /\ events' = events /\ pos' = pos
    BY <1>4 DEF vars, textVars
  <2> QED
    BY <1>0, <2>1 DEF FramingInv, WireTypes, NothingLost, WholeEvents
<1> QED
  BY <1>1, <1>2, <1>3, <1>4 DEF Next

LEMMA FramingInvariant == Spec => []FramingInv
BY FramingInit, FramingStep, PTL DEF Spec

\* A shorter first part of the wire is a prefix of a longer one.
LEMMA PrefixOfWire ==
  ASSUME NEW evs \in Seq(Event), NEW q \in Nat, q <= 4 * Len(evs), NEW k \in 0..q
  PROVE  IsPrefix(SubSeq(Wire(evs), 1, k), SubSeq(Wire(evs), 1, q))
<1> DEFINE P == Pieces(evs)  W == Wire(evs)  s == SubSeq(W, 1, k)  t == SubSeq(W, 1, q)
<1>1. Len(evs) \in Nat /\ k \in Nat /\ k <= q /\ k <= 4 * Len(evs)
  BY LenProperties
<1>2. /\ SubSeq(W, 0 + 1, k) \in Seq(P) /\ Len(SubSeq(W, 0 + 1, k)) = k - 0
      /\ \A i \in 1..k - 0 : SubSeq(W, 0 + 1, k)[i] = W[0 + i]
  BY <1>1, ChunkTyped, 0 \in Nat, 0 <= k
<1>3. /\ SubSeq(W, 0 + 1, q) \in Seq(P) /\ Len(SubSeq(W, 0 + 1, q)) = q - 0
      /\ \A i \in 1..q - 0 : SubSeq(W, 0 + 1, q)[i] = W[0 + i]
  BY <1>1, ChunkTyped, 0 \in Nat, 0 <= q
<1>4. /\ s \in Seq(P) /\ Len(s) = k /\ \A i \in 1..k : s[i] = W[i]
      /\ t \in Seq(P) /\ Len(t) = q /\ \A i \in 1..q : t[i] = W[i]
  BY <1>1, <1>2, <1>3
<1> HIDE DEF P, W, s, t
<1>5. \A i \in 1..k : t[i] \in P
  BY <1>1, <1>4, ElementOfSeq
<1>6. /\ SubSeq(t, 1, k) \in Seq(P)
      /\ Len(SubSeq(t, 1, k)) = IF 1 <= k THEN k - 1 + 1 ELSE 0
      /\ \A i \in 1..k - 1 + 1 : SubSeq(t, 1, k)[i] = t[1 + i - 1]
  BY <1>1, <1>5, SubSeqProperties, 1 \in Int, k \in Int
<1>7. Len(SubSeq(t, 1, k)) = k /\ \A i \in 1..k : SubSeq(t, 1, k)[i] = s[i]
  <2>1. \A i \in 1..k : i \in 1..k - 1 + 1 /\ 1 + i - 1 = i /\ i \in 1..q
    BY <1>1
  <2> QED
    BY <1>1, <1>4, <1>6, <2>1
<1>8. SubSeq(t, 1, k) = s
  BY <1>4, <1>6, <1>7, SeqEqual
<1>9. SubSeq(s, 1, Len(s)) = s
  BY <1>4, SubSeqFull
<1>10. IsPrefix(s, t)
  BY <1>1, <1>4, <1>8, <1>9 DEF IsPrefix
<1> QED
  BY <1>10 DEF s, t, W

\* FramingKept for every answer and every way of cutting it: SseFilter::push
\* and flush lose, repeat and reorder no byte, and hand on whole events.
THEOREM FramingCorrect == Spec => []FramingKept
<1>1. FramingInv => FramingKept
  <2> SUFFICES ASSUME FramingInv
               PROVE  FramingKept
    OBVIOUS
  <2>0. /\ events \in Seq(Event) /\ Len(events) \in Nat /\ pos \in Nat
        /\ pos <= 4 * Len(events)
    BY EventsTyped DEF FramingInv, WireTypes
  <2>1. PICK k \in 0..pos : /\ forwarded \o buffer = SubSeq(Wire(events), 1, k)
                            /\ status # "denied" => k = pos
    BY DEF FramingInv, NothingLost
  <2>2. IsPrefix(forwarded \o buffer, SubSeq(Wire(events), 1, pos))
    BY <2>0, <2>1, PrefixOfWire
  <2>3. cfg.output /\ status # "ended" => Len(forwarded) % 4 = 0
    BY DEF FramingInv, WholeEvents
  <2> QED
    BY <2>1, <2>2, <2>3 DEF FramingKept
<1> QED
  BY <1>1, FramingInvariant, PTL

-----------------------------------------------------------------------------
(* Usage                                                                   *)

\* The events whose data line ends in a stretch of the wire.
LEMMA TailsIn ==
  ASSUME NEW evs \in Seq(Event), NEW a \in Nat, NEW b \in Nat,
         a <= b, b <= 4 * Len(evs)
  PROVE  EventsWith(SubSeq(Wire(evs), a + 1, b), "tail")
           = {e \in 1..Len(evs) : a < 4 * e - 2 /\ 4 * e - 2 <= b}
<1> DEFINE w == SubSeq(Wire(evs), a + 1, b)
           E == {e \in 1..Len(evs) : a < 4 * e - 2 /\ 4 * e - 2 <= b}
<1>0. Len(evs) \in Nat
  BY LenProperties
<1>1. w \in Seq(Pieces(evs)) /\ Len(w) = b - a /\ \A i \in 1..b - a : w[i] = Wire(evs)[a + i]
  BY ChunkTyped
<1> HIDE DEF w
<1>2. Range(w) = {w[i] : i \in 1..b - a}
  BY <1>1, RangeEquality
<1>3. \A i \in 1..b - a :
        w[i] = <<1 + ((a + i) - 1) \div 4, Parts[1 + (((a + i) - 1) % 4)]>>
  <2> SUFFICES ASSUME NEW i \in 1..b - a
               PROVE  w[i] = <<1 + ((a + i) - 1) \div 4, Parts[1 + (((a + i) - 1) % 4)]>>
    OBVIOUS
  <2>1. a + i \in 1..4 * Len(evs)
    BY <1>0
  <2> QED
    BY <1>1, <2>1, WireShape
<1>4. ASSUME NEW e \in EventsWith(w, "tail")
      PROVE  e \in E
  <2>1. PICK i \in 1..b - a : e = w[i][1] /\ w[i][2] = "tail"
    BY <1>2 DEF EventsWith
  <2> DEFINE j == (a + i) - 1
  <2>2. e = 1 + j \div 4 /\ Parts[1 + (j % 4)] = "tail"
    BY <2>1, <1>3
  <2>3. j \in Nat /\ j % 4 \in 0..3
    OBVIOUS
  <2>4. j % 4 = 1
    BY <2>2, <2>3, PartAt
  <2>5. j = 4 * (j \div 4) + (j % 4) /\ j \div 4 \in Nat
    <3> HIDE DEF j
    <3> QED
      BY <2>3
  <2>6. j + 1 = 4 * e - 2 /\ e \in Nat /\ e >= 1
    <3> HIDE DEF j
    <3> QED
      BY <2>2, <2>3, <2>4, <2>5
  <2>7. a < 4 * e - 2 /\ 4 * e - 2 <= b
    BY <2>6
  <2> QED
    BY <2>6, <2>7, <1>0
<1>5. ASSUME NEW e \in E
      PROVE  e \in EventsWith(w, "tail")
  <2> DEFINE i == 4 * e - 2 - a
  <2>1. i \in 1..b - a /\ (a + i) - 1 = 4 * e - 3 /\ e \in Nat \ {0}
    BY <1>0
  <2>2. (4 * e - 3) % 4 = 1 /\ 1 + (4 * e - 3) \div 4 = e
    BY <2>1
  <2>3. Parts[1 + 1] = "tail"
    BY PartAt, 1 \in 0..3
  <2> HIDE DEF i
  <2>4. w[i] = <<e, "tail">>
    BY <1>3, <2>1, <2>2, <2>3
  <2>5. w[i] \in Range(w)
    BY <1>2, <2>1
  <2> QED
    BY <2>4, <2>5 DEF EventsWith
<1> QED
  BY <1>4, <1>5 DEF w

\* The usage reports among the pieces received.
Reports ==
  {e \in 1..Len(events) :
     4 * e - 2 <= pos /\ events[e].kind = "data" /\ events[e].usage # NoUsage}

\* last_usage is the last report received, if each was whole in some chunk
\* and no chunk had two; the end records it.
LastReport ==
  Reports \cap missed = {} /\ ~crowded =>
    lastUsage = IF Reports = {} THEN NoUsage ELSE events[Max(Reports)].usage

UsageInv ==
  /\ FramingInv
  /\ LastReport
  /\ status = "ended" => recorded = lastUsage /\ buffer = <<>>

\* What a chunk shows by itself is among the data events that end in it.
LEMMA VisibleEnd ==
  ASSUME NEW chunk
  PROVE  /\ Visible(chunk) \subseteq {e \in EventsWith(chunk, "tail") : events[e].kind = "data"}
         /\ UsageIn(chunk) = {e \in Visible(chunk) : events[e].usage # NoUsage}
BY DEF Visible, UsageIn

\* The chunk of a step, by itself: the reports that end in it are all in
\* missed or all shown, and later than those before.
LEMMA ChunkReports ==
  ASSUME FramingInv, NEW n \in 1..Len(Wire(events)), Chunk(n)
  PROVE  LET chunk == SubSeq(Wire(events), pos + 1, pos + n)
             fresh == {e \in EventsWith(chunk, "tail") :
                         events[e].kind = "data" /\ events[e].usage # NoUsage}
         IN  /\ Reports' = Reports \cup fresh
             /\ fresh \in SUBSET (1..Len(events))
             /\ \A d \in Reports, e \in fresh : d < e
             /\ fresh \cap missed' = {} => UsageIn(chunk) = fresh
<1> DEFINE chunk == SubSeq(Wire(events), pos + 1, pos + n)
           tails == EventsWith(chunk, "tail")
           fresh == {e \in tails : events[e].kind = "data" /\ events[e].usage # NoUsage}
<1>0. /\ WireTypes /\ events \in Seq(Event) /\ Len(events) \in Nat /\ pos \in Nat
  BY EventsTyped DEF FramingInv
<1>1. /\ pos + n <= Len(Wire(events)) /\ pos' = pos + n /\ events' = events
      /\ missed' = missed \cup {e \in tails : events[e].kind = "data" /\ e \notin Visible(chunk)}
  BY Zenon DEF Chunk
<1>2. pos + n \in Nat /\ pos <= pos + n /\ pos + n <= 4 * Len(events)
  BY <1>0, <1>1, WireShape
<1>3. tails = {e \in 1..Len(events) : pos < 4 * e - 2 /\ 4 * e - 2 <= pos + n}
  BY <1>0, <1>2, TailsIn
<1>4. /\ Visible(chunk) \subseteq {e \in tails : events[e].kind = "data"}
      /\ UsageIn(chunk) = {e \in Visible(chunk) : events[e].usage # NoUsage}
  BY VisibleEnd
<1> HIDE DEF chunk, tails
<1>5. ASSUME fresh \cap missed' = {}
      PROVE  UsageIn(chunk) = fresh
  BY <1>1, <1>4, <1>5
<1>6. fresh \in SUBSET (1..Len(events)) /\ \A d \in Reports, e \in fresh : d < e
  <2>1. fresh \in SUBSET (1..Len(events))
    BY <1>3
  <2>2. ASSUME NEW d \in Reports, NEW e \in fresh
        PROVE  d < e
    <3>1. d \in 1..Len(events) /\ 4 * d - 2 <= pos /\ e \in 1..Len(events) /\ pos < 4 * e - 2
      BY <1>3 DEF Reports
    <3> QED
      BY <3>1, <1>0
  <2> QED
    BY <2>1, <2>2
<1>7. Reports' = Reports \cup fresh
  <2>1. Reports' = {e \in 1..Len(events) :
                      4 * e - 2 <= pos + n /\ events[e].kind = "data" /\ events[e].usage # NoUsage}
    BY <1>1 DEF Reports
  <2>2. \A e \in 1..Len(events) :
          4 * e - 2 <= pos + n <=> 4 * e - 2 <= pos \/ (pos < 4 * e - 2 /\ 4 * e - 2 <= pos + n)
    BY <1>0, <1>2
  <2> QED
    BY <1>3, <2>1, <2>2 DEF Reports
<1> QED
  BY <1>5, <1>6, <1>7, Zenon DEF chunk, tails

LEMMA UsageStep == UsageInv /\ [Next]_vars => UsageInv'
<1> SUFFICES ASSUME UsageInv, [Next]_vars
             PROVE  UsageInv'
  OBVIOUS
<1>0. /\ FramingInv /\ LastReport
      /\ status = "ended" => recorded = lastUsage /\ buffer = <<>>
  BY DEF UsageInv
<1>f. FramingInv'
  BY <1>0, FramingStep
<1>1. ASSUME NEW n \in 1..Len(Wire(events)), Chunk(n)
      PROVE  UsageInv'
  <2> DEFINE chunk == SubSeq(Wire(events), pos + 1, pos + n)
             fresh == {e \in EventsWith(chunk, "tail") :
                         events[e].kind = "data" /\ events[e].usage # NoUsage}
  <2>1. /\ status = "open" /\ (status' = "denied" \/ status' = status) /\ events' = events
        /\ lastUsage' = UsageAfter(chunk)
        /\ missed \subseteq missed'
        /\ crowded' = (crowded \/ Cardinality(UsageIn(chunk)) > 1)
    BY <1>1, Zenon DEF Chunk
  <2>2. /\ Reports' = Reports \cup fresh
        /\ fresh \in SUBSET (1..Len(events))
        /\ \A d \in Reports, e \in fresh : d < e
        /\ fresh \cap missed' = {} => UsageIn(chunk) = fresh
    BY <1>0, <1>1, ChunkReports
  <2>3. Len(events) \in Nat
    BY <1>0, EventsTyped DEF FramingInv
  <2> HIDE DEF chunk, fresh
  <2>4. ASSUME Reports' \cap missed' = {}, ~crowded'
        PROVE  lastUsage' = IF Reports' = {} THEN NoUsage ELSE events'[Max(Reports')].usage
    <3>1. fresh \cap missed' = {} /\ Reports \cap missed = {}
      BY <2>1, <2>2, <2>4
    <3>2. UsageIn(chunk) = fresh
      BY <2>2, <3>1
    <3>3. ~crowded /\ ~(Cardinality(fresh) > 1)
      BY <2>1, <2>4, <3>2
    <3>4. lastUsage = IF Reports = {} THEN NoUsage ELSE events[Max(Reports)].usage
      BY <1>0, <3>1, <3>3 DEF LastReport
    <3>5. lastUsage' = IF fresh = {} THEN lastUsage ELSE events[Min(fresh)].usage
      BY <2>1, <3>2 DEF UsageAfter
    <3>6. CASE fresh = {}
      <4>1. Reports' = Reports
        BY <2>2, <3>6
      <4> QED
        BY <2>1, <3>4, <3>5, <3>6, <4>1
    <3>7. CASE fresh # {}
      <4>1. IsFiniteSet(fresh) /\ Cardinality(fresh) \in Nat
        <5>1. IsFiniteSet(1..Len(events))
          BY <2>3, FS_Interval, 1 \in Int
        <5> QED
          BY <2>2, <5>1, FS_Subset, FS_CardinalityType
      <4>2. Cardinality(fresh) # 0
        BY <3>7, <4>1, FS_EmptySet
      <4>3. Cardinality(fresh) = 1
        BY <3>3, <4>1, <4>2
      <4>4. PICK e : fresh = {e}
        BY <4>1, <4>3, FS_Singleton
      <4>5. Min(fresh) = e
        <5>1. fresh \in SUBSET Nat
          BY <2>2, <2>3
        <5> QED
          BY <3>7, <4>4, <5>1, MinIsLeast
      <4>6. Max(Reports') = e
        <5>1. Reports' \in SUBSET (0..Len(events)) /\ e \in Reports'
          <6>1. Reports \subseteq 1..Len(events)
            BY DEF Reports
          <6>2. fresh \subseteq 1..Len(events) /\ e \in fresh /\ Reports' = Reports \cup fresh
            BY <2>2, <4>4
          <6>3. 1..Len(events) \subseteq 0..Len(events)
            BY <2>3
          <6> HIDE DEF Reports
          <6> QED
            BY <6>1, <6>2, <6>3, Zenon
        <5>2. Max(Reports') \in Reports' /\ Max(Reports') >= e
          BY <2>3, <5>1, MaxIsGreatest
        <5>3. \A d \in Reports : d \in Nat /\ e \in Nat /\ d < e
          BY <2>2, <2>3, <4>4 DEF Reports
        <5>4. Max(Reports') \notin Reports
          BY <5>2, <5>3
        <5> QED
          BY <2>2, <4>4, <5>2, <5>4
      <4>7. Reports' # {}
        BY <2>2, <3>7
      <4> QED
        BY <2>1, <3>5, <3>7, <4>5, <4>6, <4>7
    <3> QED
      BY <3>6, <3>7
  <2>5. LastReport'
    BY <2>4 DEF LastReport
  <2>6. status' # "ended"
    BY <2>1
  <2> QED
    BY <1>f, <2>5, <2>6 DEF UsageInv
<1>2. ASSUME StreamEnd
      PROVE  UsageInv'
  <2>1. /\ events' = events /\ pos' = pos /\ recorded' = lastUsage /\ lastUsage' = lastUsage
        /\ buffer' = <<>> /\ missed' = missed /\ crowded' = crowded
    BY <1>2 DEF StreamEnd, gateVars
  <2>2. LastReport'
    BY <1>0, <2>1 DEF LastReport, Reports
  <2> QED
    BY <1>f, <2>1, <2>2 DEF UsageInv
<1>3. ASSUME NEW s \in {"failed", "dropped"}, StreamStop(s)
      PROVE  UsageInv'
  <2>1. /\ events' = events /\ pos' = pos /\ lastUsage' = lastUsage /\ status' # "ended"
        /\ missed' = missed /\ crowded' = crowded
    BY <1>3 DEF StreamStop, gateVars
  <2>2. LastReport'
    BY <1>0, <2>1 DEF LastReport, Reports
  <2> QED
    BY <1>f, <2>1, <2>2 DEF UsageInv
<1>4. CASE UNCHANGED vars
  <2>1. /\ events' = events /\ pos' = pos /\ lastUsage' = lastUsage /\ status' = status
        /\ missed' = missed /\ crowded' = crowded /\ recorded' = recorded
        /\ buffer' = buffer
    BY <1>4 DEF vars, gateVars, textVars
  <2>2. LastReport'
    BY <1>0, <2>1 DEF LastReport, Reports
  <2> QED
    BY <1>0, <1>f, <2>1, <2>2 DEF UsageInv
<1> QED
  BY <1>1, <1>2, <1>3, <1>4 DEF Next

LEMMA UsageInit == Init => UsageInv
<1> SUFFICES ASSUME Init
             PROVE  UsageInv
  OBVIOUS
<1>1. FramingInv
  BY FramingInit
<1>2. pos = 0 /\ lastUsage = NoUsage /\ status = "open"
  BY DEF Init
<1>3. Reports = {}
  <2>1. Len(events) \in Nat
    BY <1>1, EventsTyped DEF FramingInv
  <2>2. \A e \in 1..Len(events) : ~(4 * e - 2 <= 0)
    BY <2>1
  <2> QED
    BY <1>2, <2>2 DEF Reports
<1> QED
  BY <1>1, <1>2, <1>3 DEF UsageInv, LastReport

LEMMA UsageInvariant == Spec => []UsageInv
BY UsageInit, UsageStep, PTL DEF Spec

\* UsageRecorded for every answer and every way of cutting it: the budget is
\* charged the usage that the answer reported last.
THEOREM UsageCorrect == Spec => []UsageRecorded
<1>1. UsageInv => UsageRecorded
  <2> SUFFICES ASSUME UsageInv, status = "ended"
               PROVE  UsageRecorded
    BY DEF UsageRecorded
  <2>1. /\ FramingInv /\ LastReport /\ recorded = lastUsage /\ buffer = <<>>
        /\ WireTypes /\ NothingLost
    BY DEF UsageInv, FramingInv
  <2>2. /\ events \in Seq(Event) /\ Len(events) \in Nat /\ pos \in Nat
        /\ pos <= 4 * Len(events)
    BY <2>1, EventsTyped DEF WireTypes
  <2>3. EventsWith(SubSeq(Wire(events), 0 + 1, pos), "tail")
          = {e \in 1..Len(events) : 0 < 4 * e - 2 /\ 4 * e - 2 <= pos}
    BY <2>2, TailsIn, 0 \in Nat, 0 <= pos
  <2>4. forwarded \o buffer = SubSeq(Wire(events), 0 + 1, pos)
    BY <2>1, 0 + 1 = 1 DEF NothingLost
  <2>5. forwarded = forwarded \o buffer
    BY <2>1, ConcatEmptySeq DEF WireTypes
  <2>6. {e \in EventsWith(forwarded, "tail") : events[e].kind = "data" /\ events[e].usage # NoUsage}
          = Reports
    <3>1. EventsWith(forwarded, "tail") = {e \in 1..Len(events) : 0 < 4 * e - 2 /\ 4 * e - 2 <= pos}
      BY <2>3, <2>4, <2>5, Zenon
    <3>2. \A e \in 1..Len(events) : 0 < 4 * e - 2
      BY <2>2
    <3>3. EventsWith(forwarded, "tail") = {e \in 1..Len(events) : 4 * e - 2 <= pos}
      BY <3>1, <3>2
    <3> QED
      BY <3>3 DEF Reports
  <2> QED
    BY <2>1, <2>6 DEF UsageRecorded, LastReport
<1> QED
  BY <1>1, UsageInvariant, PTL

-----------------------------------------------------------------------------
(* The folds, as instances of Folding                                      *)

ObserveIn(S, g, e) == IF e \in S THEN Observe(g, e) ELSE g
ProcessIn(S, f, e) == IF e \in S THEN ProcessEvent(f, e) ELSE f
ShowIn(S, s, e) ==
  IF e \in S THEN [s EXCEPT ![events[e].choice] = @ \o events[e].text] ELSE s
PushIn(c, d, a) == PushAtom(d, a)
RestoreIn(c, t, e) == Replace(t, e.token, e.value)

Gate == INSTANCE Folding WITH Op <- ObserveIn
Filter == INSTANCE Folding WITH Op <- ProcessIn
Raw == INSTANCE Folding WITH Op <- ShowIn
Window == INSTANCE Folding WITH Op <- PushIn
Vault == INSTANCE Folding WITH Op <- RestoreIn

LEMMA GateFolds ==
  ASSUME NEW n \in Nat, DOMAIN events = 1..n, NEW start, NEW S
  PROVE  Through(Observe, start, S) = Gate!Fold(S, start, [e \in 1..n |-> e])
BY DEF Through, FoldLeftDomain, FoldLeft, MapThenFoldSet, Max, ObserveIn,
       Gate!Fold, Gate!FoldLeft, Gate!MapThenFoldSet, Gate!Max

LEMMA FilterFolds ==
  ASSUME NEW n \in Nat, DOMAIN events = 1..n, NEW start, NEW S
  PROVE  Through(ProcessEvent, start, S) = Filter!Fold(S, start, [e \in 1..n |-> e])
BY DEF Through, FoldLeftDomain, FoldLeft, MapThenFoldSet, Max, ProcessIn,
       Filter!Fold, Filter!FoldLeft, Filter!MapThenFoldSet, Filter!Max

LEMMA RawFolds ==
  ASSUME NEW n \in Nat, DOMAIN events = 1..n, NEW evs
  PROVE  ShowRaw(evs) = Raw!Fold(evs, shown, [e \in 1..n |-> e])
BY DEF ShowRaw, Through, FoldLeftDomain, FoldLeft, MapThenFoldSet, Max, ShowIn,
       Raw!Fold, Raw!FoldLeft, Raw!MapThenFoldSet, Raw!Max

LEMMA WindowFolds ==
  ASSUME NEW d, NEW t, NEW c
  PROVE  FoldLeft(PushAtom, d, t) = Window!Fold(c, d, t)
BY DEF FoldLeft, MapThenFoldSet, Max, PushIn,
       Window!Fold, Window!FoldLeft, Window!MapThenFoldSet, Window!Max

LEMMA VaultFolds ==
  ASSUME NEW t, NEW q, NEW c
  PROVE  Restore(t, q) = Vault!Fold(c, t, q)
BY DEF Restore, FoldLeft, MapThenFoldSet, Max, RestoreIn,
       Vault!Fold, Vault!FoldLeft, Vault!MapThenFoldSet, Vault!Max

-----------------------------------------------------------------------------
(* Types                                                                   *)

LEMMA RestoreTyped ==
  ASSUME NEW t \in Seq(Atoms)
  PROVE  Restore(t, Entries) \in Seq(Atoms)
<1>1. Len(Entries) \in Nat /\ DOMAIN Entries = 1..Len(Entries)
  BY ConstantsAssumption, LenProperties
<1>2. ASSUME NEW s \in Seq(Atoms), NEW k \in 1..Len(Entries)
      PROVE  RestoreIn(0, s, Entries[k]) \in Seq(Atoms)
  <2>1. Entries[k].value \in Seq(Atoms)
    <3>1. Entries[k] \in [token : Seq(Atoms), value : Seq(Atoms)]
      BY <1>1, ConstantsAssumption, ElementOfSeq
    <3> QED BY <3>1
  <2> QED BY <2>1, ReplaceTyped DEF RestoreIn
<1>3. Vault!Fold(0, t, Entries) \in Seq(Atoms)
  BY <1>1, <1>2, Vault!FoldKeeps
<1> QED BY <1>3, VaultFolds

LEMMA FilterTyped ==
  ASSUME NEW t \in Seq(Atoms)
  PROVE  FilterOutput(t) \in Seq(Atoms) /\ DOMAIN FilterOutput(t) = 1..Len(t)
<1>1. Len(t) \in Nat /\ DOMAIN t = 1..Len(t) /\ \A i \in 1..Len(t) : t[i] \in Atoms
  BY LenProperties, ElementOfSeq
<1>2. FilterOutput(t) \in [1..Len(t) -> Atoms]
  <2>1. Stars \in Atoms
    BY AtomsAssumption
  <2>2. FilterOutput(t) = [i \in 1..Len(t) |->
          IF Masks(t, i) THEN Stars ELSE t[i]]
    BY <1>1, Zenon DEF FilterOutput
  <2>3. \A i \in 1..Len(t) :
          (IF Masks(t, i) THEN Stars ELSE t[i]) \in Atoms
    BY <1>1, <2>1
  <2> QED BY <2>2, <2>3
<1> QED BY <1>1, <1>2, SeqDef

\* A window: it starts with its bracket, is not closed, and is not too long.
Windows ==
  {w \in Seq(Atoms) :
     /\ w # <<>> => w[1] = Open /\ Close \notin Range(w)
     /\ Len(w) < MaxPending}

LEMMA PushTyped ==
  ASSUME NEW d \in [pending : Windows, out : Seq(Atoms)], NEW a \in Atoms
  PROVE  PushAtom(d, a) \in [pending : Windows, out : Seq(Atoms)]
<1> DEFINE w == d.pending  o == d.out  window == Append(w, a)
<1>1. w \in Seq(Atoms) /\ o \in Seq(Atoms) /\ w \in Windows
  BY DEF Windows
<1>m. MaxPending \in Nat /\ MaxPending > 1
  BY ConstantsAssumption
<1>e. <<>> \in Windows
  <2>1. <<>> \in Seq(Atoms) /\ Len(<<>>) = 0
    BY EmptySeq
  <2> QED BY <1>m, <2>1 DEF Windows
<1>2. window \in Seq(Atoms) /\ Len(window) = Len(w) + 1 /\ Len(w) \in Nat
      /\ window[Len(w) + 1] = a /\ \A i \in 1..Len(w) : window[i] = w[i]
  BY <1>1, AppendProperties, LenProperties
<1>3. Range(window) = Range(w) \cup {a}
  <2>1. Range(window) = {window[i] : i \in 1..Len(w) + 1} /\ Range(w) = {w[i] : i \in 1..Len(w)}
    BY <1>1, <1>2, RangeEquality
  <2>2. \A i \in 1..Len(w) + 1 : i = Len(w) + 1 \/ i \in 1..Len(w)
    BY <1>2
  <2>3. \A i \in 1..Len(w) : i \in 1..Len(w) + 1
    BY <1>2
  <2>4. Len(w) + 1 \in 1..Len(w) + 1
    BY <1>2
  <2> QED BY <1>2, <2>1, <2>2, <2>3, <2>4
<1>4. Append(o, a) \in Seq(Atoms) /\ o \o window \in Seq(Atoms)
      /\ o \o Restore(window, Entries) \in Seq(Atoms)
  BY <1>1, <1>2, RestoreTyped, AppendProperties, ConcatProperties
<1>d. d = [pending |-> w, out |-> o]
  OBVIOUS
<1> HIDE DEF w, o, window
<1>5. CASE w = <<>> /\ a = Open
  <2>1. Len(w) = 0 /\ Range(w) = {}
    <3>1. Range(w) = {w[i] : i \in 1..Len(w)}
      BY <1>1, RangeEquality
    <3>2. Len(w) = 0
      BY <1>5, EmptySeq
    <3> QED BY <3>1, <3>2
  <2>2. window \in Windows
    <3>1. window[1] = Open /\ Len(window) = 1
      BY <1>2, <1>5, <2>1
    <3>2. Close \notin Range(window)
      BY <1>3, <1>5, <2>1 DEF Open, Close
    <3> QED BY <1>2, <1>m, <3>1, <3>2 DEF Windows
  <2>3. PushAtom(d, a) = [d EXCEPT !.pending = window]
    BY <1>5, Zenon DEF PushAtom, w, window
  <2> QED BY <1>1, <1>d, <2>2, <2>3
<1>6. CASE w = <<>> /\ a # Open
  <2>1. PushAtom(d, a) = [d EXCEPT !.out = Append(@, a)]
    BY <1>6, Zenon DEF PushAtom, w
  <2>2. PushAtom(d, a) = [pending |-> w, out |-> Append(o, a)]
    BY <1>d, <2>1
  <2> QED BY <1>1, <1>4, <2>2
<1>7. CASE w # <<>> /\ a = Close
  <2>1. PushAtom(d, a) = [pending |-> <<>>, out |-> o \o Restore(window, Entries)]
    BY <1>7, Zenon DEF PushAtom, w, window, o
  <2> QED BY <1>4, <1>e, <2>1
<1>8. CASE w # <<>> /\ a # Close /\ Len(window) >= MaxPending
  <2>1. PushAtom(d, a) = [pending |-> <<>>, out |-> o \o window]
    BY <1>8, Zenon DEF PushAtom, w, window, o
  <2> QED BY <1>4, <1>e, <2>1
<1>9. CASE w # <<>> /\ a # Close /\ ~(Len(window) >= MaxPending)
  <2>1. PushAtom(d, a) = [d EXCEPT !.pending = window]
    BY <1>9, Zenon DEF PushAtom, w, window
  <2>2. w[1] = Open /\ Close \notin Range(w) /\ 1 \in 1..Len(w)
    <3>1. Len(w) # 0
      BY <1>1, <1>9, EmptySeq
    <3> QED BY <1>1, <1>2, <1>9, <3>1 DEF Windows
  <2>3. window \in Windows
    BY <1>2, <1>3, <1>9, <1>m, <2>2 DEF Windows
  <2> QED BY <1>1, <1>d, <2>1, <2>3
<1> QED BY <1>5, <1>6, <1>7, <1>8, <1>9

LEMMA WindowTyped ==
  ASSUME NEW w \in Windows, NEW t \in Seq(Atoms)
  PROVE  FoldLeft(PushAtom, [pending |-> w, out |-> <<>>], t)
           \in [pending : Windows, out : Seq(Atoms)]
<1> DEFINE A == [pending : Windows, out : Seq(Atoms)]  d == [pending |-> w, out |-> <<>>]
<1>1. Len(t) \in Nat /\ DOMAIN t = 1..Len(t) /\ \A k \in 1..Len(t) : t[k] \in Atoms
  BY LenProperties, ElementOfSeq
<1>2. d \in A
  BY EmptySeq
<1>3. \A x \in A : \A k \in 1..Len(t) : PushIn(0, x, t[k]) \in A
  BY <1>1, PushTyped DEF PushIn
<1> HIDE DEF A, d
<1>4. Window!Fold(0, d, t) \in A
  BY <1>1, <1>2, <1>3, Window!FoldKeeps
<1> QED BY <1>4, WindowFolds DEF A, d

\* What the filter makes of an event.
LEMMA ProcessTyped ==
  ASSUME WireTypes, NEW f \in [pending : Windows, shown : [ChoiceIds -> Seq(Atoms)]],
         NEW e \in DOMAIN events
  PROVE  ProcessEvent(f, e) \in [pending : Windows, shown : [ChoiceIds -> Seq(Atoms)]]
<1> DEFINE t == FilterOutput(events[e].text)
           folded == FoldLeft(PushAtom, [pending |-> f.pending, out |-> <<>>], t)
           d == IF Reversible THEN folded ELSE [pending |-> f.pending, out |-> t]
           c == events[e].choice
<1>1. events[e] \in Event
  BY EventsTyped, ElementOfSeq
<1>2. events[e].text \in Seq(Atoms) /\ c \in ChoiceIds
  BY <1>1 DEF Event
<1>3. t \in Seq(Atoms)
  BY <1>2, FilterTyped
<1>4. folded \in [pending : Windows, out : Seq(Atoms)]
  BY <1>3, WindowTyped
<1> HIDE DEF t, folded, c
<1>5. d \in [pending : Windows, out : Seq(Atoms)]
  BY <1>3, <1>4
<1> DEFINE x == events[e].text
<1>6. ProcessEvent(f, e) = IF events[e].kind # "data" THEN f
        ELSE IF SaysDone(e) THEN [f EXCEPT !.shown[c] = @ \o x]
        ELSE [pending |-> d.pending, shown |-> [f.shown EXCEPT ![c] = @ \o d.out]]
  BY Zenon DEF ProcessEvent, t, folded, c
<1> HIDE DEF d, x
<1>7. ASSUME NEW u \in Seq(Atoms)
      PROVE  [f.shown EXCEPT ![c] = @ \o u] \in [ChoiceIds -> Seq(Atoms)]
  <2> DEFINE y == f.shown[c] \o u
  <2>0. y \in Seq(Atoms)
    BY <1>2, <1>7, ConcatProperties DEF c
  <2>1. [f.shown EXCEPT ![c] = @ \o u] = [f.shown EXCEPT ![c] = y]
    OBVIOUS
  <2> HIDE DEF y
  <2>2. [f.shown EXCEPT ![c] = y] \in [ChoiceIds -> Seq(Atoms)]
    BY <2>0
  <2> QED BY <2>1, <2>2
<1>8. [f.shown EXCEPT ![c] = @ \o d.out] \in [ChoiceIds -> Seq(Atoms)]
  <2> DEFINE u == d.out
  <2>1. u \in Seq(Atoms)
    BY <1>5
  <2> HIDE DEF u
  <2>2. [f.shown EXCEPT ![c] = @ \o u] \in [ChoiceIds -> Seq(Atoms)]
    BY <1>7, <2>1
  <2> QED BY <2>2 DEF u
<1>9. [f EXCEPT !.shown[c] = @ \o x] \in [pending : Windows, shown : [ChoiceIds -> Seq(Atoms)]]
  <2> DEFINE v == [f.shown EXCEPT ![c] = @ \o x]
  <2>1. v \in [ChoiceIds -> Seq(Atoms)]
    BY <1>2, <1>7 DEF x
  <2>2. [f EXCEPT !.shown[c] = @ \o x] = [f EXCEPT !.shown = v]
    OBVIOUS
  <2> HIDE DEF v
  <2> QED BY <2>1, <2>2
<1> DEFINE raw == [f EXCEPT !.shown[c] = @ \o x]
           seen == [pending |-> d.pending, shown |-> [f.shown EXCEPT ![c] = @ \o d.out]]
<1>10. seen \in [pending : Windows, shown : [ChoiceIds -> Seq(Atoms)]]
  BY <1>5, <1>8
<1>11. ProcessEvent(f, e) \in {f, raw, seen}
  BY <1>6
<1> HIDE DEF raw, seen
<1> QED BY <1>9, <1>10, <1>11 DEF raw

LEMMA ShowTyped ==
  ASSUME WireTypes, NEW s \in [ChoiceIds -> Seq(Atoms)], NEW e \in DOMAIN events, NEW S
  PROVE  ShowIn(S, s, e) \in [ChoiceIds -> Seq(Atoms)]
<1> DEFINE c == events[e].choice  y == s[c] \o events[e].text
<1>1. events[e] \in Event
  BY EventsTyped, ElementOfSeq
<1>2. events[e].text \in Seq(Atoms) /\ c \in ChoiceIds
  BY <1>1 DEF Event
<1>3. y \in Seq(Atoms)
  BY <1>2, ConcatProperties
<1>4. ShowIn(S, s, e) = IF e \in S THEN [s EXCEPT ![c] = y] ELSE s
  BY DEF ShowIn
<1> HIDE DEF y, c
<1> QED BY <1>3, <1>4

\* The types of the de-anonymiser and of the client's text.
TextTypes ==
  /\ pending \in Windows
  /\ discarded \in Seq(Atoms)
  /\ shown \in [ChoiceIds -> Seq(Atoms)]

LEMMA RawTyped ==
  ASSUME WireTypes, shown \in [ChoiceIds -> Seq(Atoms)], NEW evs
  PROVE  ShowRaw(evs) \in [ChoiceIds -> Seq(Atoms)]
<1> DEFINE n == Len(events)  q == [e \in 1..n |-> e]  A == [ChoiceIds -> Seq(Atoms)]
<1>1. n \in Nat /\ DOMAIN events = 1..n
  BY EventsTyped
<1>2. \A s \in A : \A k \in 1..n : ShowIn(evs, s, q[k]) \in A
  BY <1>1, ShowTyped
<1>3. DOMAIN q = 1..n /\ ShowRaw(evs) = Raw!Fold(evs, shown, q)
  BY <1>1, RawFolds
<1> HIDE DEF q, A, n
<1>4. Raw!Fold(evs, shown, q) \in A
  BY <1>1, <1>2, <1>3, Raw!FoldKeeps DEF A
<1> QED BY <1>3, <1>4 DEF A

LEMMA FilteredTyped ==
  ASSUME WireTypes, TextTypes, NEW S
  PROVE  Through(ProcessEvent, [pending |-> pending, shown |-> shown], S)
           \in [pending : Windows, shown : [ChoiceIds -> Seq(Atoms)]]
<1> DEFINE n == Len(events)  q == [e \in 1..n |-> e]
           A == [pending : Windows, shown : [ChoiceIds -> Seq(Atoms)]]
           f == [pending |-> pending, shown |-> shown]
<1>1. n \in Nat /\ DOMAIN events = 1..n
  BY EventsTyped
<1>2. \A s \in A : \A k \in 1..n : ProcessIn(S, s, q[k]) \in A
  <2> SUFFICES ASSUME NEW s \in A, NEW k \in 1..n PROVE ProcessIn(S, s, q[k]) \in A
    OBVIOUS
  <2>1. ProcessEvent(s, k) \in A
    BY <1>1, ProcessTyped
  <2> HIDE DEF A
  <2> QED BY <2>1 DEF ProcessIn
<1>3. DOMAIN q = 1..n /\ Through(ProcessEvent, f, S) = Filter!Fold(S, f, q)
  BY <1>1, FilterFolds
<1>4. f \in A
  BY DEF TextTypes
<1> HIDE DEF q, A, n, f
<1>5. Filter!Fold(S, f, q) \in A
  BY <1>1, <1>2, <1>3, <1>4, Filter!FoldKeeps
<1> QED BY <1>3, <1>5 DEF A, f

\* The calls that the gate collects, by their indexes.
Collected == [name : STRING \cup {NoName}, args : Seq(STRING)]
Collections == UNION {[D -> Collected] : D \in SUBSET Nat}

CallTypes == [index : Nat, name : STRING, args : STRING]

LEMMA MergeTyped ==
  ASSUME NEW parts \in Collections, NEW call \in CallTypes
  PROVE  MergeDelta(parts, call) \in Collections
<1> DEFINE old == IF call.index \in DOMAIN parts
                  THEN parts[call.index] ELSE [name |-> NoName, args |-> <<>>]
           args == IF call.args # "" THEN Append(old.args, call.args) ELSE old.args
           name == IF call.name # NoName THEN call.name ELSE old.name
           new == [name |-> name, args |-> args]
           D == DOMAIN parts \cup {call.index}
<1>1. PICK E \in SUBSET Nat : parts \in [E -> Collected]
  BY DEF Collections
<1>2. call.index \in Nat /\ call.name \in STRING /\ call.args \in STRING
  BY DEF CallTypes
<1>3. old \in Collected
  <2>1. [name |-> NoName, args |-> <<>>] \in Collected
    BY EmptySeq DEF Collected
  <2> QED BY <1>1, <2>1
<1> HIDE DEF old
<1>4. args \in Seq(STRING)
  <2>1. old.args \in Seq(STRING)
    BY <1>3 DEF Collected
  <2>2. Append(old.args, call.args) \in Seq(STRING)
    BY <1>2, <2>1, AppendProperties
  <2> QED BY <2>1, <2>2
<1>5. name \in STRING \cup {NoName}
  BY <1>2, <1>3 DEF Collected
<1>6. MergeDelta(parts, call) = [i \in D |-> IF i = call.index THEN new ELSE parts[i]]
  BY Zenon DEF MergeDelta, old
<1> HIDE DEF args, name
<1>7. new \in Collected
  BY <1>4, <1>5 DEF Collected
<1> HIDE DEF new
<1>8. MergeDelta(parts, call) \in [D -> Collected] /\ D \in SUBSET Nat
  BY <1>1, <1>2, <1>6, <1>7
<1> QED BY <1>8 DEF Collections

LEMMA ObserveTyped ==
  ASSUME WireTypes, NEW g \in [parts : Collections, denied : BOOLEAN], NEW e \in DOMAIN events
  PROVE  Observe(g, e) \in [parts : Collections, denied : BOOLEAN]
<1> DEFINE ev == events[e]
           parts == IF ev.call = NoCall THEN g.parts ELSE MergeDelta(g.parts, ev.call)
<1>1. ev \in Event
  BY EventsTyped, ElementOfSeq
<1>2. ev.call = NoCall \/ ev.call \in CallTypes
  BY <1>1 DEF Event, CallTypes
<1>3. parts \in Collections
  BY <1>2, MergeTyped
<1>4. <<>> \in Collections
  <2>1. DOMAIN <<>> = {} /\ {} \in SUBSET Nat
    OBVIOUS
  <2>2. <<>> \in [{} -> Collected]
    BY <2>1
  <2> QED BY <2>1, <2>2 DEF Collections
<1>5. Denies(parts) \in BOOLEAN
  BY DEF Denies
<1>6. Observe(g, e) = IF g.denied THEN g
        ELSE IF ev.finish THEN [parts |-> <<>>, denied |-> Denies(parts)]
        ELSE [parts |-> parts, denied |-> FALSE]
  BY Zenon DEF Observe
<1> HIDE DEF parts, ev
<1> QED BY <1>3, <1>4, <1>5, <1>6

LEMMA GateTyped ==
  ASSUME WireTypes, partials \in Collections, NEW chunk
  PROVE  GateAfter(chunk) \in [parts : Collections, denied : BOOLEAN]
<1> DEFINE n == Len(events)  q == [e \in 1..n |-> e]  V == Visible(chunk)
           A == [parts : Collections, denied : BOOLEAN]
           g == [parts |-> partials, denied |-> FALSE]
<1>1. n \in Nat /\ DOMAIN events = 1..n
  BY EventsTyped
<1>2. \A s \in A : \A k \in 1..n : ObserveIn(V, s, q[k]) \in A
  <2> SUFFICES ASSUME NEW s \in A, NEW k \in 1..n PROVE ObserveIn(V, s, q[k]) \in A
    OBVIOUS
  <2>1. Observe(s, k) \in A
    BY <1>1, ObserveTyped
  <2> HIDE DEF A
  <2> QED BY <2>1 DEF ObserveIn
<1>3. DOMAIN q = 1..n /\ Through(Observe, g, V) = Gate!Fold(V, g, q)
  BY <1>1, GateFolds
<1>4. g \in A
  OBVIOUS
<1> HIDE DEF q, A, n, g, V
<1>5. Gate!Fold(V, g, q) \in A
  BY <1>1, <1>2, <1>3, <1>4, Gate!FoldKeeps
<1>6. GateAfter(chunk) = IF cfg.gate THEN Through(Observe, g, V) ELSE g
  BY DEF GateAfter, g, V
<1>7. GateAfter(chunk) \in A
  BY <1>3, <1>4, <1>5, <1>6
<1> QED BY <1>7 DEF A

\* TypeOK, by parts; the shape of what the gate has collected is more than it says.
TypeInv ==
  /\ FramingInv
  /\ TextTypes
  /\ partials \in Collections
  /\ {lastUsage, recorded} \subseteq Nat \cup {NoUsage}
  /\ verbatim \cup missed \subseteq 1..Len(events)
  /\ crowded \in BOOLEAN

LEMMA EventsOf ==
  ASSUME WireTypes, NEW s \in Seq(Pieces(events)), NEW part
  PROVE  EventsWith(s, part) \subseteq 1..Len(events)
<1>1. Range(s) \subseteq Pieces(events)
  BY RangeOfSeq
<1> QED BY <1>1 DEF EventsWith, Pieces

LEMMA TypeInit == Init => TypeInv
<1> SUFFICES ASSUME Init PROVE TypeInv
  OBVIOUS
<1>1. FramingInv
  BY FramingInit
<1>2. <<>> \in Seq(Atoms) /\ <<>> \in Windows
  <2>1. <<>> \in Seq(Atoms) /\ Len(<<>>) = 0
    BY EmptySeq
  <2> QED BY <2>1, ConstantsAssumption DEF Windows
<1>3. TextTypes
  BY <1>2 DEF Init, TextTypes
<1>4. <<>> \in Collections
  <2>1. DOMAIN <<>> = {} /\ {} \in SUBSET Nat
    OBVIOUS
  <2>2. <<>> \in [{} -> Collected]
    BY <2>1
  <2> QED BY <2>1, <2>2 DEF Collections
<1> QED BY <1>1, <1>3, <1>4 DEF Init, TypeInv

LEMMA UsageTyped ==
  ASSUME WireTypes, lastUsage \in Nat \cup {NoUsage}, NEW chunk,
         Visible(chunk) \subseteq 1..Len(events)
  PROVE  UsageAfter(chunk) \in Nat \cup {NoUsage}
<1>1. CASE UsageIn(chunk) = {}
  BY <1>1 DEF UsageAfter
<1>2. CASE UsageIn(chunk) # {}
  <2>1. UsageIn(chunk) \in SUBSET (1..Len(events)) /\ Len(events) \in Nat
    BY EventsTyped DEF UsageIn
  <2>2. Min(UsageIn(chunk)) \in 1..Len(events)
    <3>1. UsageIn(chunk) \in SUBSET Nat
      BY <2>1
    <3> QED BY <1>2, <2>1, <3>1, MinIsLeast
  <2> DEFINE e == Min(UsageIn(chunk))
  <2>3. events[e] \in Event
    BY <2>2, EventsTyped, ElementOfSeq
  <2>4. UsageAfter(chunk) = events[e].usage
    BY <1>2 DEF UsageAfter
  <2> HIDE DEF e
  <2> QED BY <2>3, <2>4 DEF Event
<1> QED BY <1>1, <1>2

LEMMA TypeStep == TypeInv /\ [Next]_vars => TypeInv'
<1> SUFFICES ASSUME TypeInv, [Next]_vars PROVE TypeInv'
  OBVIOUS
<1>0. FramingInv' /\ FramingInv /\ WireTypes /\ TextTypes /\ partials \in Collections
  BY FramingStep DEF TypeInv, FramingInv
<1>1. ASSUME NEW n \in 1..Len(Wire(events)), Chunk(n) PROVE TypeInv'
  <2> DEFINE chunk == SubSeq(Wire(events), pos + 1, pos + n)  g == GateAfter(chunk)
             tails == EventsWith(chunk, "tail")
  <2>1. /\ pos + n <= Len(Wire(events)) /\ events' = events
        /\ lastUsage' = UsageAfter(chunk)
        /\ partials' = g.parts
        /\ missed' = missed \cup {e \in tails : events[e].kind = "data" /\ e \notin Visible(chunk)}
        /\ crowded' = (crowded \/ Cardinality(UsageIn(chunk)) > 1)
        /\ \/ UNCHANGED <<buffer, pending, forwarded, shown>>
           \/ PushChunk(chunk)
        /\ UNCHANGED <<recorded, discarded, verbatim>>
    BY <1>1, Zenon DEF Chunk
  <2>2. g \in [parts : Collections, denied : BOOLEAN]
    BY <1>0, GateTyped
  <2>3. chunk \in Seq(Pieces(events))
    BY <1>0, <1>1, <2>1, ChunkArrives
  <2>4. tails \subseteq 1..Len(events) /\ Visible(chunk) \subseteq tails
    BY <1>0, <2>3, EventsOf, VisibleEnd
  <2> HIDE DEF chunk, g, tails
  <2>5. lastUsage' \in Nat \cup {NoUsage} /\ recorded' \in Nat \cup {NoUsage}
    BY <1>0, <2>1, <2>4, UsageTyped DEF TypeInv
  <2>6. TextTypes'
    <3>1. CASE UNCHANGED <<buffer, pending, forwarded, shown>>
      BY <1>0, <2>1, <3>1 DEF TextTypes
    <3>2. CASE PushChunk(chunk) /\ cfg.output
      <4> DEFINE buf == buffer \o chunk
                 f == Through(ProcessEvent, [pending |-> pending, shown |-> shown],
                              EventsWith(SubSeq(buf, 1, Complete(buf)), "tail"))
      <4>1. pending' = f.pending /\ shown' = f.shown
        BY <3>2 DEF PushChunk
      <4>2. f \in [pending : Windows, shown : [ChoiceIds -> Seq(Atoms)]]
        BY <1>0, FilteredTyped
      <4> HIDE DEF f
      <4> QED BY <1>0, <2>1, <4>1, <4>2 DEF TextTypes
    <3>3. CASE PushChunk(chunk) /\ ~cfg.output
      <4>1. pending' = pending /\ shown' = ShowRaw(tails)
        BY <3>3 DEF PushChunk, tails
      <4>2. ShowRaw(tails) \in [ChoiceIds -> Seq(Atoms)]
        BY <1>0, RawTyped DEF TextTypes
      <4> QED BY <1>0, <2>1, <4>1, <4>2 DEF TextTypes
    <3> QED BY <2>1, <3>1, <3>2, <3>3
  <2>7. verbatim' \cup missed' \subseteq 1..Len(events')
    BY <2>1, <2>4 DEF TypeInv
  <2>8. crowded' \in BOOLEAN
    BY <2>1 DEF TypeInv
  <2> QED BY <1>0, <2>1, <2>2, <2>5, <2>6, <2>7, <2>8 DEF TypeInv
<1>2. ASSUME StreamEnd PROVE TypeInv'
  <2>1. /\ shown' = ShowRaw(EventsWith(buffer, "tail"))
        /\ verbatim' = EventsWith(buffer, "head")
        /\ discarded' = pending /\ pending' = <<>> /\ recorded' = lastUsage
        /\ events' = events /\ partials' = partials /\ lastUsage' = lastUsage
        /\ missed' = missed /\ crowded' = crowded
    BY <1>2 DEF StreamEnd, gateVars
  <2>2. shown' \in [ChoiceIds -> Seq(Atoms)]
    BY <1>0, <2>1, RawTyped DEF TextTypes
  <2>3. <<>> \in Windows
    <3>1. <<>> \in Seq(Atoms) /\ Len(<<>>) = 0
      BY EmptySeq
    <3> QED BY <3>1, ConstantsAssumption DEF Windows
  <2>4. TextTypes'
    BY <1>0, <2>1, <2>2, <2>3 DEF TextTypes, Windows
  <2>5. verbatim' \subseteq 1..Len(events)
    BY <1>0, <2>1, EventsOf DEF WireTypes
  <2> QED BY <1>0, <2>1, <2>4, <2>5 DEF TypeInv
<1>3. CASE (\E s \in {"failed", "dropped"} : StreamStop(s)) \/ UNCHANGED vars
  <2>1. UNCHANGED <<events, recorded, textVars, gateVars>>
    BY <1>3 DEF StreamStop, vars
  <2> QED BY <1>0, <2>1 DEF TypeInv, TextTypes, textVars, gateVars
<1> QED BY <1>1, <1>2, <1>3 DEF Next

LEMMA TypeInvariant == Spec => []TypeInv
BY TypeInit, TypeStep, PTL DEF Spec

\* Streaming's type invariant, for every answer and every way of cutting it: in
\* particular no window of the de-anonymiser reaches MAX_PLACEHOLDER_LEN.
THEOREM StreamTypesCorrect == Spec => []TypeOK
<1>1. TypeInv => TypeOK
  <2> SUFFICES ASSUME TypeInv PROVE TypeOK
    OBVIOUS
  <2>1. DOMAIN partials \subseteq Nat
    BY DEF TypeInv, Collections
  <2>2. /\ {pending, discarded} \subseteq Seq(Atoms)
        /\ pending # <<>> => pending[1] = Open /\ Close \notin Range(pending)
        /\ Len(pending) < MaxPending
        /\ shown \in [ChoiceIds -> Seq(Atoms)]
    <3>1. /\ pending \in Windows /\ discarded \in Seq(Atoms)
          /\ shown \in [ChoiceIds -> Seq(Atoms)]
      BY DEF TypeInv, TextTypes
    <3>2. /\ pending \in Seq(Atoms)
          /\ pending # <<>> => pending[1] = Open /\ Close \notin Range(pending)
          /\ Len(pending) < MaxPending
      BY <3>1, Zenon DEF Windows
    <3> QED BY <3>1, <3>2
  <2>3. /\ [cfg |-> cfg, events |-> events] \in Answers
        /\ pos \in 0..4 * Len(events)
        /\ status \in Statuses
        /\ {buffer, forwarded} \subseteq Seq((1..Len(events)) \X Range(Parts))
    BY DEF TypeInv, FramingInv, WireTypes, Pieces
  <2>4. /\ {lastUsage, recorded} \subseteq Nat \cup {NoUsage}
        /\ verbatim \cup missed \subseteq 1..Len(events)
        /\ crowded \in BOOLEAN
    BY DEF TypeInv
  <2> QED BY <2>1, <2>2, <2>3, <2>4 DEF TypeOK
<1> QED BY <1>1, TypeInvariant, PTL

-----------------------------------------------------------------------------
(* The tool gate                                                           *)

NameOf(D, i) == IF Naming(D, i) = {} THEN NoName ELSE events[Max(Naming(D, i))].call.name

\* p is what the events in D, none later than n, have said of calls.
Tells(p, D, n) ==
  /\ DOMAIN p = Indexes(D)
  /\ \A i \in DOMAIN p : p[i].name = NameOf(D, i) /\ p[i].args = ArgsOf(D, i, n)

\* The events after the last finish up to event k.
Unfinished(k) == {e \in 1..k : \A p \in e..k : ~events[p].finish}

Given(D, i, f) == [e \in 1..f |-> IF e \in Giving(D, i) THEN <<events[e].call.args>> ELSE <<>>]

LEMMA GivenTyped ==
  ASSUME WireTypes, NEW f \in 0..Len(events), NEW D, NEW i
  PROVE  Given(D, i, f) \in Seq(Seq(STRING)) /\ Len(Given(D, i, f)) = f
<1>1. f \in Nat /\ Len(events) \in Nat
  BY EventsTyped
<1>2. ASSUME NEW e \in 1..f
      PROVE  (IF e \in Giving(D, i) THEN <<events[e].call.args>> ELSE <<>>) \in Seq(STRING)
  <2>1. e \in 1..Len(events)
    BY <1>1
  <2>2. events[e] \in Event
    BY <2>1, EventsTyped, ElementOfSeq
  <2>3. ASSUME e \in Giving(D, i) PROVE events[e].call.args \in STRING
    <3>1. events[e].call # NoCall
      BY <2>3 DEF Giving, About
    <3>2. events[e].call \in [index : Nat, name : STRING, args : STRING]
      BY <2>2, <3>1 DEF Event
    <3> QED BY <3>2
  <2>4. <<>> \in Seq(STRING)
    BY EmptySeq
  <2>5. CASE e \in Giving(D, i)
    <3>1. <<events[e].call.args>> \in Seq(STRING)
      BY <2>3, <2>5
    <3> QED BY <2>5, <3>1
  <2>6. CASE e \notin Giving(D, i)
    BY <2>4, <2>6
  <2> QED BY <2>5, <2>6
<1>3. Given(D, i, f) \in [1..f -> Seq(STRING)]
  BY <1>2 DEF Given
<1> QED BY <1>1, <1>3, SeqDef

\* One event more adds its arguments, if it has some for this call.
LEMMA ArgsGrow ==
  ASSUME WireTypes, NEW k \in 0..Len(events) - 1, NEW D \in SUBSET (1..k), NEW i
  PROVE  LET E == D \cup {k + 1} IN
         /\ k + 1 \in Giving(E, i) =>
              ArgsOf(E, i, k + 1) = Append(ArgsOf(D, i, k), events[k + 1].call.args)
         /\ k + 1 \notin Giving(E, i) => ArgsOf(E, i, k + 1) = ArgsOf(D, i, k)
<1> DEFINE E == D \cup {k + 1}  s == Given(D, i, k)  r == Given(E, i, k + 1)
<1>1. k \in 0..Len(events) /\ k + 1 \in 0..Len(events) /\ k \in Nat
  BY EventsTyped
<1>2. s \in Seq(Seq(STRING)) /\ Len(s) = k
  BY <1>1, GivenTyped
<1>3. r \in Seq(Seq(STRING)) /\ Len(r) = k + 1
  BY <1>1, GivenTyped
<1>4. ASSUME NEW e \in 1..k PROVE r[e] = s[e]
  <2>1. e # k + 1 /\ e \in 1..k + 1
    BY <1>1
  <2>2. e \in Giving(E, i) <=> e \in Giving(D, i)
    BY <2>1 DEF Giving, About
  <2> QED BY <2>1, <2>2 DEF Given
<1>5. ArgsOf(D, i, k) = FlattenSeq(s) /\ ArgsOf(E, i, k + 1) = FlattenSeq(r)
  BY DEF ArgsOf, Given
<1>6. r[k + 1] = IF k + 1 \in Giving(E, i) THEN <<events[k + 1].call.args>> ELSE <<>>
  BY <1>1 DEF Given
<1> HIDE DEF s, r
<1>7. FlattenSeq(r) = FlattenSeq(s) \o r[k + 1]
  <2>1. \A e \in 1..Len(s) : r[e] = s[e]
    BY <1>2, <1>4
  <2>2. Len(r) = Len(s) + 1
    BY <1>2, <1>3
  <2>3. FlattenSeq(r) = FlattenSeq(s) \o r[Len(r)]
    BY <1>2, <1>3, <2>1, <2>2, FlattenSnoc
  <2> QED BY <1>3, <2>3
<1>8. FlattenSeq(s) \in Seq(STRING)
  BY <1>2, FlattenTyped
<1> HIDE DEF E
<1>9. CASE k + 1 \in Giving(E, i)
  <2>1. r[k + 1] \in Seq(STRING)
    BY <1>1, <1>3, ElementOfSeq, k + 1 \in 1..k + 1
  <2>2. r[k + 1] = <<events[k + 1].call.args>>
    BY <1>6, <1>9
  <2> DEFINE a == events[k + 1].call.args  x == FlattenSeq(s)
  <2>3. a \in STRING
    BY <2>1, <2>2
  <2> HIDE DEF a, x
  <2>4. x \in Seq(STRING)
    BY <1>8 DEF x
  <2>5. x \o <<a>> = Append(x, a)
    BY <2>3, <2>4, AppendIsConcat
  <2> QED BY <1>5, <1>7, <1>9, <2>2, <2>5, Zenon DEF a, x, E
<1>10. CASE k + 1 \notin Giving(E, i)
  <2>1. r[k + 1] = <<>>
    BY <1>6, <1>10
  <2>2. FlattenSeq(s) \o <<>> = FlattenSeq(s)
    BY <1>8, ConcatEmptySeq
  <2> QED BY <1>5, <1>7, <1>10, <2>1, <2>2, Zenon DEF E
<1> QED BY <1>9, <1>10, Zenon DEF E

LEMMA ArgsNone ==
  ASSUME NEW n \in Nat, NEW D, NEW i, Giving(D, i) = {}
  PROVE  ArgsOf(D, i, n) = <<>>
<1> DEFINE s == [e \in 1..n |-> IF e \in Giving(D, i) THEN <<events[e].call.args>> ELSE <<>>]
<1>1. s = [e \in 1..n |-> <<>>]
  OBVIOUS
<1>2. ArgsOf(D, i, n) = FlattenSeq(s)
  BY DEF ArgsOf
<1> HIDE DEF s
<1> QED BY <1>1, <1>2, FlattenNothing

\* A name given replaces the one before.
LEMMA NameGrows ==
  ASSUME WireTypes, NEW k \in 0..Len(events) - 1, NEW D \in SUBSET (1..k), NEW i
  PROVE  LET E == D \cup {k + 1} IN
         /\ k + 1 \in Naming(E, i) => NameOf(E, i) = events[k + 1].call.name
         /\ k + 1 \notin Naming(E, i) => NameOf(E, i) = NameOf(D, i)
<1> DEFINE E == D \cup {k + 1}
<1>0. Len(events) \in Nat /\ k \in Nat
  BY EventsTyped
<1>1. CASE k + 1 \in Naming(E, i)
  <2>1. Naming(E, i) \in SUBSET (0..k + 1) /\ Naming(E, i) # {}
    <3>1. E \in SUBSET (0..k + 1)
      BY <1>0
    <3>2. Naming(E, i) \subseteq E
      BY DEF Naming, About
    <3> QED BY <1>1, <3>1, <3>2
  <2> HIDE DEF E
  <2>a. k + 1 \in Nat
    BY <1>0
  <2>2. Max(Naming(E, i)) \in Naming(E, i) /\ Max(Naming(E, i)) >= k + 1
    BY <1>1, <2>1, <2>a, MaxIsGreatest
  <2>3. Max(Naming(E, i)) = k + 1
    BY <2>a, <2>1, <2>2
  <2> QED BY <1>1, <2>1, <2>3 DEF NameOf, E
<1>2. CASE k + 1 \notin Naming(E, i)
  <2>1. Naming(E, i) = Naming(D, i)
    BY <1>2 DEF Naming, About
  <2> QED BY <1>2, <2>1 DEF NameOf
<1> QED BY <1>1, <1>2

\* merge_delta adds what the next event says.
LEMMA MergeTells ==
  ASSUME WireTypes, NEW k \in 0..Len(events) - 1, NEW D \in SUBSET (1..k), NEW p,
         Tells(p, D, k), events[k + 1].call # NoCall
  PROVE  Tells(MergeDelta(p, events[k + 1].call), D \cup {k + 1}, k + 1)
<1> DEFINE E == D \cup {k + 1}  call == events[k + 1].call
           old == IF call.index \in DOMAIN p
                  THEN p[call.index] ELSE [name |-> NoName, args |-> <<>>]
           new == [name |-> IF call.name # NoName THEN call.name ELSE old.name,
                   args |-> IF call.args # "" THEN Append(old.args, call.args) ELSE old.args]
           m == [i \in DOMAIN p \cup {call.index} |-> IF i = call.index THEN new ELSE p[i]]
<1>0. k \in Nat /\ Len(events) \in Nat /\ k + 1 \notin D
  BY EventsTyped
<1>1. MergeDelta(p, call) = m
  BY Zenon DEF MergeDelta
<1>2. Indexes(E) = Indexes(D) \cup {call.index}
  BY DEF Indexes
<1>3. old.name = NameOf(D, call.index) /\ old.args = ArgsOf(D, call.index, k)
  <2>1. CASE call.index \in DOMAIN p
    BY <2>1 DEF Tells
  <2>2. CASE call.index \notin DOMAIN p
    <3>1. call.index \notin Indexes(D)
      BY <2>2 DEF Tells
    <3>2. About(D, call.index) = {}
      BY <3>1 DEF Indexes, About
    <3>3. Naming(D, call.index) = {} /\ Giving(D, call.index) = {}
      BY <3>2 DEF Naming, Giving
    <3> QED BY <1>0, <2>2, <3>3, ArgsNone DEF NameOf
  <2> QED BY <2>1, <2>2
<1> HIDE DEF old
<1>4. new.name = NameOf(E, call.index)
  <2>1. k + 1 \in Naming(E, call.index) <=> call.name # NoName
    BY DEF Naming, About
  <2>2. /\ k + 1 \in Naming(E, call.index) => NameOf(E, call.index) = call.name
        /\ k + 1 \notin Naming(E, call.index) => NameOf(E, call.index) = NameOf(D, call.index)
    BY NameGrows
  <2> HIDE DEF call, E
  <2> QED BY <1>3, <2>1, <2>2
<1>5. new.args = ArgsOf(E, call.index, k + 1)
  <2>1. k + 1 \in Giving(E, call.index) <=> call.args # ""
    BY DEF Giving, About
  <2>2. /\ k + 1 \in Giving(E, call.index) =>
             ArgsOf(E, call.index, k + 1) = Append(ArgsOf(D, call.index, k), call.args)
        /\ k + 1 \notin Giving(E, call.index) =>
             ArgsOf(E, call.index, k + 1) = ArgsOf(D, call.index, k)
    BY ArgsGrow
  <2> HIDE DEF call, E
  <2>3. CASE call.args # ""
    <3>1. new.args = Append(old.args, call.args)
      BY <2>3
    <3> QED BY <1>3, <2>1, <2>2, <2>3, <3>1
  <2>4. CASE call.args = ""
    <3>1. new.args = old.args
      BY <2>4
    <3> QED BY <1>3, <2>1, <2>2, <2>4, <3>1
  <2> QED BY <2>3, <2>4
<1>6. ASSUME NEW i \in DOMAIN p, i # call.index
      PROVE  p[i].name = NameOf(E, i) /\ p[i].args = ArgsOf(E, i, k + 1)
  <2>1. k + 1 \notin About(E, i)
    BY <1>6 DEF About
  <2>2. k + 1 \notin Naming(E, i) /\ k + 1 \notin Giving(E, i)
    BY <2>1 DEF Naming, Giving
  <2>3. NameOf(E, i) = NameOf(D, i)
    BY <2>2, NameGrows
  <2>4. ArgsOf(E, i, k + 1) = ArgsOf(D, i, k)
    BY <2>2, ArgsGrow
  <2> QED BY <2>3, <2>4 DEF Tells
<1> HIDE DEF new, E
<1>7. DOMAIN m = Indexes(E)
  BY <1>2 DEF Tells
<1>8. ASSUME NEW i \in DOMAIN m
      PROVE  m[i].name = NameOf(E, i) /\ m[i].args = ArgsOf(E, i, k + 1)
  BY <1>4, <1>5, <1>6
<1> HIDE DEF m
<1>9. Tells(m, E, k + 1)
  BY <1>7, <1>8 DEF Tells
<1> QED BY <1>1, <1>9 DEF E

LEMMA SilentTells ==
  ASSUME WireTypes, NEW k \in 0..Len(events) - 1, NEW D \in SUBSET (1..k), NEW p,
         Tells(p, D, k), events[k + 1].call = NoCall
  PROVE  Tells(p, D \cup {k + 1}, k + 1)
<1> DEFINE E == D \cup {k + 1}
<1>1. Indexes(E) = Indexes(D)
  BY DEF Indexes
<1>2. \A i : k + 1 \notin Naming(E, i) /\ k + 1 \notin Giving(E, i)
  BY DEF Naming, Giving, About
<1>3. \A i : NameOf(E, i) = NameOf(D, i)
  BY <1>2, NameGrows
<1>4. \A i : ArgsOf(E, i, k + 1) = ArgsOf(D, i, k)
  BY <1>2, ArgsGrow
<1> HIDE DEF E
<1>5. Tells(p, E, k + 1)
  BY <1>1, <1>3, <1>4 DEF Tells
<1> QED BY <1>5 DEF E

\* A finish event withholds exactly when evaluate_collected denies.
LEMMA DeniesTold ==
  ASSUME WireTypes, NEW f \in 1..Len(events), NEW p, Tells(p, Since(f), f)
  PROVE  Denies(p) <=>
           \E i \in DOMAIN CallsAt(f) :
             CallsAt(f)[i].name \in Denied \/ CallsAt(f)[i].args \notin ValidArgs \cup {<<>>}
<1> DEFINE D == Since(f)  N == {j \in Indexes(D) : Naming(D, j) # {}}
<1>1. DOMAIN CallsAt(f) = N /\ \A i \in N :
        /\ CallsAt(f)[i].name = events[Max(Naming(D, i))].call.name
        /\ CallsAt(f)[i].args = ArgsOf(D, i, f)
  BY DEF CallsAt
<1>2. ASSUME NEW i \in DOMAIN p
      PROVE  p[i].name # NoName => i \in N
  BY <1>2 DEF Tells, NameOf
<1>3. ASSUME NEW i \in N
      PROVE  i \in DOMAIN p /\ p[i].name = CallsAt(f)[i].name /\ p[i].args = CallsAt(f)[i].args
  BY <1>1 DEF Tells, NameOf
<1>4. ASSUME NEW i \in N PROVE p[i].name # NoName
  <2>1. Naming(D, i) # {}
    OBVIOUS
  <2>2. p[i].name = events[Max(Naming(D, i))].call.name
    BY <1>1, <1>3
  <2>3. Max(Naming(D, i)) \in Naming(D, i)
    <3>1. Naming(D, i) \in SUBSET (0..Len(events)) /\ Len(events) \in Nat
      <4>1. D \in SUBSET (0..Len(events)) /\ Len(events) \in Nat
        BY EventsTyped DEF Since
      <4>2. Naming(D, i) \subseteq D
        BY DEF Naming, About
      <4> QED BY <4>1, <4>2
    <3> QED BY <2>1, <3>1, MaxIsGreatest
  <2> QED BY <2>2, <2>3 DEF Naming
<1> HIDE DEF D, N
<1> QED BY <1>1, <1>2, <1>3, <1>4 DEF Denies

\* What is open after an event, and before it finishes anything.
LEMMA SinceUnfinished ==
  ASSUME WireTypes, NEW k \in 0..Len(events) - 1
  PROVE  /\ Unfinished(k) \in SUBSET (1..k)
         /\ Since(k + 1) = Unfinished(k) \cup {k + 1}
         /\ ~events[k + 1].finish => Unfinished(k + 1) = Unfinished(k) \cup {k + 1}
         /\ events[k + 1].finish => Unfinished(k + 1) = {}
<1>0. k \in Nat /\ (k + 1) - 1 = k
  BY EventsTyped
<1>1. Unfinished(k) \in SUBSET (1..k)
  BY DEF Unfinished
<1>2. \A e : e \in 1..k + 1 <=> e \in 1..k \/ e = k + 1
  BY <1>0
<1>3. Since(k + 1) = {e \in 1..k + 1 : \A p \in e..k : ~events[p].finish}
  BY <1>0 DEF Since
<1>4. Since(k + 1) = Unfinished(k) \cup {k + 1}
  <2>1. \A p \in k + 1..k : FALSE
    BY <1>0
  <2> QED BY <1>2, <1>3, <2>1 DEF Unfinished
<1>5. \A e \in 1..k + 1 : \A p : p \in e..k + 1 <=> p \in e..k \/ p = k + 1
  BY <1>0
<1>6. Unfinished(k + 1) = {e \in Since(k + 1) : ~events[k + 1].finish}
  BY <1>3, <1>5 DEF Unfinished
<1> QED BY <1>1, <1>4, <1>6

\* An event that is seen whole leaves the gate with what is open after it, or
\* denies what the client must not have.
LEMMA ObserveTells ==
  ASSUME WireTypes, NEW k \in 0..Len(events) - 1, NEW g, ~g.denied,
         Tells(g.parts, Unfinished(k), k), ~Observe(g, k + 1).denied
  PROVE  /\ Tells(Observe(g, k + 1).parts, Unfinished(k + 1), k + 1)
         /\ ~MustWithhold(k + 1)
<1> DEFINE f == k + 1  ev == events[f]
           parts == IF ev.call = NoCall THEN g.parts ELSE MergeDelta(g.parts, ev.call)
<1>0. f \in 1..Len(events)
  BY EventsTyped
<1>1. /\ Unfinished(k) \in SUBSET (1..k)
      /\ Since(f) = Unfinished(k) \cup {f}
      /\ ~ev.finish => Unfinished(f) = Unfinished(k) \cup {f}
      /\ ev.finish => Unfinished(f) = {}
  BY SinceUnfinished
<1>2. Tells(parts, Since(f), f)
  BY <1>1, MergeTells, SilentTells
<1>3. Observe(g, f) = IF ev.finish THEN [parts |-> <<>>, denied |-> Denies(parts)]
                      ELSE [parts |-> parts, denied |-> FALSE]
  BY Zenon DEF Observe
<1> HIDE DEF parts, ev, f
<1>4. CASE ev.finish
  <2>1. Observe(g, f).parts = <<>> /\ ~Denies(parts)
    BY <1>3, <1>4 DEF f
  <2>2. ~MustWithhold(f)
    BY <1>0, <1>2, <2>1, DeniesTold DEF MustWithhold
  <2>3. Tells(<<>>, {}, f)
    BY DEF Tells, Indexes
  <2> QED BY <1>1, <1>4, <2>1, <2>2, <2>3 DEF f
<1>5. CASE ~ev.finish
  <2>1. Observe(g, f).parts = parts
    BY <1>3, <1>5
  <2>2. ~MustWithhold(f)
    BY <1>5 DEF MustWithhold, ev
  <2> QED BY <1>1, <1>2, <1>5, <2>1, <2>2 DEF f
<1> QED BY <1>4, <1>5

\* An event that says nothing of calls changes nothing.
LEMMA SilentKeeps ==
  ASSUME WireTypes, NEW k \in 0..Len(events) - 1, NEW p, Tells(p, Unfinished(k), k),
         events[k + 1].kind # "data"
  PROVE  Tells(p, Unfinished(k + 1), k + 1) /\ ~MustWithhold(k + 1)
<1>1. events[k + 1].call = NoCall /\ ~events[k + 1].finish
  <2>1. k + 1 \in DOMAIN events
    BY EventsTyped
  <2>2. [cfg |-> cfg, events |-> events] \in Answers /\ [cfg |-> cfg, events |-> events].events = events
    BY DEF WireTypes
  <2> DEFINE a == [cfg |-> cfg, events |-> events]
  <2> HIDE DEF a
  <2>3. a \in Answers /\ a.events = events
    BY <2>2 DEF a
  <2> QED BY <2>1, <2>3, SilenceAssumption
<1>2. Tells(p, Unfinished(k) \cup {k + 1}, k + 1)
  BY <1>1, SinceUnfinished, SilentTells
<1> QED BY <1>1, <1>2, SinceUnfinished DEF MustWithhold

\* A run of the gate over the events, of which it sees those in V.
Run(h, V, start, n) ==
  /\ h[0] = start
  /\ \A k \in 1..n : h[k] = ObserveIn(V, h[k - 1], k)

\* A denial stays.
LEMMA DenialStays ==
  ASSUME NEW n \in Nat, NEW h, NEW V, NEW start, Run(h, V, start, n), ~h[n].denied
  PROVE  \A k \in 0..n : ~h[k].denied
<1> DEFINE S == {k \in 0..n : \A j \in 0..k : h[j].denied => h[k].denied}
<1>1. 0 \in S
  <2>1. \A j \in 0..0 : j = 0
    OBVIOUS
  <2> QED BY <2>1
<1>2. ASSUME NEW k \in 0..n - 1, k \in S PROVE k + 1 \in S
  <2>1. k + 1 \in 1..n /\ (k + 1) - 1 = k /\ k + 1 \in 0..n
    OBVIOUS
  <2>2. h[k + 1] = ObserveIn(V, h[k], k + 1)
    <3>1. h[k + 1] = ObserveIn(V, h[(k + 1) - 1], k + 1)
      BY <2>1, Zenon DEF Run
    <3> QED BY <2>1, <3>1
  <2>3. h[k].denied => h[k + 1].denied
    <3> SUFFICES ASSUME h[k].denied PROVE h[k + 1] = h[k]
      OBVIOUS
    <3>1. Observe(h[k], k + 1) = h[k]
      BY DEF Observe
    <3> QED BY <2>2, <3>1 DEF ObserveIn
  <2>4. ASSUME NEW j \in 0..k + 1, h[j].denied PROVE h[k + 1].denied
    <3>1. CASE j = k + 1
      BY <2>4, <3>1
    <3>2. CASE j # k + 1
      <4>1. j \in 0..k
        BY <3>2
      <4> QED BY <1>2, <2>3, <2>4, <4>1
    <3> QED BY <3>1, <3>2
  <2> QED BY <2>1, <2>4
<1> HIDE DEF S
<1>3. \A k \in 0..n : k \in S
  BY <1>1, <1>2, InductUpTo
<1>4. n \in 0..n
  OBVIOUS
<1> QED BY <1>3, <1>4 DEF S

\* Where nothing is seen, nothing changes.
LEMMA RunRests ==
  ASSUME NEW n \in Nat, NEW h, NEW V, NEW start, Run(h, V, start, n),
         NEW a \in 0..n, NEW b \in a..n, \A e \in V : ~(a < e /\ e <= b)
  PROVE  h[b] = h[a]
<1> DEFINE S == {k \in 0..n : a <= k /\ k <= b => h[k] = h[a]}
<1>1. 0 \in S
  OBVIOUS
<1>2. ASSUME NEW k \in 0..n - 1, k \in S PROVE k + 1 \in S
  <2>1. k + 1 \in 1..n /\ (k + 1) - 1 = k /\ k + 1 \in 0..n
    OBVIOUS
  <2>2. h[k + 1] = ObserveIn(V, h[k], k + 1)
    <3>1. h[k + 1] = ObserveIn(V, h[(k + 1) - 1], k + 1)
      BY <2>1, Zenon DEF Run
    <3> QED BY <2>1, <3>1
  <2>3. ASSUME a <= k, k + 1 <= b PROVE h[k + 1] = h[a]
    <3>1. k + 1 \notin V
      BY <2>3
    <3>2. h[k + 1] = h[k]
      BY <2>2, <3>1 DEF ObserveIn
    <3> QED BY <1>2, <2>3, <3>2
  <2>4. ASSUME a <= k + 1, k + 1 <= b PROVE h[k + 1] = h[a]
    <3>1. a = k + 1 \/ a <= k
      BY <2>4
    <3> QED BY <2>3, <2>4, <3>1
  <2> QED BY <2>1, <2>4
<1> HIDE DEF S
<1>3. \A k \in 0..n : k \in S
  BY <1>1, <1>2, InductUpTo
<1> QED BY <1>3 DEF S

\* A run over events that are all seen, if they are data, ends with what is
\* open; none of them had to be withheld, if none was denied.
LEMMA RunTells ==
  ASSUME WireTypes, NEW h, NEW V, NEW start, Run(h, V, start, Len(events)),
         ~h[Len(events)].denied,
         NEW a \in 0..Len(events), NEW b \in a..Len(events),
         \A e \in a + 1..b : events[e].kind = "data" => e \in V,
         \A e \in V : events[e].kind = "data",
         Tells(h[a].parts, Unfinished(a), a)
  PROVE  /\ Tells(h[b].parts, Unfinished(b), b)
         /\ \A f \in a + 1..b : ~MustWithhold(f)
<1> DEFINE n == Len(events)
           Good(k) == k \in a + 1..b => ~MustWithhold(k)
           S == {k \in 0..n : a <= k /\ k <= b => Tells(h[k].parts, Unfinished(k), k) /\ Good(k)}
<1>0. n \in Nat /\ \A k \in 0..n : ~h[k].denied
  BY EventsTyped, DenialStays
<1>1. 0 \in S
  <2>1. CASE a = 0
    <3>1. Good(0)
      OBVIOUS
    <3> QED BY <1>0, <2>1, <3>1
  <2>2. CASE a # 0
    BY <1>0, <2>2
  <2> QED BY <2>1, <2>2
<1>2. ASSUME NEW k \in 0..n - 1, k \in S PROVE k + 1 \in S
  <2>1. k + 1 \in 1..n /\ (k + 1) - 1 = k /\ k + 1 \in 0..n /\ k \in 0..n
    BY <1>0
  <2>2. h[k + 1] = ObserveIn(V, h[k], k + 1)
    <3>1. h[k + 1] = ObserveIn(V, h[(k + 1) - 1], k + 1)
      BY <2>1, Zenon DEF Run
    <3> QED BY <2>1, <3>1
  <2>3. ASSUME a <= k, k + 1 <= b
        PROVE  Tells(h[k + 1].parts, Unfinished(k + 1), k + 1) /\ ~MustWithhold(k + 1)
    <3>1. Tells(h[k].parts, Unfinished(k), k) /\ k + 1 \in a + 1..b
      BY <1>0, <1>2, <2>3
    <3>2. CASE k + 1 \in V
      <4>1. h[k + 1] = Observe(h[k], k + 1)
        BY <2>2, <3>2 DEF ObserveIn
      <4>2. ~h[k].denied /\ ~h[k + 1].denied
        BY <1>0, <2>1
      <4> QED BY <3>1, <4>1, <4>2, ObserveTells
    <3>3. CASE k + 1 \notin V
      <4>1. h[k + 1] = h[k]
        BY <2>2, <3>3 DEF ObserveIn
      <4>2. events[k + 1].kind # "data"
        BY <3>1, <3>3
      <4> QED BY <3>1, <4>1, <4>2, SilentKeeps
    <3> QED BY <3>2, <3>3
  <2>4. ASSUME a <= k + 1, k + 1 <= b
        PROVE  Tells(h[k + 1].parts, Unfinished(k + 1), k + 1) /\ Good(k + 1)
    <3>1. CASE a = k + 1
      <4>1. Good(k + 1)
        BY <3>1
      <4> QED BY <3>1, <4>1
    <3>2. CASE a # k + 1
      <4>1. a <= k
        BY <2>4, <3>2
      <4> QED BY <2>3, <2>4, <4>1
    <3> QED BY <3>1, <3>2
  <2> QED BY <2>1, <2>4
<1> HIDE DEF S
<1>3. \A k \in 0..n : k \in S
  BY <1>0, <1>1, <1>2, InductUpTo
<1>4. Tells(h[b].parts, Unfinished(b), b)
  <2>1. b \in S /\ a <= b /\ b <= b
    BY <1>0, <1>3
  <2> QED BY <2>1 DEF S
<1>5. ASSUME NEW f \in a + 1..b PROVE ~MustWithhold(f)
  <2>1. f \in 0..n /\ a <= f /\ f <= b
    BY <1>0
  <2> QED BY <1>3, <2>1 DEF S
<1> QED BY <1>4, <1>5

\* The events of which the data line has come, when p pieces have.
Got(p) == (p + 2) \div 4

LEMMA GotCounts ==
  ASSUME NEW n \in Nat, NEW p \in 0..4 * n
  PROVE  /\ Got(p) \in 0..n
         /\ \A e \in 1..n : 4 * e - 2 <= p <=> e <= Got(p)
<1> DEFINE q == (p + 2) \div 4
<1>1. q \in Nat /\ 4 * q <= p + 2 /\ p + 2 < 4 * q + 4
  BY p + 2 \in Nat
<1> HIDE DEF q
<1>2. q \in 0..n /\ \A e \in 1..n : 4 * e - 2 <= p <=> e <= q
  BY <1>1
<1> QED BY <1>2 DEF Got, q

\* The gate knows the calls that are open, as long as it has seen every event
\* whole; and no event that completes a denied call has come past it.
GateKnows ==
  cfg.gate /\ status = "open" /\ missed = {} => Tells(partials, Unfinished(Got(pos)), Got(pos))

GateHolds ==
  cfg.gate =>
    \A f \in EventsWith(forwarded \o buffer, "tail") :
      (\A e \in missed : e > f) => ~MustWithhold(f)

GateInv ==
  /\ TypeInv
  /\ \A e \in missed : e <= Got(pos)
  /\ GateKnows
  /\ GateHolds

\* The pieces held are those of the first events.
LEMMA HeldTails ==
  ASSUME NEW evs \in Seq(Event), NEW p \in 0..4 * Len(evs), NEW held,
         held = SubSeq(Wire(evs), 1, p)
  PROVE  EventsWith(held, "tail") = {e \in 1..Len(evs) : e <= Got(p)}
<1>1. Len(evs) \in Nat /\ p \in Nat /\ p <= 4 * Len(evs)
  BY LenProperties
<1>2. held = SubSeq(Wire(evs), 0 + 1, p)
  BY 0 + 1 = 1
<1>3. EventsWith(SubSeq(Wire(evs), 0 + 1, p), "tail")
        = {e \in 1..Len(evs) : 0 < 4 * e - 2 /\ 4 * e - 2 <= p}
  BY <1>1, TailsIn, 0 \in Nat, 0 <= p
<1>4. \A e \in 1..Len(evs) : 0 < 4 * e - 2 /\ (4 * e - 2 <= p <=> e <= Got(p))
  BY <1>1, GotCounts
<1>5. {e \in 1..Len(evs) : 0 < 4 * e - 2 /\ 4 * e - 2 <= p}
        = {e \in 1..Len(evs) : e <= Got(p)}
  BY <1>4
<1> QED BY <1>2, <1>3, <1>5, Zenon

\* A chunk that is not denied.
LEMMA ChunkTells ==
  ASSUME GateInv, cfg.gate, NEW n \in 1..Len(Wire(events)), Chunk(n),
         ~GateAfter(SubSeq(Wire(events), pos + 1, pos + n)).denied, missed = {}
  PROVE  /\ missed' = {} => Tells(partials', Unfinished(Got(pos + n)), Got(pos + n))
         /\ \A f \in Got(pos) + 1..Got(pos + n) :
              (\A e \in missed' : e > f) => ~MustWithhold(f)
<1> DEFINE chunk == SubSeq(Wire(events), pos + 1, pos + n)  g == GateAfter(chunk)
           tails == EventsWith(chunk, "tail")  V == Visible(chunk)  N == Len(events)
           start == [parts |-> partials, denied |-> FALSE]  q == [e \in 1..N |-> e]
           r == Got(pos)  s == Got(pos + n)
<1>0. /\ WireTypes /\ events \in Seq(Event) /\ N \in Nat /\ pos \in Nat /\ DOMAIN events = 1..N
      /\ pos \in 0..4 * N /\ status = "open"
  BY EventsTyped DEF GateInv, TypeInv, FramingInv, WireTypes, Chunk
<1>1. /\ pos + n <= Len(Wire(events))
      /\ partials' = g.parts
      /\ missed' = missed \cup {e \in tails : events[e].kind = "data" /\ e \notin V}
  BY Zenon DEF Chunk
<1>2. pos + n \in Nat /\ pos <= pos + n /\ pos + n <= 4 * N /\ pos + n \in 0..4 * N
  <2>1. Len(Wire(events)) = 4 * N
    BY <1>0, WireShape
  <2> QED BY <1>0, <1>1, <2>1
<1>3. tails = {e \in 1..N : pos < 4 * e - 2 /\ 4 * e - 2 <= pos + n}
  BY <1>0, <1>2, TailsIn
<1>4. V \subseteq {e \in tails : events[e].kind = "data"}
  BY VisibleEnd
<1>5. r \in 0..N /\ s \in 0..N /\ \A e \in 1..N : (4 * e - 2 <= pos <=> e <= r)
                                 /\ (4 * e - 2 <= pos + n <=> e <= s)
  BY <1>0, <1>2, GotCounts
<1>6. r <= s
  <2>1. CASE r = 0
    BY <1>5, <2>1
  <2>2. CASE r # 0
    <3>1. r \in 1..N /\ 4 * r - 2 <= pos
      BY <1>5, <2>2
    <3>2. 4 * r - 2 <= pos + n
      BY <1>0, <1>2, <1>5, <3>1
    <3> QED BY <1>5, <3>1, <3>2
  <2> QED BY <2>1, <2>2
<1>7. tails = r + 1..s
  <2>1. \A e \in 1..N : pos < 4 * e - 2 <=> ~(4 * e - 2 <= pos)
    BY <1>0
  <2>2. \A e \in 1..N : e \in tails <=> ~(e <= r) /\ e <= s
    BY <1>3, <1>5, <2>1
  <2>3. \A e : e \in r + 1..s => e \in 1..N /\ ~(e <= r) /\ e <= s
    BY <1>0, <1>5
  <2>4. \A e \in 1..N : ~(e <= r) /\ e <= s => e \in r + 1..s
    BY <1>0, <1>5
  <2>5. tails \subseteq 1..N
    BY <1>3
  <2> HIDE DEF tails, r, s
  <2> QED BY <2>2, <2>3, <2>4, <2>5
<1>8. Tells(partials, Unfinished(r), r)
  BY <1>0 DEF GateInv, GateKnows
<1>9. g = Gate!Fold(V, start, q) /\ DOMAIN q = 1..N
  <2>1. g = Through(Observe, start, V)
    BY DEF GateAfter
  <2> QED BY <1>0, <2>1, GateFolds
<1> HIDE DEF chunk, g, tails, V, N, start, r, s, q
<1>10. PICK h : Gate!Course(V, start, q, N, h) /\ g = h[N]
  BY <1>0, <1>9, Gate!FoldRuns
<1>11. Run(h, V, start, N)
  <2>1. h[0] = start /\ \A k \in 1..N : h[k] = ObserveIn(V, h[k - 1], q[k])
    BY <1>10 DEF Gate!Course
  <2>2. \A k \in 1..N : q[k] = k
    BY DEF q
  <2> QED BY <2>1, <2>2 DEF Run
<1>12. ~h[N].denied
  BY <1>10 DEF g, chunk
<1>13. h[r] = start
  <2>1. 0 \in 0..N /\ r \in 0..N /\ \A e \in V : ~(0 < e /\ e <= r)
    BY <1>0, <1>4, <1>5, <1>7
  <2>2. h[r] = h[0]
    BY <1>0, <1>11, <2>1, RunRests
  <2> QED BY <1>11, <2>2 DEF Run
<1>14. h[N] = h[s]
  <2>1. N \in s..N /\ \A e \in V : ~(s < e /\ e <= N)
    BY <1>0, <1>4, <1>5, <1>7
  <2> QED BY <1>0, <1>5, <1>11, <2>1, RunRests
<1>15. Tells(h[r].parts, Unfinished(r), r)
  <2>1. start.parts = partials
    BY DEF start
  <2> QED BY <1>8, <1>13, <2>1
<1>16. \A e \in V : events[e].kind = "data"
  BY <1>4
<1>17. ASSUME NEW b \in r..N, b <= s, \A e \in missed' : e > b
       PROVE  Tells(h[b].parts, Unfinished(b), b) /\ \A f \in r + 1..b : ~MustWithhold(f)
  <2>1. ASSUME NEW e \in r + 1..b, events[e].kind = "data" PROVE e \in V
    <3>1. e \in tails /\ ~(e > b)
      BY <1>0, <1>5, <1>7, <1>17
    <3> QED BY <1>1, <1>17, <2>1, <3>1
  <2> QED BY <1>0, <1>5, <1>11, <1>12, <1>15, <1>16, <2>1, RunTells DEF N
<1>18. ASSUME missed' = {} PROVE Tells(partials', Unfinished(s), s)
  <2>1. s \in r..N /\ s <= s
    BY <1>0, <1>5, <1>6
  <2>2. Tells(h[s].parts, Unfinished(s), s)
    BY <1>17, <1>18, <2>1
  <2> QED BY <1>1, <1>10, <1>14, <2>2
<1>19. ASSUME NEW f \in r + 1..s, \A e \in missed' : e > f PROVE ~MustWithhold(f)
  <2>1. f \in r..N /\ f <= s /\ f \in r + 1..f
    BY <1>0, <1>5
  <2> QED BY <1>17, <1>19, <2>1
<1> QED BY <1>18, <1>19 DEF r, s

LEMMA GateInit == Init => GateInv
<1> SUFFICES ASSUME Init PROVE GateInv
  OBVIOUS
<1>1. TypeInv /\ FramingInv /\ WireTypes /\ Len(events) \in Nat
  BY TypeInit, EventsTyped DEF TypeInv, FramingInv
<1>2. /\ pos = 0 /\ status = "open" /\ partials = <<>> /\ missed = {}
      /\ forwarded = <<>> /\ buffer = <<>>
  BY DEF Init
<1>3. Got(0) = 0
  BY DEF Got
<1>4. Tells(<<>>, Unfinished(0), 0)
  <2>1. Unfinished(0) = {}
    BY DEF Unfinished
  <2>2. Indexes({}) = {} /\ DOMAIN <<>> = {}
    BY DEF Indexes
  <2> QED BY <2>1, <2>2 DEF Tells
<1>5. EventsWith(forwarded \o buffer, "tail") = {}
  <2>1. EventsWith(forwarded \o buffer, "tail") = {e \in 1..Len(events) : e <= Got(pos)}
    <3>1. events \in Seq(Event) /\ pos \in 0..4 * Len(events)
          /\ forwarded \o buffer = SubSeq(Wire(events), 1, pos)
      BY <1>1, <1>2, EventsTyped DEF FramingInv, WireTypes, NothingLost
    <3> QED BY <3>1, HeldTails
  <2> QED BY <1>1, <1>2, <1>3, <2>1
<1> QED BY <1>1, <1>2, <1>3, <1>4, <1>5 DEF GateInv, GateKnows, GateHolds

\* What the gate has to know and to hold back depends on the answer alone.
LEMMA SameEvents ==
  ASSUME events' = events
  PROVE  /\ \A f : MustWithhold(f)' = MustWithhold(f)
         /\ Tells(partials', Unfinished(Got(pos')), Got(pos')) =>
              Tells(partials, Unfinished(Got(pos)), Got(pos))'
<1>1. \A f : MustWithhold(f)' = MustWithhold(f)
  BY DEF MustWithhold, CallsAt, Naming, About, Giving, Indexes, ArgsOf, Since
<1>2. Tells(partials, Unfinished(Got(pos)), Got(pos))'
        = Tells(partials', Unfinished(Got(pos')), Got(pos'))
  BY DEF Tells, Unfinished, Got, Indexes, NameOf, ArgsOf, Giving, Naming, About
<1> QED BY <1>1, <1>2

LEMMA GateStep == GateInv /\ [Next]_vars => GateInv'
<1> SUFFICES ASSUME GateInv, [Next]_vars PROVE GateInv'
  OBVIOUS
<1>0. /\ TypeInv /\ TypeInv' /\ FramingInv /\ FramingInv' /\ WireTypes
      /\ events \in Seq(Event) /\ Len(events) \in Nat /\ pos \in Nat /\ pos \in 0..4 * Len(events)
      /\ \A e \in missed : e <= Got(pos)
      /\ missed \subseteq 1..Len(events)
      /\ GateKnows /\ GateHolds
  BY TypeStep, EventsTyped DEF GateInv, TypeInv, FramingInv, WireTypes
<1>1. ASSUME NEW n \in 1..Len(Wire(events)), Chunk(n) PROVE GateInv'
  <2> DEFINE chunk == SubSeq(Wire(events), pos + 1, pos + n)  g == GateAfter(chunk)
             tails == EventsWith(chunk, "tail")  N == Len(events)
  <2>1. /\ status = "open" /\ pos + n <= Len(Wire(events)) /\ pos' = pos + n
        /\ cfg' = cfg /\ events' = events
        /\ missed' = missed \cup {e \in tails : events[e].kind = "data" /\ e \notin Visible(chunk)}
        /\ \/ g.denied /\ status' = "denied" /\ forwarded' = forwarded /\ buffer' = buffer
           \/ ~g.denied /\ status' = status
    BY <1>1, Zenon DEF Chunk
  <2>2. pos + n \in Nat /\ pos <= pos + n /\ pos + n <= 4 * N /\ pos + n \in 0..4 * N
    <3>1. Len(Wire(events)) = 4 * N
      BY <1>0, WireShape
    <3> QED BY <1>0, <2>1, <3>1
  <2>3. tails = {e \in 1..N : pos < 4 * e - 2 /\ 4 * e - 2 <= pos + n}
    BY <1>0, <2>2, TailsIn
  <2>4. Got(pos) \in 0..N /\ Got(pos + n) \in 0..N
        /\ \A e \in 1..N : /\ 4 * e - 2 <= pos <=> e <= Got(pos)
                           /\ 4 * e - 2 <= pos + n <=> e <= Got(pos + n)
    BY <1>0, <2>2, GotCounts
  <2>5. \A e \in 1..N : e <= Got(pos) => e <= Got(pos + n)
    <3> SUFFICES ASSUME NEW e \in 1..N, 4 * e - 2 <= pos PROVE 4 * e - 2 <= pos + n
      BY <2>4
    <3> QED BY <1>0, <2>2
  <2>6. \A e \in missed' : e <= Got(pos')
    BY <1>0, <2>1, <2>3, <2>4, <2>5
  <2>7. \A f : MustWithhold(f)' = MustWithhold(f)
    BY <2>1, SameEvents
  <2>8. CASE g.denied /\ status' = "denied" /\ forwarded' = forwarded /\ buffer' = buffer
    <3>1. GateHolds'
      BY <1>0, <2>1, <2>7, <2>8 DEF GateHolds, EventsWith
    <3>2. GateKnows'
      BY <2>8 DEF GateKnows
    <3> QED BY <1>0, <2>6, <3>1, <3>2 DEF GateInv
  <2>9. CASE ~g.denied /\ status' = status
    <3>1. EventsWith(forwarded \o buffer, "tail") = {e \in 1..N : e <= Got(pos)}
      <4>1. forwarded \o buffer = SubSeq(Wire(events), 1, pos)
        BY <1>0, <2>1 DEF FramingInv, NothingLost
      <4> QED BY <1>0, <4>1, HeldTails
    <3>2. EventsWith(forwarded' \o buffer', "tail") = {e \in 1..N : e <= Got(pos + n)}
      <4>1. forwarded' \o buffer' = SubSeq(Wire(events), 1, pos + n)
        BY <1>0, <2>1, <2>9 DEF FramingInv, NothingLost
      <4> QED BY <1>0, <2>2, <4>1, HeldTails
    <3>3. ASSUME cfg.gate, NEW f \in 1..N, f <= Got(pos + n), \A e \in missed' : e > f
          PROVE  ~MustWithhold(f)
      <4>1. CASE f <= Got(pos)
        <5>1. f \in EventsWith(forwarded \o buffer, "tail")
          BY <3>1, <4>1
        <5>2. \A e \in missed : e > f
          BY <2>1, <3>3
        <5> QED BY <1>0, <3>3, <5>1, <5>2 DEF GateHolds
      <4>2. CASE ~(f <= Got(pos))
        <5>1. f \in Got(pos) + 1..Got(pos + n)
          BY <2>4, <3>3, <4>2
        <5>2. missed = {}
          <6> SUFFICES ASSUME NEW e \in missed PROVE FALSE
            OBVIOUS
          <6>1. e <= Got(pos) /\ e > f /\ e \in 1..N
            BY <1>0, <2>1, <3>3
          <6> QED BY <2>4, <4>2, <6>1
        <5> QED BY <1>1, <2>9, <3>3, <5>1, <5>2, ChunkTells
      <4> QED BY <4>1, <4>2
    <3>4. GateHolds'
      <4>1. ASSUME cfg'.gate, NEW f \in EventsWith(forwarded' \o buffer', "tail"),
                   \A e \in missed' : e > f
            PROVE  ~MustWithhold(f)'
        <5>1. cfg.gate /\ f \in 1..N /\ f <= Got(pos + n)
          BY <2>1, <3>2, <4>1
        <5> QED BY <2>7, <3>3, <4>1, <5>1
      <4> QED BY <4>1 DEF GateHolds, EventsWith
    <3>5. GateKnows'
      <4>1. ASSUME cfg.gate, missed' = {}
            PROVE  Tells(partials', Unfinished(Got(pos')), Got(pos'))
        <5>1. missed = {}
          BY <2>1, <4>1
        <5> QED BY <1>1, <2>1, <2>9, <4>1, <5>1, ChunkTells
      <4> QED BY <2>1, <4>1, SameEvents DEF GateKnows
    <3> QED BY <1>0, <2>6, <3>4, <3>5 DEF GateInv
  <2> QED BY <2>1, <2>8, <2>9
<1>2. ASSUME StreamEnd PROVE GateInv'
  <2>1. /\ status' = "ended" /\ forwarded' = forwarded \o buffer /\ buffer' = <<>>
        /\ cfg' = cfg /\ events' = events /\ pos' = pos /\ missed' = missed
    BY <1>2 DEF StreamEnd, gateVars
  <2>2. forwarded \o buffer \in Seq(Pieces(events))
    BY <1>0, ConcatProperties DEF WireTypes
  <2>3. forwarded' \o buffer' = forwarded \o buffer
    BY <2>1, <2>2, ConcatEmptySeq
  <2>4. \A f : MustWithhold(f)' = MustWithhold(f)
    BY <2>1, SameEvents
  <2>5. GateHolds'
    BY <1>0, <2>1, <2>3, <2>4 DEF GateHolds, EventsWith
  <2>6. GateKnows'
    BY <2>1 DEF GateKnows
  <2> QED BY <1>0, <2>1, <2>5, <2>6 DEF GateInv
<1>3. CASE (\E s \in {"failed", "dropped"} : StreamStop(s)) \/ UNCHANGED vars
  <2>1. /\ status' \in {"failed", "dropped", status}
        /\ forwarded' = forwarded /\ buffer' = buffer
        /\ cfg' = cfg /\ events' = events /\ pos' = pos /\ missed' = missed
        /\ partials' = partials
    BY <1>3 DEF StreamStop, vars, textVars, gateVars
  <2>2. \A f : MustWithhold(f)' = MustWithhold(f)
    BY <2>1, SameEvents
  <2>3. GateHolds'
    BY <1>0, <2>1, <2>2 DEF GateHolds, EventsWith
  <2>4. GateKnows'
    BY <1>0, <2>1, SameEvents DEF GateKnows
  <2> QED BY <1>0, <2>1, <2>3, <2>4 DEF GateInv
<1> QED BY <1>1, <1>2, <1>3 DEF Next

LEMMA GateInvariant == Spec => []GateInv
BY GateInit, GateStep, PTL DEF Spec

\* DeniedCallWithheld for every answer, however it is cut: the tool gate stops
\* the event that completes a denied call, whatever calls came before it and
\* however their deltas were mixed, if it has seen every event whole.
THEOREM DeniedCallsWithheld == Spec => []DeniedCallWithheld
<1>1. GateInv => DeniedCallWithheld
  <2> SUFFICES ASSUME GateInv, cfg.gate, NEW f \in DOMAIN events, MustWithhold(f),
                      \A e \in missed : e > f, <<f, "tail">> \in Range(forwarded)
               PROVE  FALSE
    BY DEF DeniedCallWithheld
  <2>1. forwarded \in Seq(Pieces(events)) /\ buffer \in Seq(Pieces(events))
    BY DEF GateInv, TypeInv, FramingInv, WireTypes
  <2>2. <<f, "tail">> \in Range(forwarded \o buffer)
    BY <2>1, RangeConcatenation
  <2>3. f \in EventsWith(forwarded \o buffer, "tail")
    <3> DEFINE p == <<f, "tail">>
    <3>1. p \in Range(forwarded \o buffer) /\ p[1] = f /\ p[2] = "tail"
      BY <2>2
    <3> HIDE DEF p
    <3> QED BY <3>1 DEF EventsWith
  <2> QED BY <2>3 DEF GateInv, GateHolds
<1> QED BY <1>1, GateInvariant, PTL

-----------------------------------------------------------------------------
(* The streamed text: replacing a placeholder in a part                    *)

\* A placeholder and what stands for it.
IsEntry(p, v) ==
  /\ p \in Seq(Atoms) /\ Len(p) = 4
  /\ p[1] = Open /\ p[2] \in Inner /\ p[3] \in Inner /\ p[4] = Close
  /\ v \in Seq(Atoms)
  /\ \A i \in 1..Len(v) : v[i] # Open
  /\ \E i \in 1..Len(v) : v[i] \notin Inner

LEMMA EntriesLegible ==
  ASSUME Legible, NEW k \in 1..Len(Entries)
  PROVE  IsEntry(Entries[k].token, Entries[k].value)
<1> DEFINE e == Entries[k]  p == e.token  v == e.value
<1>1. k \in DOMAIN Entries /\ e \in [token : Seq(Atoms), value : Seq(Atoms)]
  BY ConstantsAssumption, LenProperties, ElementOfSeq
<1>2. p \in Seq(Atoms) /\ v \in Seq(Atoms)
  BY <1>1
<1>3. p = Token(p[2], p[3]) /\ Open \notin Range(v) /\ ~(Range(v) \subseteq Inner)
  BY <1>1 DEF Legible
<1>4. p[2] \in Inner /\ p[3] \in Inner
  BY <1>1 DEF Inner
<1>5. Len(p) = 4 /\ p[1] = Open /\ p[4] = Close
  <2> DEFINE x == p[2]  y == p[3]
  <2>1. p = <<Open, x, y, Close>>
    BY <1>3 DEF Token
  <2> HIDE DEF x, y, p
  <2> QED
    BY <2>1
<1>6. Range(v) = {v[i] : i \in 1..Len(v)}
  BY <1>2, RangeEquality
<1> HIDE DEF p, v
<1> QED
  BY <1>2, <1>3, <1>4, <1>5, <1>6 DEF IsEntry, p, v

\* The atoms of a placeholder in a text.
LEMMA EntryAt ==
  ASSUME NEW p \in Seq(Atoms), NEW v \in Seq(Atoms), IsEntry(p, v), NEW t \in Seq(Atoms),
         NEW i \in Int, Occurs(t, p, i)
  PROVE  /\ i >= 1 /\ i + 3 <= Len(t)
         /\ t[i] = Open /\ t[i + 1] \in Inner /\ t[i + 2] \in Inner /\ t[i + 3] = Close
<1>1. Len(p) = 4
  BY DEF IsEntry
<1>2. /\ i >= 1 /\ i + 3 <= Len(t)
      /\ t[i] = p[1] /\ t[i + 1] = p[2] /\ t[i + 2] = p[3] /\ t[i + 3] = p[4]
  BY <1>1, OccursToken
<1>3. p[1] = Open /\ p[2] \in Inner /\ p[3] \in Inner /\ p[4] = Close
  BY DEF IsEntry
<1> QED
  BY <1>2, <1>3

\* t ends in the beginning of a placeholder, a bracket and d atoms after it.
Begun(t, d) ==
  /\ Len(t) > d
  /\ t[Len(t) - d] = Open
  /\ \A j \in 0..d - 1 : t[Len(t) - j] \in Inner

\* No placeholder begins in t and ends in what follows it.
Safe(t) == \A d \in 0..2 : ~Begun(t, d)

LEMMA NothingBegun == \A d \in 0..2 : ~Begun(<<>>, d)
<1>1. Len(<<>>) = 0
  BY EmptySeq
<1> QED
  BY <1>1 DEF Begun

\* One atom more.
LEMMA BegunAppend ==
  ASSUME Legible, NEW t \in Seq(Atoms), NEW x \in Atoms, NEW d \in Nat
  PROVE  /\ Begun(t \o <<x>>, 0) <=> x = Open
         /\ d >= 1 => (Begun(t \o <<x>>, d) <=> x \in Inner /\ Begun(t, d - 1))
<1> DEFINE u == t \o <<x>>  n == Len(t)
<1>1. /\ n \in Nat /\ Len(u) = n + 1 /\ u[n + 1] = x /\ \A i \in 1..n : u[i] = t[i]
  <2>1. u = Append(t, x)
    BY AppendIsConcat
  <2> QED
    BY <2>1, AppendProperties, LenProperties
<1> HIDE DEF u
<1>2. Begun(u, 0) <=> x = Open
  BY <1>1 DEF Begun
<1>3. ASSUME d >= 1, Begun(u, d)
      PROVE  x \in Inner /\ Begun(t, d - 1)
  <2>1. Len(u) > d /\ u[Len(u) - d] = Open /\ \A j \in 0..d - 1 : u[Len(u) - j] \in Inner
    BY <1>3 DEF Begun
  <2>2. x \in Inner
    <3>1. 0 \in 0..d - 1 /\ Len(u) - 0 = n + 1
      BY <1>1, <1>3
    <3> QED
      BY <1>1, <2>1, <3>1
  <2>3. n > d - 1 /\ t[n - (d - 1)] = Open
    <3>1. Len(u) - d = n - (d - 1) /\ n - (d - 1) \in 1..n
      BY <1>1, <1>3, <2>1
    <3> QED
      BY <1>1, <2>1, <3>1
  <2>4. ASSUME NEW j \in 0..(d - 1) - 1
        PROVE  t[n - j] \in Inner
    <3>1. j + 1 \in 0..d - 1 /\ Len(u) - (j + 1) = n - j /\ n - j \in 1..n
      BY <1>1, <1>3, <2>1
    <3> QED
      BY <1>1, <2>1, <3>1
  <2> QED
    BY <2>2, <2>3, <2>4 DEF Begun
<1>4. ASSUME d >= 1, x \in Inner, Begun(t, d - 1)
      PROVE  Begun(u, d)
  <2>1. n > d - 1 /\ t[n - (d - 1)] = Open /\ \A j \in 0..(d - 1) - 1 : t[n - j] \in Inner
    BY <1>4 DEF Begun
  <2>2. Len(u) > d /\ u[Len(u) - d] = Open
    <3>1. Len(u) - d = n - (d - 1) /\ n - (d - 1) \in 1..n
      BY <1>1, <1>4, <2>1
    <3> QED
      BY <1>1, <2>1, <3>1
  <2>3. ASSUME NEW j \in 0..d - 1
        PROVE  u[Len(u) - j] \in Inner
    <3>1. CASE j = 0
      BY <1>1, <1>4, <3>1
    <3>2. CASE j # 0
      <4>1. j - 1 \in 0..(d - 1) - 1 /\ Len(u) - j = n - (j - 1) /\ n - (j - 1) \in 1..n
        BY <1>1, <1>4, <2>1, <3>2
      <4> QED
        BY <1>1, <2>1, <4>1
    <3> QED
      BY <3>1, <3>2
  <2> QED
    BY <2>2, <2>3 DEF Begun
<1> QED
  BY <1>2, <1>3, <1>4 DEF u

\* A value at the end: nothing has begun.
LEMMA ValueEnds ==
  ASSUME NEW p \in Seq(Atoms), NEW v \in Seq(Atoms), IsEntry(p, v),
         NEW t \in Seq(Atoms), NEW d \in Nat
  PROVE  ~Begun(t \o v, d)
<1> DEFINE u == t \o v  n == Len(t)  m == Len(v)
<1>0. v \in Seq(Atoms) /\ \A i \in 1..m : v[i] # Open
  BY DEF IsEntry
<1>1. /\ n \in Nat /\ m \in Nat /\ Len(u) = n + m
      /\ \A j \in 1..n + m : u[j] = IF j <= n THEN t[j] ELSE v[j - n]
  BY <1>0, ConcatProperties, LenProperties
<1>v. \A i \in 1..m : u[n + i] = v[i]
  <2> SUFFICES ASSUME NEW i \in 1..m
               PROVE  u[n + i] = v[i]
    OBVIOUS
  <2>1. n + i \in 1..n + m /\ ~(n + i <= n) /\ (n + i) - n = i
    BY <1>1
  <2> HIDE DEF u
  <2> QED
    BY <1>1, <2>1
<1>2. PICK i \in 1..m : v[i] \notin Inner
  BY DEF IsEntry
<1> SUFFICES ASSUME Begun(u, d)
             PROVE  FALSE
  OBVIOUS
<1>3. Len(u) > d /\ u[Len(u) - d] = Open /\ \A j \in 0..d - 1 : u[Len(u) - j] \in Inner
  BY DEF Begun
<1> HIDE DEF u, n, m
<1>4. CASE Len(u) - d > n
  <2>1. Len(u) - d - n \in 1..m /\ n + (Len(u) - d - n) = Len(u) - d
    BY <1>1, <1>3, <1>4
  <2> QED
    BY <1>0, <1>3, <1>v, <2>1
<1>5. CASE ~(Len(u) - d > n)
  <2>1. m - i \in 0..d - 1 /\ Len(u) - (m - i) = n + i
    BY <1>1, <1>2, <1>5
  <2> QED
    BY <1>2, <1>3, <1>v, <2>1
<1> QED
  BY <1>4, <1>5

\* After a safe text a placeholder begins anew.
LEMMA SafeParts ==
  ASSUME NEW p \in Seq(Atoms), NEW v \in Seq(Atoms), IsEntry(p, v),
         NEW a \in Seq(Atoms), NEW b \in Seq(Atoms), Safe(a)
  PROVE  ~Straddles(a, b, p)
<1> DEFINE c == a \o b  n == Len(a)
<1>0. p \in Seq(Atoms) /\ Len(p) = 4 /\ p[1] = Open /\ p[2] \in Inner /\ p[3] \in Inner
  BY DEF IsEntry
<1>1. n \in Nat /\ Len(b) \in Nat /\ c \in Seq(Atoms) /\ \A j \in 1..n : c[j] = a[j]
  <2>1. /\ n \in Nat /\ Len(b) \in Nat /\ c \in Seq(Atoms)
        /\ \A j \in 1..n + Len(b) : c[j] = IF j <= n THEN a[j] ELSE b[j - n]
    BY ConcatProperties, LenProperties
  <2> HIDE DEF c
  <2> QED
    BY <2>1
<1>2. ASSUME NEW i \in 1..n, i + 4 - 1 > n, Occurs(c, p, i)
      PROVE  FALSE
  <2>1. c[i] = Open /\ c[i + 1] \in Inner /\ c[i + 2] \in Inner
    <3>1. i \in Int
      OBVIOUS
    <3> HIDE DEF c
    <3> QED
      BY <1>1, <1>2, <3>1, EntryAt
  <2> HIDE DEF c, n
  <2>2. n - i \in 0..2 /\ n > n - i /\ n - (n - i) = i
    BY <1>1, <1>2
  <2>3. a[i] = Open
    BY <1>1, <2>1
  <2>4. ASSUME NEW j \in 0..(n - i) - 1
        PROVE  a[n - j] \in Inner
    <3>1. n - j \in 1..n /\ (n - j = i + 1 \/ n - j = i + 2)
      BY <1>1, <1>2
    <3> QED
      BY <1>1, <2>1, <3>1
  <2>5. Begun(a, n - i)
    BY <2>2, <2>3, <2>4 DEF Begun, n
  <2> QED
    BY <2>2, <2>5 DEF Safe
<1> QED
  BY <1>0, <1>2 DEF Straddles

\* Two texts one after the other, atom by atom.
LEMMA JoinAtoms ==
  ASSUME NEW a \in Seq(Atoms), NEW b \in Seq(Atoms)
  PROVE  /\ a \o b \in Seq(Atoms) /\ Len(a) \in Nat /\ Len(b) \in Nat
         /\ Len(a \o b) = Len(a) + Len(b)
         /\ \A i \in 1..Len(a) : (a \o b)[i] = a[i]
         /\ \A i \in 1..Len(b) : (a \o b)[Len(a) + i] = b[i]
<1> DEFINE c == a \o b  n == Len(a)  m == Len(b)
<1>1. /\ n \in Nat /\ m \in Nat /\ c \in Seq(Atoms) /\ Len(c) = n + m
      /\ \A j \in 1..n + m : c[j] = IF j <= n THEN a[j] ELSE b[j - n]
  BY ConcatProperties, LenProperties
<1> HIDE DEF c, n, m
<1>2. \A i \in 1..n : c[i] = a[i]
  BY <1>1
<1>3. ASSUME NEW i \in 1..m
      PROVE  c[n + i] = b[i]
  <2>1. n + i \in 1..n + m /\ ~(n + i <= n) /\ (n + i) - n = i
    BY <1>1
  <2> QED
    BY <1>1, <2>1
<1> QED
  BY <1>1, <1>2, <1>3 DEF c, n, m

\* Replacing a placeholder in one text after another.
LEMMA ReplaceParts ==
  ASSUME NEW p \in Seq(Atoms), NEW v \in Seq(Atoms), IsEntry(p, v),
         NEW a \in Seq(Atoms), NEW b \in Seq(Atoms),
         ~Straddles(a, b, p)
  PROVE  Replace(a \o b, p, v) = Replace(a, p, v) \o Replace(b, p, v)
<1>0. p \in Seq(Atoms) /\ Len(p) = 4 /\ v \in Seq(Atoms)
  BY DEF IsEntry
<1>1. Len(p) >= 1
  BY <1>0
<1> QED
  BY <1>1, ReplaceJoin

\* An atom that ends no placeholder is as good as any.
LEMMA ReplaceAtom ==
  ASSUME NEW p \in Seq(Atoms), NEW v \in Seq(Atoms), IsEntry(p, v),
         NEW b \in Seq(Atoms), NEW x \in Atoms,
         ~Occurs(b \o <<x>>, p, Len(b) - 2)
  PROVE  Replace(b \o <<x>>, p, v) = Replace(b, p, v) \o <<x>>
<1> DEFINE u == <<x>>  t == b \o u  n == Len(b)
<1>0. p \in Seq(Atoms) /\ Len(p) = 4 /\ v \in Seq(Atoms)
  BY DEF IsEntry
<1>1. u \in Seq(Atoms) /\ Len(u) = 1
  OBVIOUS
<1>2. n \in Nat /\ Len(t) = n + 1 /\ t \in Seq(Atoms)
  BY <1>1, JoinAtoms
<1>3. ~Occurs(t, p, n - 2)
  OBVIOUS
<1> HIDE DEF u
<1>4. \A i \in Int : ~Occurs(u, p, i)
  BY <1>0, <1>1 DEF Occurs
<1>5. Replace(u, p, v) = u
  BY <1>0, <1>1, <1>4, ReplaceNone
<1>6. ASSUME NEW i \in 1..n, i + Len(p) - 1 > n, Occurs(t, p, i)
      PROVE  FALSE
  <2>1. i + Len(p) - 1 <= Len(t)
    BY <1>6 DEF Occurs
  <2> HIDE DEF t, n
  <2>2. i = n - 2
    BY <1>0, <1>2, <1>6, <2>1
  <2> QED
    BY <1>3, <1>6, <2>2
<1>7. ~Straddles(b, u, p)
  BY <1>6 DEF Straddles
<1>8. Replace(t, p, v) = Replace(b, p, v) \o Replace(u, p, v)
  BY <1>0, <1>1, <1>7, ReplaceParts
<1> QED
  BY <1>5, <1>8 DEF u

\* A placeholder at the end gives way to its value at the end.
LEMMA ReplaceEnd ==
  ASSUME Legible, NEW p \in Seq(Atoms), NEW v \in Seq(Atoms), IsEntry(p, v),
         NEW t \in Seq(Atoms), Occurs(t, p, Len(t) - 3)
  PROVE  \E r \in Seq(Atoms) : Replace(t, p, v) = r \o v
<1> DEFINE n == Len(t) - 4  c == SubSeq(t, 1, n)
<1>0. /\ p \in Seq(Atoms) /\ Len(p) = 4 /\ v \in Seq(Atoms)
      /\ p[1] = Open /\ p[2] \in Inner /\ p[3] \in Inner /\ p[4] = Close
  BY DEF IsEntry
<1>b. Close \notin Inner /\ Open # Close
  BY DEF Legible, Open, Close
<1>1. Len(t) \in Nat /\ n \in Nat /\ Len(t) - 3 >= 1
  BY <1>0, LenProperties DEF Occurs
<1>2. c \in Seq(Atoms) /\ Len(c) = n /\ \A i \in 1..n : c[i] = t[i]
  <2>1. \A i \in 1..n : t[i] \in Atoms
    BY <1>1, ElementOfSeq
  <2>2. /\ c \in Seq(Atoms)
        /\ Len(c) = IF 1 <= n THEN n - 1 + 1 ELSE 0
        /\ \A i \in 1..n - 1 + 1 : c[i] = t[1 + i - 1]
    BY <1>1, <2>1, SubSeqProperties
  <2> HIDE DEF c, n
  <2> QED
    BY <1>1, <2>2
<1>3. t = c \o p
  <2> HIDE DEF c
  <2> DEFINE u == c \o p
  <2>1. /\ u \in Seq(Atoms) /\ Len(u) = Len(c) + Len(p)
        /\ \A i \in 1..Len(c) : u[i] = c[i]
        /\ \A i \in 1..Len(p) : u[Len(c) + i] = p[i]
    <3>1. c \in Seq(Atoms) /\ p \in Seq(Atoms)
      BY <1>0, <1>2
    <3> QED
      BY <3>1, JoinAtoms
  <2>2. \A j \in 1..4 : t[n + j] = p[j]
    <3>1. Len(t) - 3 \in Nat
      BY <1>1
    <3>2. MatchesAt(t, p, Len(t) - 3)
      BY <1>0, <3>1, OccursByAtoms
    <3>3. \A j \in 1..Len(p) : t[(Len(t) - 3) + j - 1] = p[j]
      BY <3>2 DEF MatchesAt
    <3>4. ASSUME NEW j \in 1..4
          PROVE  (Len(t) - 3) + j - 1 = n + j
      BY <1>1
    <3> QED
      BY <1>0, <3>3, <3>4
  <2> HIDE DEF u
  <2>3. Len(u) = Len(t)
    BY <1>0, <1>1, <1>2, <2>1
  <2>4. ASSUME NEW i \in 1..Len(t)
        PROVE  u[i] = t[i]
    <3>1. CASE i <= n
      BY <1>1, <1>2, <2>1, <3>1
    <3>2. CASE i > n
      <4>1. i - n \in 1..4 /\ n + (i - n) = i
        BY <1>1, <3>2
      <4>2. PICK j \in 1..4 : n + j = i
        BY <4>1
      <4>3. u[n + j] = p[j] /\ t[n + j] = p[j]
        BY <1>0, <1>2, <2>1, <2>2
      <4> QED
        BY <4>2, <4>3
    <3> QED
      BY <1>1, <3>1, <3>2
  <2>5. u = t
    BY <2>1, <2>3, <2>4, SeqEqual
  <2> QED
    BY <2>5 DEF u
<1> HIDE DEF c
<1>4. ASSUME NEW i \in 1..Len(c), i + Len(p) - 1 > Len(c), Occurs(c \o p, p, i)
      PROVE  FALSE
  <2>1. t[i + 3] = Close
    <3>1. i \in Int /\ Occurs(t, p, i)
      BY <1>3, <1>4
    <3> QED
      BY <3>1, EntryAt
  <2>2. (i + 3) - n \in 1..3 /\ n + ((i + 3) - n) = i + 3
    <3>1. i \in 1..n /\ i + 4 - 1 > n
      BY <1>0, <1>2, <1>4
    <3>2. n \in Nat
      BY <1>1
    <3> HIDE DEF n
    <3> QED
      BY <3>1, <3>2
  <2>3. \A j \in 1..Len(p) : t[n + j] = p[j]
    <3>1. \A j \in 1..Len(p) : (c \o p)[Len(c) + j] = p[j]
      BY <1>2, JoinAtoms
    <3>2. Len(c) = n
      BY <1>2
    <3> HIDE DEF n
    <3> QED
      BY <1>3, <3>1, <3>2
  <2>4. PICK j \in 1..3 : n + j = i + 3
    BY <2>2
  <2>5. p[j] = Close
    BY <1>0, <2>1, <2>3, <2>4
  <2>6. j = 1 \/ j = 2 \/ j = 3
    OBVIOUS
  <2> QED
    BY <1>0, <1>b, <2>5, <2>6
<1>5. ~Straddles(c, p, p)
  BY <1>4 DEF Straddles
<1>6. Replace(t, p, v) = Replace(c, p, v) \o Replace(p, p, v)
  BY <1>0, <1>2, <1>3, <1>5, ReplaceParts
<1>7. Replace(p, p, v) = v /\ Replace(c, p, v) \in Seq(Atoms)
  BY <1>0, <1>2, ReplaceWhole, ReplaceTyped
<1> QED
  BY <1>6, <1>7

\* Replacing begins no placeholder.
LEMMA BegunBefore ==
  ASSUME Legible, NEW p \in Seq(Atoms), NEW v \in Seq(Atoms), IsEntry(p, v),
         NEW d \in Nat, NEW t \in Seq(Atoms),
         d >= 1 => \A b \in Seq(Atoms) : Begun(Replace(b, p, v), d - 1) => Begun(b, d - 1),
         Begun(Replace(t, p, v), d)
  PROVE  Begun(t, d)
<1>0. p \in Seq(Atoms) /\ Len(p) = 4 /\ v \in Seq(Atoms)
  BY DEF IsEntry
<1>1. CASE t = <<>>
  <2>1. Len(t) = 0 /\ Len(p) \in Nat
    BY <1>0, <1>1, EmptySeq
  <2>2. \A i \in Int : ~Occurs(t, p, i)
    BY <1>0, <2>1 DEF Occurs
  <2>4. Replace(t, p, v) = t
    BY <1>0, <2>1, <2>2, ReplaceNone
  <2> QED
    BY <2>4
<1>2. CASE t # <<>>
  <2>1. PICK b \in Seq(Atoms), x \in Atoms : t = Append(b, x)
    BY <1>2, SequenceEmptyOrAppend
  <2>2. t = b \o <<x>>
    BY <2>1, AppendIsConcat
  <2>3. Len(t) = Len(b) + 1 /\ Len(b) \in Nat
    BY <2>1, AppendProperties, LenProperties
  <2>4. CASE Occurs(t, p, Len(t) - 3)
    <3>1. PICK r \in Seq(Atoms) : Replace(t, p, v) = r \o v
      BY <2>4, ReplaceEnd
    <3> QED
      BY <3>1, ValueEnds
  <2>5. CASE ~Occurs(t, p, Len(t) - 3)
    <3>1. Len(t) - 3 = Len(b) - 2
      BY <2>3
    <3>2. Replace(t, p, v) = Replace(b, p, v) \o <<x>>
      BY <2>2, <2>5, <3>1, ReplaceAtom
    <3>3. Replace(b, p, v) \in Seq(Atoms)
      BY <1>0, ReplaceTyped
    <3>4. Begun(Replace(b, p, v) \o <<x>>, d)
      BY <3>2
    <3>5. CASE d = 0
      <4>1. x = Open
        BY <3>3, <3>4, <3>5, BegunAppend
      <4>2. Begun(b \o <<x>>, 0)
        BY <4>1, BegunAppend
      <4> QED
        BY <2>2, <3>5, <4>2
    <3>6. CASE d >= 1
      <4>1. x \in Inner /\ Begun(Replace(b, p, v), d - 1)
        BY <3>3, <3>4, <3>6, BegunAppend
      <4>2. Begun(b, d - 1)
        BY <3>6, <4>1
      <4>3. Begun(b \o <<x>>, d)
        BY <3>6, <4>1, <4>2, BegunAppend
      <4> QED
        BY <2>2, <4>3
    <3> QED
      BY <3>5, <3>6
  <2> QED
    BY <2>4, <2>5
<1> QED
  BY <1>1, <1>2

\* What is safe stays safe.
LEMMA SafeReplace ==
  ASSUME Legible, NEW p \in Seq(Atoms), NEW v \in Seq(Atoms), IsEntry(p, v),
         NEW t \in Seq(Atoms), Safe(t)
  PROVE  Safe(Replace(t, p, v))
<1> DEFINE G == {d \in 0..2 : \A b \in Seq(Atoms) : Begun(Replace(b, p, v), d) => Begun(b, d)}
<1>1. 0 \in G
  <2>1. ASSUME NEW b \in Seq(Atoms), Begun(Replace(b, p, v), 0)
        PROVE  Begun(b, 0)
    <3>1. 0 \in Nat /\ ~(0 >= 1)
      OBVIOUS
    <3> QED
      BY <2>1, <3>1, BegunBefore
  <2> QED
    BY <2>1
<1>2. ASSUME NEW d \in 0..2 - 1, d \in G
      PROVE  d + 1 \in G
  <2>1. d + 1 \in Nat /\ d + 1 \in 0..2 /\ (d + 1) - 1 = d
    OBVIOUS
  <2>2. \A b \in Seq(Atoms) : Begun(Replace(b, p, v), d) => Begun(b, d)
    BY <1>2
  <2>3. ASSUME NEW b \in Seq(Atoms), Begun(Replace(b, p, v), d + 1)
        PROVE  Begun(b, d + 1)
    BY <2>1, <2>2, <2>3, BegunBefore
  <2> QED
    BY <2>1, <2>3
<1> HIDE DEF G
<1>3. \A d \in 0..2 : d \in G
  BY <1>1, <1>2, InductUpTo
<1> QED
  BY <1>3 DEF G, Safe

-----------------------------------------------------------------------------
(* Restoring a text in parts                                               *)

\* h[k] is what the first k entries of the vault have made of t.
Restored(t, h) ==
  /\ h[0] = t
  /\ \A k \in 1..Len(Entries) : h[k] = Replace(h[k - 1], Entries[k].token, Entries[k].value)
  /\ Restore(t, Entries) = h[Len(Entries)]

LEMMA RestoreRuns ==
  ASSUME NEW t
  PROVE  \E h : Restored(t, h)
<1>1. Len(Entries) \in Nat /\ DOMAIN Entries = 1..Len(Entries)
  BY ConstantsAssumption, LenProperties
<1>2. PICK h : Vault!Course(0, t, Entries, Len(Entries), h)
               /\ Vault!Fold(0, t, Entries) = h[Len(Entries)]
  BY <1>1, Vault!FoldRuns
<1>3. Restore(t, Entries) = Vault!Fold(0, t, Entries)
  BY VaultFolds
<1> QED
  BY <1>2, <1>3 DEF Restored, Vault!Course, RestoreIn

\* The vault's entries have their types.
LEMMA EntriesTyped ==
  ASSUME Legible
  PROVE  /\ Len(Entries) \in Nat
         /\ \A k \in 1..Len(Entries) :
              /\ Entries[k].token \in Seq(Atoms) /\ Entries[k].value \in Seq(Atoms)
              /\ IsEntry(Entries[k].token, Entries[k].value)
<1>1. Len(Entries) \in Nat
  BY ConstantsAssumption, LenProperties
<1>2. ASSUME NEW k \in 1..Len(Entries)
      PROVE  IsEntry(Entries[k].token, Entries[k].value)
  BY EntriesLegible
<1> QED
  BY <1>1, <1>2 DEF IsEntry

\* Restoring in one text after another that is safe.
LEMMA RestoreJoin ==
  ASSUME Legible, NEW a \in Seq(Atoms), NEW b \in Seq(Atoms), Safe(a)
  PROVE  Restore(a \o b, Entries) = Restore(a, Entries) \o Restore(b, Entries)
<1> DEFINE n == Len(Entries)
<1>0. n \in Nat
  BY EntriesTyped
<1>1. PICK f : Restored(a, f)
  BY RestoreRuns
<1>2. PICK g : Restored(b, g)
  BY RestoreRuns
<1>3. PICK h : Restored(a \o b, h)
  BY RestoreRuns
<1>4. /\ f[0] = a /\ Restore(a, Entries) = f[n]
      /\ g[0] = b /\ Restore(b, Entries) = g[n]
      /\ h[0] = a \o b /\ Restore(a \o b, Entries) = h[n]
  BY <1>1, <1>2, <1>3 DEF Restored
<1> DEFINE S == {k \in 0..n : /\ f[k] \in Seq(Atoms) /\ g[k] \in Seq(Atoms) /\ Safe(f[k])
                              /\ h[k] = f[k] \o g[k]}
<1>5. 0 \in S
  <2>1. 0 \in 0..n
    BY <1>0
  <2> HIDE DEF n
  <2>2. f[0] \in Seq(Atoms) /\ g[0] \in Seq(Atoms) /\ Safe(f[0]) /\ h[0] = f[0] \o g[0]
    BY <1>4, Zenon
  <2> QED
    BY <2>1, <2>2
<1>6. ASSUME NEW k \in 0..n - 1, k \in S
      PROVE  k + 1 \in S
  <2> DEFINE p == Entries[k + 1].token  v == Entries[k + 1].value  x == f[k]  y == g[k]
  <2>1. k + 1 \in 1..n /\ (k + 1) - 1 = k /\ k + 1 \in 0..n
    BY <1>0
  <2>2. p \in Seq(Atoms) /\ v \in Seq(Atoms) /\ IsEntry(p, v)
    BY <2>1, EntriesTyped
  <2>3. x \in Seq(Atoms) /\ y \in Seq(Atoms) /\ Safe(x) /\ h[k] = x \o y
    BY <1>6
  <2>4. f[k + 1] = Replace(x, p, v) /\ g[k + 1] = Replace(y, p, v)
        /\ h[k + 1] = Replace(h[k], p, v)
    BY <1>1, <1>2, <1>3, <2>1 DEF Restored
  <2> HIDE DEF p, v, x, y, n
  <2>5. ~Straddles(x, y, p)
    BY <2>2, <2>3, SafeParts
  <2>6. Replace(x \o y, p, v) = Replace(x, p, v) \o Replace(y, p, v)
    BY <2>2, <2>3, <2>5, ReplaceParts
  <2>7. Replace(x, p, v) \in Seq(Atoms) /\ Replace(y, p, v) \in Seq(Atoms)
    BY <2>2, <2>3, ReplaceTyped
  <2>8. Safe(Replace(x, p, v))
    BY <2>2, <2>3, SafeReplace
  <2> QED
    BY <2>1, <2>3, <2>4, <2>6, <2>7, <2>8
<1> HIDE DEF S, n
<1>7. \A k \in 0..n : k \in S
  BY <1>0, <1>5, <1>6, InductUpTo
<1>8. n \in S
  BY <1>0, <1>7
<1> QED
  BY <1>4, <1>8 DEF S

\* A text in which no placeholder occurs is left as it is.
LEMMA RestoreNone ==
  ASSUME Legible, NEW t \in Seq(Atoms),
         \A k \in 1..Len(Entries) : \A i \in Int : ~Occurs(t, Entries[k].token, i)
  PROVE  Restore(t, Entries) = t
<1> DEFINE n == Len(Entries)
<1>0. n \in Nat
  BY EntriesTyped
<1>1. PICK h : Restored(t, h)
  BY RestoreRuns
<1> DEFINE S == {k \in 0..n : h[k] = t}
<1>2. 0 \in S
  BY <1>0, <1>1 DEF Restored
<1>3. ASSUME NEW k \in 0..n - 1, k \in S
      PROVE  k + 1 \in S
  <2> DEFINE p == Entries[k + 1].token  v == Entries[k + 1].value
  <2>1. k + 1 \in 1..n /\ (k + 1) - 1 = k /\ k + 1 \in 0..n
    BY <1>0
  <2>2. p \in Seq(Atoms) /\ v \in Seq(Atoms) /\ Len(p) \in Nat
    BY <2>1, EntriesTyped, LenProperties
  <2>3. h[k + 1] = Replace(h[k], p, v)
    BY <1>1, <2>1 DEF Restored
  <2>4. \A i \in Int : ~Occurs(t, p, i)
    BY <2>1
  <2> HIDE DEF p, v, n
  <2>5. Replace(t, p, v) = t
    BY <2>2, <2>4, ReplaceNone
  <2> QED
    BY <1>3, <2>1, <2>3, <2>5
<1> HIDE DEF S, n
<1>4. \A k \in 0..n : k \in S
  BY <1>0, <1>2, <1>3, InductUpTo
<1>5. n \in S
  BY <1>0, <1>4
<1> QED
  BY <1>1, <1>5 DEF S, Restored, n

\* One atom, and an open window.
LEMMA RestoreAtom ==
  ASSUME Legible, NEW x \in Atoms
  PROVE  Restore(<<x>>, Entries) = <<x>>
<1> DEFINE u == <<x>>
<1>1. u \in Seq(Atoms) /\ Len(u) = 1
  OBVIOUS
<1> HIDE DEF u
<1>2. ASSUME NEW k \in 1..Len(Entries), NEW i \in Int
      PROVE  ~Occurs(u, Entries[k].token, i)
  <2>1. Len(Entries[k].token) = 4
    BY EntriesTyped DEF IsEntry
  <2> QED
    BY <1>1, <2>1 DEF Occurs
<1>3. Restore(u, Entries) = u
  BY <1>1, <1>2, RestoreNone
<1> QED
  BY <1>3 DEF u

LEMMA RestoreWindow ==
  ASSUME Legible, NEW w \in Windows
  PROVE  Restore(w, Entries) = w
<1>1. w \in Seq(Atoms) /\ Len(w) \in Nat
  BY LenProperties DEF Windows
<1>2. \A i \in 1..Len(w) : w[i] # Close
  <2>1. CASE w = <<>>
    <3>1. Len(w) = 0
      BY <2>1, EmptySeq
    <3> QED
      BY <3>1
  <2>2. CASE w # <<>>
    <3>1. Close \notin Range(w)
      BY <2>2 DEF Windows
    <3>2. Range(w) = {w[i] : i \in 1..Len(w)}
      BY <1>1, RangeEquality
    <3> QED
      BY <3>1, <3>2
  <2> QED
    BY <2>1, <2>2
<1>3. ASSUME NEW k \in 1..Len(Entries), NEW i \in Int, Occurs(w, Entries[k].token, i)
      PROVE  FALSE
  <2> DEFINE p == Entries[k].token
  <2> DEFINE v == Entries[k].value
  <2>1. p \in Seq(Atoms) /\ v \in Seq(Atoms) /\ IsEntry(p, v)
    BY EntriesTyped
  <2>2. Occurs(w, p, i)
    BY <1>3
  <2> HIDE DEF p, v
  <2>3. i >= 1 /\ i + 3 <= Len(w) /\ w[i + 3] = Close
    BY <1>1, <2>1, <2>2, EntryAt
  <2> QED
    BY <1>1, <1>2, <2>3
<1> QED
  BY <1>1, <1>3, RestoreNone

-----------------------------------------------------------------------------
(* The windows of the de-anonymiser                                        *)

\* Of the text u, the window w is held back and s, the rest restored, shown.
Track(u, w, s) ==
  \E v \in Seq(Atoms) : u = v \o w /\ Safe(v) /\ s = Restore(v, Entries)

LEMMA SafeAppend ==
  ASSUME Legible, NEW v \in Seq(Atoms), NEW x \in Atoms, x # Open, Safe(v) \/ x = Close
  PROVE  Safe(v \o <<x>>)
<1>1. Close \notin Inner
  BY DEF Legible
<1> SUFFICES ASSUME NEW d \in 0..2, Begun(v \o <<x>>, d)
             PROVE  FALSE
  BY DEF Safe
<1>2. CASE d = 0
  BY <1>2, BegunAppend
<1>3. CASE d # 0
  <2>1. d \in Nat /\ d >= 1 /\ d - 1 \in 0..2
    BY <1>3
  <2>2. x \in Inner /\ Begun(v, d - 1)
    BY <2>1, BegunAppend
  <2> QED
    BY <1>1, <2>1, <2>2 DEF Safe
<1> QED
  BY <1>2, <1>3

\* The window grows.
LEMMA TrackHeld ==
  ASSUME NEW u, NEW w \in Seq(Atoms), NEW s, Track(u, w, s), NEW x \in Atoms
  PROVE  Track(u \o <<x>>, w \o <<x>>, s)
<1> DEFINE y == <<x>>
<1>1. y \in Seq(Atoms)
  OBVIOUS
<1> HIDE DEF y
<1>2. PICK v \in Seq(Atoms) : u = v \o w /\ Safe(v) /\ s = Restore(v, Entries)
  BY DEF Track
<1>3. Assoc(v, w, y)
  BY <1>1, ConcatAssoc
<1>4. u \o y = v \o (w \o y)
  BY <1>2, <1>3, Zenon DEF Assoc
<1>5. Track(u \o y, w \o y, s)
  BY <1>2, <1>4, Zenon DEF Track
<1> QED
  BY <1>5 DEF y

\* Without a window an atom is shown.
LEMMA TrackShown ==
  ASSUME Legible, NEW u, NEW s, Track(u, <<>>, s), NEW x \in Atoms, x # Open
  PROVE  Track(u \o <<x>>, <<>>, s \o <<x>>)
<1> DEFINE y == <<x>>
<1>1. y \in Seq(Atoms) /\ Restore(y, Entries) = y
  BY RestoreAtom
<1>2. PICK v \in Seq(Atoms) : u = v \o <<>> /\ Safe(v) /\ s = Restore(v, Entries)
  BY DEF Track
<1>3. Safe(v \o y)
  BY <1>2, SafeAppend
<1> HIDE DEF y
<1>4. Restore(v \o y, Entries) = Restore(v, Entries) \o Restore(y, Entries)
  BY <1>1, <1>2, RestoreJoin
<1>5. s \o y = Restore(v \o y, Entries)
  BY <1>1, <1>2, <1>4, Zenon
<1>6. v \o y \in Seq(Atoms)
  BY <1>1, JoinAtoms
<1>7. u = v
  BY <1>2, ConcatEmptySeq
<1>8. u \o y = (v \o y) \o <<>>
  BY <1>6, <1>7, ConcatEmptySeq
<1>9. Track(u \o y, <<>>, s \o y)
  BY <1>3, <1>5, <1>6, <1>8, Zenon DEF Track
<1> QED
  BY <1>9 DEF y

\* The window closes.
LEMMA TrackClosed ==
  ASSUME Legible, NEW u, NEW w \in Seq(Atoms), NEW s, Track(u, w, s)
  PROVE  Track(u \o <<Close>>, <<>>, s \o Restore(w \o <<Close>>, Entries))
<1> DEFINE y == <<Close>>  z == w \o y
<1>0. Close \in Atoms
  BY AtomsAssumption
<1>1. y \in Seq(Atoms)
  BY <1>0
<1>2. PICK v \in Seq(Atoms) : u = v \o w /\ Safe(v) /\ s = Restore(v, Entries)
  BY DEF Track
<1>3. u \in Seq(Atoms)
  BY <1>2, JoinAtoms
<1>4. Safe(u \o y)
  <2>1. Close # Open
    BY DEF Open, Close
  <2> QED
    BY <1>0, <1>3, <2>1, SafeAppend
<1> HIDE DEF y
<1>5. z \in Seq(Atoms) /\ u \o y \in Seq(Atoms)
  BY <1>1, <1>3, JoinAtoms
<1>6. Assoc(v, w, y)
  BY <1>1, ConcatAssoc
<1>7. u \o y = v \o z
  BY <1>2, <1>6, Zenon DEF Assoc
<1> HIDE DEF z
<1>8. Restore(v \o z, Entries) = Restore(v, Entries) \o Restore(z, Entries)
  BY <1>2, <1>5, RestoreJoin
<1>9. s \o Restore(z, Entries) = Restore(u \o y, Entries)
  BY <1>2, <1>7, <1>8, Zenon
<1>10. u \o y = (u \o y) \o <<>>
  BY <1>5, ConcatEmptySeq
<1>11. Track(u \o y, <<>>, s \o Restore(z, Entries))
  BY <1>4, <1>5, <1>9, <1>10, Zenon DEF Track
<1> QED
  BY <1>11 DEF y, z

\* What push does with an atom, when no window grows too long.
LEMMA PushCases ==
  ASSUME NEW d \in [pending : Windows, out : Seq(Atoms)], NEW x \in Atoms,
         d.pending # <<>> /\ x # Close => Len(d.pending) + 1 < MaxPending
  PROVE  \/ /\ d.pending = <<>> \/ x # Close
            /\ PushAtom(d, x).pending = d.pending \o <<x>> /\ PushAtom(d, x).out = d.out
         \/ /\ d.pending = <<>> /\ x # Open
            /\ PushAtom(d, x).pending = <<>> /\ PushAtom(d, x).out = d.out \o <<x>>
         \/ /\ x = Close
            /\ PushAtom(d, x).pending = <<>>
            /\ PushAtom(d, x).out = d.out \o Restore(d.pending \o <<x>>, Entries)
<1> DEFINE w == d.pending  r == Append(w, x)
<1>1. w \in Seq(Atoms) /\ d.out \in Seq(Atoms)
  BY DEF Windows
<1>2. r = w \o <<x>> /\ Append(d.out, x) = d.out \o <<x>> /\ Len(r) = Len(w) + 1 /\ Len(w) \in Nat
  BY <1>1, AppendIsConcat, AppendProperties, LenProperties
<1>m. MaxPending \in Nat
  BY ConstantsAssumption
<1>3. /\ [d EXCEPT !.pending = r].pending = r
      /\ [d EXCEPT !.pending = r].out = d.out
      /\ [d EXCEPT !.out = Append(@, x)].pending = w
      /\ [d EXCEPT !.out = Append(@, x)].out = Append(d.out, x)
  OBVIOUS
<1>4. CASE w = <<>> /\ x = Open
  BY <1>2, <1>3, <1>4 DEF PushAtom
<1>5. CASE w = <<>> /\ x # Open
  BY <1>2, <1>3, <1>5 DEF PushAtom
<1>6. CASE w # <<>> /\ x = Close
  BY <1>2, <1>6 DEF PushAtom
<1>7. CASE w # <<>> /\ x # Close
  <2>1. ~(Len(r) >= MaxPending)
    BY <1>2, <1>7, <1>m
  <2>2. PushAtom(d, x) = [d EXCEPT !.pending = r]
    BY <1>7, <2>1 DEF PushAtom
  <2> HIDE DEF r
  <2> QED
    BY <1>2, <1>3, <1>7, <2>2
<1> QED
  BY <1>4, <1>5, <1>6, <1>7

\* push keeps track.
LEMMA PushTracks ==
  ASSUME Legible, NEW d \in [pending : Windows, out : Seq(Atoms)], NEW x \in Atoms,
         d.pending # <<>> /\ x # Close => Len(d.pending) + 1 < MaxPending,
         NEW u, NEW s \in Seq(Atoms), Track(u, d.pending, s \o d.out)
  PROVE  Track(u \o <<x>>, PushAtom(d, x).pending, s \o PushAtom(d, x).out)
<1> DEFINE w == d.pending  o == d.out  e == PushAtom(d, x)  y == <<x>>
<1>1. w \in Seq(Atoms) /\ o \in Seq(Atoms) /\ y \in Seq(Atoms)
  BY DEF Windows
<1>2. \/ e.pending = w \o y /\ e.out = o
      \/ w = <<>> /\ x # Open /\ e.pending = <<>> /\ e.out = o \o y
      \/ x = Close /\ e.pending = <<>> /\ e.out = o \o Restore(w \o y, Entries)
  BY PushCases
<1>t. Track(u, w, s \o o)
  OBVIOUS
<1> HIDE DEF w, o, e
<1>3. CASE e.pending = w \o y /\ e.out = o
  <2>1. Track(u \o y, w \o y, s \o o)
    BY <1>1, <1>t, TrackHeld
  <2> QED
    BY <1>3, <2>1 DEF e
<1>4. CASE w = <<>> /\ x # Open /\ e.pending = <<>> /\ e.out = o \o y
  <2>1. Track(u \o y, <<>>, (s \o o) \o y)
    BY <1>4, <1>t, TrackShown
  <2> HIDE DEF y
  <2>2. Assoc(s, o, y)
    BY <1>1, ConcatAssoc
  <2>3. Track(u \o y, e.pending, s \o e.out)
    BY <1>4, <2>1, <2>2, Zenon DEF Assoc
  <2> QED
    BY <2>3 DEF e, y
<1>5. CASE x = Close /\ e.pending = <<>> /\ e.out = o \o Restore(w \o y, Entries)
  <2> DEFINE z == Restore(w \o y, Entries)
  <2>1. Track(u \o y, <<>>, (s \o o) \o z)
    BY <1>1, <1>5, <1>t, TrackClosed
  <2>2. w \o y \in Seq(Atoms)
    BY <1>1, JoinAtoms
  <2>3. z \in Seq(Atoms)
    BY <2>2, RestoreTyped
  <2> HIDE DEF y, z
  <2>4. Assoc(s, o, z)
    BY <1>1, <2>3, ConcatAssoc
  <2>5. e.out = o \o z
    BY <1>5 DEF z
  <2>6. Track(u \o y, e.pending, s \o e.out)
    BY <1>5, <2>1, <2>4, <2>5, Zenon DEF Assoc
  <2> QED
    BY <2>6 DEF e, y
<1> QED
  BY <1>2, <1>3, <1>4, <1>5 DEF e

Upto(t, k) == SubSeq(t, 1, k)

LEMMA UptoAtoms ==
  ASSUME NEW t \in Seq(Atoms), NEW k \in 0..Len(t)
  PROVE  Upto(t, k) \in Seq(Atoms) /\ Len(Upto(t, k)) = k /\ \A i \in 1..k : Upto(t, k)[i] = t[i]
<1> DEFINE c == SubSeq(t, 1, k)
<1>1. Len(t) \in Nat /\ k \in Nat
  BY LenProperties
<1>2. \A i \in 1..k : t[i] \in Atoms
  BY <1>1, ElementOfSeq
<1>3. /\ c \in Seq(Atoms)
      /\ Len(c) = IF 1 <= k THEN k - 1 + 1 ELSE 0
      /\ \A i \in 1..k - 1 + 1 : c[i] = t[1 + i - 1]
  BY <1>1, <1>2, SubSeqProperties
<1> HIDE DEF c
<1>4. c \in Seq(Atoms) /\ Len(c) = k /\ \A i \in 1..k : c[i] = t[i]
  BY <1>1, <1>3
<1> QED
  BY <1>4 DEF c, Upto

LEMMA UptoGrows ==
  ASSUME NEW t \in Seq(Atoms), NEW k \in 0..Len(t) - 1
  PROVE  Upto(t, k + 1) = Upto(t, k) \o <<t[k + 1]>>
<1> DEFINE a == Upto(t, k)  b == Upto(t, k + 1)  x == t[k + 1]  c == Append(a, x)
<1>1. Len(t) \in Nat /\ k \in 0..Len(t) /\ k + 1 \in 0..Len(t) /\ k + 1 \in 1..Len(t)
  BY LenProperties
<1>2. x \in Atoms
  BY <1>1, ElementOfSeq
<1>3. a \in Seq(Atoms) /\ Len(a) = k /\ \A i \in 1..k : a[i] = t[i]
  BY <1>1, UptoAtoms
<1>4. b \in Seq(Atoms) /\ Len(b) = k + 1 /\ \A i \in 1..k + 1 : b[i] = t[i]
  BY <1>1, UptoAtoms
<1> HIDE DEF a, b
<1>5. c \in Seq(Atoms) /\ Len(c) = Len(a) + 1 /\ (\A i \in 1..Len(a) : c[i] = a[i]) /\ c[Len(a) + 1] = x
  BY <1>2, <1>3, AppendProperties
<1>6. c = a \o <<x>>
  BY <1>2, <1>3, AppendIsConcat
<1> HIDE DEF c
<1>7. ASSUME NEW i \in 1..k + 1
      PROVE  c[i] = b[i]
  <2>1. CASE i = k + 1
    <3>1. c[k + 1] = x
      BY <1>3, <1>5
    <3>2. b[k + 1] = t[k + 1]
      BY <1>1, <1>4
    <3> QED
      BY <2>1, <3>1, <3>2
  <2>2. CASE i # k + 1
    <3>1. i \in 1..k
      BY <1>1, <2>2
    <3> QED
      BY <1>3, <1>4, <1>5, <3>1
  <2> QED
    BY <2>1, <2>2
<1>8. c = b
  <2>1. Len(c) = Len(b)
    BY <1>3, <1>4, <1>5
  <2> QED
    BY <1>4, <1>5, <1>7, <2>1, SeqEqual
<1> QED
  BY <1>6, <1>8 DEF a, b

LEMMA UptoAll ==
  ASSUME NEW t \in Seq(Atoms)
  PROVE  Upto(t, Len(t)) = t
<1> DEFINE a == Upto(t, Len(t))
<1>1. Len(t) \in 0..Len(t)
  BY LenProperties
<1>2. a \in Seq(Atoms) /\ Len(a) = Len(t) /\ \A i \in 1..Len(t) : a[i] = t[i]
  BY <1>1, UptoAtoms
<1> HIDE DEF a
<1>3. a = t
  BY <1>2, SeqEqual
<1> QED
  BY <1>3 DEF a

\* WindowsShort, of a text t.
Short(t) ==
  \A i \in 1..Len(t) : t[i] = Open => \E j \in i..i + MaxPending - 1 : j > Len(t) \/ t[j] = Close

\* In such a text no window grows too long.
LEMMA WindowFits ==
  ASSUME NEW t \in Seq(Atoms), Short(t), NEW k \in 0..Len(t) - 1,
         NEW w \in Windows, w # <<>>, NEW s, Track(Upto(t, k), w, s), t[k + 1] # Close
  PROVE  Len(w) + 1 < MaxPending
<1>0. Len(t) \in Nat /\ k \in 0..Len(t) /\ MaxPending \in Nat
  BY LenProperties, ConstantsAssumption
<1>1. w \in Seq(Atoms) /\ w[1] = Open /\ Close \notin Range(w)
  BY DEF Windows
<1>2. PICK v \in Seq(Atoms) : Upto(t, k) = v \o w
  BY DEF Track
<1> DEFINE n == Len(v)  m == Len(w)
<1>3. n \in Nat /\ m \in Nat /\ k = n + m /\ \A i \in 1..m : t[n + i] = w[i]
  <2>1. Len(v \o w) = n + m /\ n \in Nat /\ m \in Nat /\ \A i \in 1..m : (v \o w)[n + i] = w[i]
    BY <1>1, JoinAtoms
  <2>2. Len(Upto(t, k)) = k /\ \A i \in 1..k : Upto(t, k)[i] = t[i]
    BY <1>0, UptoAtoms
  <2>3. k = n + m
    BY <1>2, <2>1, <2>2
  <2>4. ASSUME NEW i \in 1..m
        PROVE  t[n + i] = w[i]
    <3>1. n + i \in 1..k
      BY <2>1, <2>3
    <3> HIDE DEF n, m
    <3> QED
      BY <1>2, <2>1, <2>2, <3>1
  <2> QED
    BY <2>1, <2>3, <2>4
<1>4. m # 0
  BY <1>1, EmptySeq
<1>5. \A i \in 1..m : w[i] # Close
  <2>1. Range(w) = {w[i] : i \in 1..m}
    BY <1>1, RangeEquality
  <2> QED
    BY <1>1, <2>1
<1> HIDE DEF n, m
<1> SUFFICES ASSUME m + 1 >= MaxPending
             PROVE  FALSE
  BY <1>0, <1>3 DEF m
<1>6. n + 1 \in 1..Len(t) /\ t[n + 1] = Open
  <2>1. 1 \in 1..m /\ n + 1 \in 1..Len(t)
    BY <1>0, <1>3, <1>4
  <2> QED
    BY <1>1, <1>3, <2>1
<1>7. PICK j \in (n + 1)..(n + 1) + MaxPending - 1 : j > Len(t) \/ t[j] = Close
  BY <1>6 DEF Short
<1>8. j \in n + 1..k + 1
  BY <1>0, <1>3, <1>7
<1>9. t[j] = Close
  BY <1>0, <1>7, <1>8
<1>10. CASE j = k + 1
  BY <1>9, <1>10
<1>11. CASE j # k + 1
  <2>1. PICK i \in 1..m : n + i = j
    <3>1. j - n \in 1..m /\ n + (j - n) = j
      BY <1>3, <1>8, <1>11
    <3> QED
      BY <3>1
  <2> QED
    BY <1>3, <1>5, <1>9, <2>1
<1> QED
  BY <1>10, <1>11

\* The de-anonymiser keeps track of a stretch t of the text T, from place o on.
LEMMA RunTracks ==
  ASSUME Legible, NEW T \in Seq(Atoms), Short(T), NEW t \in Seq(Atoms), NEW o \in Nat,
         o + Len(t) <= Len(T), \A i \in 1..Len(t) : T[o + i] = t[i],
         NEW w \in Windows, NEW s \in Seq(Atoms), Track(Upto(T, o), w, s)
  PROVE  LET d == FoldLeft(PushAtom, [pending |-> w, out |-> <<>>], t)
         IN  /\ d.pending \in Windows /\ d.out \in Seq(Atoms)
             /\ Track(Upto(T, o + Len(t)), d.pending, s \o d.out)
<1> DEFINE m == Len(t)  D == [pending : Windows, out : Seq(Atoms)]
           base == [pending |-> w, out |-> <<>>]
<1>0. m \in Nat /\ DOMAIN t = 1..m /\ Len(T) \in Nat
  BY LenProperties
<1>1. PICK h : Window!Course(0, base, t, m, h) /\ Window!Fold(0, base, t) = h[m]
  BY <1>0, Window!FoldRuns
<1>2. FoldLeft(PushAtom, base, t) = h[m]
  BY <1>1, WindowFolds
<1>3. h[0] = base /\ \A k \in 1..m : h[k] = PushAtom(h[k - 1], t[k])
  BY <1>1 DEF Window!Course, PushIn
<1>b. base \in D /\ base.pending = w /\ base.out = <<>>
  BY EmptySeq
<1> HIDE DEF base
<1> DEFINE S == {k \in 0..m : h[k] \in D /\ Track(Upto(T, o + k), h[k].pending, s \o h[k].out)}
<1>4. 0 \in S
  <2>1. s \o <<>> = s
    BY ConcatEmptySeq
  <2>2. o + 0 = o /\ 0 \in 0..m
    BY <1>0
  <2>3. h[0].pending = w /\ s \o h[0].out = s /\ h[0] \in D
    BY <1>3, <1>b, <2>1, Zenon
  <2> HIDE DEF D
  <2> QED
    BY <2>2, <2>3
<1>5. ASSUME NEW k \in 0..m - 1, k \in S
      PROVE  k + 1 \in S
  <2> DEFINE d == h[k]  x == T[(o + k) + 1]  u == Upto(T, o + k)
  <2>1. /\ k + 1 \in 1..m /\ (k + 1) - 1 = k /\ k + 1 \in 0..m
        /\ o + k \in 0..Len(T) - 1 /\ o + (k + 1) = (o + k) + 1
        /\ (o + k) + 1 \in 1..Len(T)
    BY <1>0
  <2>2. d \in D /\ Track(u, d.pending, s \o d.out)
    BY <1>5
  <2>3. x \in Atoms /\ x = t[k + 1]
    <3>1. x = t[k + 1]
      BY <2>1
    <3> QED
      BY <2>1, <3>1, ElementOfSeq
  <2>4. h[k + 1] = PushAtom(d, x)
    BY <1>3, <2>1, <2>3
  <2>5. Upto(T, o + (k + 1)) = u \o <<x>>
    <3>1. Upto(T, (o + k) + 1) = Upto(T, o + k) \o <<T[(o + k) + 1]>>
      BY <2>1, UptoGrows
    <3> QED
      BY <2>1, <3>1
  <2>6. d.pending \in Windows
    BY <2>2
  <2>7. ASSUME d.pending # <<>>, x # Close
        PROVE  Len(d.pending) + 1 < MaxPending
    BY <2>1, <2>2, <2>6, <2>7, WindowFits
  <2> HIDE DEF d, x, u
  <2>8. PushAtom(d, x) \in D
    BY <2>2, <2>3, PushTyped
  <2>9. Track(u \o <<x>>, PushAtom(d, x).pending, s \o PushAtom(d, x).out)
    BY <2>2, <2>3, <2>7, PushTracks
  <2> HIDE DEF D
  <2> QED
    BY <2>1, <2>4, <2>5, <2>8, <2>9
<1> HIDE DEF S, m
<1>6. \A k \in 0..m : k \in S
  BY <1>0, <1>4, <1>5, InductUpTo
<1>7. m \in S
  BY <1>0, <1>6
<1>8. h[m] \in D /\ Track(Upto(T, o + m), h[m].pending, s \o h[m].out)
  BY <1>7 DEF S
<1> QED
  BY <1>2, <1>8 DEF base, m

-----------------------------------------------------------------------------
(* The text as a whole, and its mask                                       *)

\* h[k] is the text of those of the first k events that are in P.
Telling(P, h) ==
  /\ h \in [0..Len(events) -> Seq(Atoms)]
  /\ h[0] = <<>>
  /\ \A k \in 1..Len(events) : h[k] = h[k - 1] \o (IF k \in P THEN events[k].text ELSE <<>>)
  /\ TextOf(P) = h[Len(events)]

LEMMA TextRuns ==
  ASSUME WireTypes, NEW P
  PROVE  \E h : Telling(P, h)
<1> DEFINE n == Len(events)
           s == [e \in 1..n |-> IF e \in P THEN events[e].text ELSE <<>>]
<1>1. n \in Nat /\ DOMAIN events = 1..n /\ events \in Seq(Event)
  BY EventsTyped
<1>2. ASSUME NEW e \in 1..n
      PROVE  events[e].text \in Seq(Atoms)
  <2>1. events[e] \in Event
    BY <1>1, ElementOfSeq
  <2> QED
    BY <2>1 DEF Event
<1>3. s \in [1..n -> Seq(Atoms)]
  BY <1>2, EmptySeq
<1>4. s \in Seq(Seq(Atoms)) /\ \A k \in 1..n : s[k] = IF k \in P THEN events[k].text ELSE <<>>
  BY <1>1, <1>3, SeqDef
<1>5. TextOf(P) = FlattenSeq(s)
  BY <1>1 DEF TextOf
<1> HIDE DEF s, n
<1>6. Len(s) = n
  <2>1. Len(s) \in Nat /\ DOMAIN s = 1..Len(s)
    BY <1>4, LenProperties
  <2>2. DOMAIN s = 1..n
    BY <1>3
  <2> QED
    BY <1>1, <2>1, <2>2, SameCount
<1>7. PICK h \in [0..n -> Seq(Atoms)] : Joined(s, h)
  BY <1>4, <1>6, FlattenJoins
<1> QED
  BY <1>4, <1>5, <1>6, <1>7 DEF Telling, Joined, n

\* The text up to event k.
LEMMA TextUpTo ==
  ASSUME WireTypes, NEW P, NEW h, Telling(P, h), NEW k \in 0..Len(events)
  PROVE  TextOf({d \in P : d <= k}) = h[k]
<1> DEFINE n == Len(events)  Q == {d \in P : d <= k}  at(i) == IF i <= k THEN i ELSE k
<1>0. n \in Nat
  BY EventsTyped
<1>1. PICK g : Telling(Q, g)
  BY TextRuns
<1>2. /\ h[0] = <<>>
      /\ \A i \in 1..n : h[i] = h[i - 1] \o (IF i \in P THEN events[i].text ELSE <<>>)
      /\ \A i \in 0..n : h[i] \in Seq(Atoms)
  BY DEF Telling
<1>3. /\ g[0] = <<>> /\ TextOf(Q) = g[n]
      /\ \A i \in 1..n : g[i] = g[i - 1] \o (IF i \in Q THEN events[i].text ELSE <<>>)
  BY <1>1 DEF Telling
<1> HIDE DEF n
<1> DEFINE S == {i \in 0..n : g[i] = h[at(i)]}
<1>4. 0 \in S
  <2>1. at(0) = 0 /\ 0 \in 0..n
    BY <1>0
  <2> QED
    BY <1>2, <1>3, <2>1
<1>5. ASSUME NEW i \in 0..n - 1, i \in S
      PROVE  i + 1 \in S
  <2>1. i + 1 \in 1..n /\ (i + 1) - 1 = i /\ i + 1 \in 0..n
    BY <1>0
  <2>2. g[i + 1] = g[i] \o (IF i + 1 \in Q THEN events[i + 1].text ELSE <<>>)
    BY <1>3, <2>1
  <2>3. CASE i + 1 <= k
    <3>1. at(i) = i /\ at(i + 1) = i + 1 /\ (i + 1 \in Q <=> i + 1 \in P)
      BY <2>3
    <3>2. h[i + 1] = h[i] \o (IF i + 1 \in P THEN events[i + 1].text ELSE <<>>)
      BY <1>2, <2>1
    <3>3. g[i] = h[i]
      BY <1>5, <3>1
    <3>4. g[i + 1] = h[i + 1]
      BY <2>2, <3>1, <3>2, <3>3, Zenon
    <3> QED
      BY <2>1, <3>1, <3>4
  <2>4. CASE ~(i + 1 <= k)
    <3>1. at(i) = k /\ at(i + 1) = k /\ i + 1 \notin Q /\ k \in 0..n
      BY <2>4 DEF n
    <3>2. g[i] = h[k]
      BY <1>5, <3>1
    <3>3. h[k] \o <<>> = h[k]
      BY <1>2, <3>1, ConcatEmptySeq
    <3>4. g[i + 1] = h[k]
      BY <2>2, <3>1, <3>2, <3>3, Zenon
    <3> QED
      BY <2>1, <3>1, <3>4
  <2> QED
    BY <2>3, <2>4
<1> HIDE DEF S
<1>6. \A i \in 0..n : i \in S
  BY <1>0, <1>4, <1>5, InductUpTo
<1>7. n \in S /\ k \in 0..n
  BY <1>0, <1>6 DEF n
<1>8. g[n] = h[at(n)] /\ at(n) = k
  BY <1>0, <1>7 DEF S
<1> QED
  BY <1>3, <1>8

\* The text only grows.
LEMMA TextGrows ==
  ASSUME WireTypes, NEW P, NEW h, Telling(P, h), NEW k \in 0..Len(events)
  PROVE  \E y \in Seq(Atoms) : h[Len(events)] = h[k] \o y
<1> DEFINE n == Len(events)
<1>0. n \in Nat /\ \A e \in 1..n : events[e].text \in Seq(Atoms)
  <2>1. n \in Nat /\ events \in Seq(Event)
    BY EventsTyped
  <2>2. ASSUME NEW e \in 1..n
        PROVE  events[e].text \in Seq(Atoms)
    <3>1. events[e] \in Event
      BY <2>1, ElementOfSeq
    <3> QED
      BY <3>1 DEF Event
  <2> QED
    BY <2>1, <2>2
<1>1. /\ \A i \in 1..n : h[i] = h[i - 1] \o (IF i \in P THEN events[i].text ELSE <<>>)
      /\ \A i \in 0..n : h[i] \in Seq(Atoms)
  BY DEF Telling
<1> HIDE DEF n
<1> DEFINE S == {i \in 0..n : i >= k => \E y \in Seq(Atoms) : h[i] = h[k] \o y}
<1>k. k \in 0..n
  BY DEF n
<1>b. \E y \in Seq(Atoms) : h[k] = h[k] \o y
  <2>1. <<>> \in Seq(Atoms) /\ h[k] = h[k] \o <<>>
    BY <1>1, <1>k, ConcatEmptySeq
  <2> QED
    BY <2>1, Zenon
<1>2. 0 \in S
  <2>1. 0 \in 0..n /\ (0 >= k => k = 0)
    BY <1>0, <1>k
  <2> QED
    BY <1>b, <2>1
<1>3. ASSUME NEW i \in 0..n - 1, i \in S
      PROVE  i + 1 \in S
  <2>1. i + 1 \in 1..n /\ (i + 1) - 1 = i /\ i + 1 \in 0..n
    BY <1>0
  <2>2. CASE i + 1 = k
    BY <1>b, <2>1, <2>2
  <2>3. CASE ~(i + 1 >= k)
    BY <2>1, <2>3
  <2>4. CASE i >= k
    <3>1. PICK y \in Seq(Atoms) : h[i] = h[k] \o y
      BY <1>3, <2>4
    <3> DEFINE x == IF i + 1 \in P THEN events[i + 1].text ELSE <<>>
    <3>2. x \in Seq(Atoms)
      BY <1>0, <2>1, EmptySeq
    <3>3. h[i + 1] = h[i] \o x
      BY <1>1, <2>1
    <3> HIDE DEF x
    <3>4. y \o x \in Seq(Atoms)
      BY <3>2, JoinAtoms
    <3>5. Assoc(h[k], y, x)
      <4>1. h[k] \in Seq(Atoms)
        BY <1>1, <1>k
      <4> QED
        BY <3>2, <4>1, ConcatAssoc, Zenon
    <3>6. h[i + 1] = h[k] \o (y \o x)
      BY <3>1, <3>3, <3>5, Zenon DEF Assoc
    <3> QED
      BY <2>1, <3>4, <3>6
  <2> QED
    BY <1>k, <2>2, <2>3, <2>4
<1> HIDE DEF S
<1>4. \A i \in 0..n : i \in S
  BY <1>0, <1>2, <1>3, InductUpTo
<1>5. n \in S /\ n >= k
  BY <1>0, <1>4, <1>k
<1> QED
  BY <1>5 DEF S, n

\* The mask, atom by atom.
LEMMA Masked ==
  ASSUME NEW t \in Seq(Atoms), NEW i \in 1..Len(t)
  PROVE  FilterOutput(t)[i] = IF Masks(t, i) THEN Stars ELSE t[i]
<1>1. i \in DOMAIN t
  BY LenProperties
<1> QED
  BY <1>1 DEF FilterOutput

LEMMA MaskedLength ==
  ASSUME NEW t \in Seq(Atoms)
  PROVE  Len(FilterOutput(t)) = Len(t) /\ FilterOutput(t) \in Seq(Atoms)
<1>1. FilterOutput(t) \in Seq(Atoms) /\ DOMAIN FilterOutput(t) = 1..Len(t)
  BY FilterTyped
<1>2. Len(FilterOutput(t)) \in Nat /\ DOMAIN FilterOutput(t) = 1..Len(FilterOutput(t)) /\ Len(t) \in Nat
  BY <1>1, LenProperties
<1>3. Len(FilterOutput(t)) = Len(t)
  BY <1>1, <1>2, SameCount
<1> QED
  BY <1>1, <1>3

\* The mask closes no bracket later.
LEMMA ShortMasked ==
  ASSUME NEW t \in Seq(Atoms), Short(t)
  PROVE  Short(FilterOutput(t))
<1> DEFINE T == FilterOutput(t)  n == Len(t)
<1>0. n \in Nat /\ Len(T) = n /\ MaxPending \in Nat
  BY MaskedLength, LenProperties, ConstantsAssumption
<1>1. \A i \in 1..n : T[i] = IF Masks(t, i) THEN Stars ELSE t[i]
  BY Masked
<1>2. Stars # Open /\ Open # Close
  BY DEF Stars, Open, Close
<1> HIDE DEF T, n
<1> SUFFICES ASSUME NEW i \in 1..n, T[i] = Open
             PROVE  \E j \in i..i + MaxPending - 1 : j > n \/ T[j] = Close
  BY <1>0 DEF Short, T
<1>3. t[i] = Open /\ ~Masks(t, i)
  BY <1>1, <1>2
<1>4. PICK j \in i..i + MaxPending - 1 : j > n \/ t[j] = Close
  BY <1>3 DEF Short, n
<1>5. CASE j > n
  BY <1>4, <1>5
<1>6. CASE ~(j > n)
  <2> DEFINE C == {c \in i..j : t[c] = Close}
  <2>1. C \in SUBSET Nat /\ C # {}
    BY <1>0, <1>4, <1>6
  <2>2. PICK c \in C : \A y \in C : c <= y
    BY <2>1, LeastExists
  <2>3. c \in i..j /\ t[c] = Close /\ c \in 1..n /\ c # i
    BY <1>0, <1>2, <1>3, <1>6, <2>2
  <2>4. \A k \in i..c - 1 : t[k] # Close
    <3> SUFFICES ASSUME NEW k \in i..c - 1, t[k] = Close
                 PROVE  FALSE
      OBVIOUS
    <3>1. k \in C /\ ~(c <= k)
      BY <2>3
    <3> QED
      BY <2>2, <3>1
  <2> HIDE DEF C
  <2>5. ASSUME NEW k \in i + 1..c
        PROVE  InsideBrackets(t, k)
    <3> DEFINE O == {o \in i..k - 1 : t[o] = Open}
    <3>1. O \in SUBSET (0..n) /\ O # {}
      BY <1>0, <1>3, <2>3
    <3>2. Max(O) \in O /\ \A y \in O : Max(O) >= y
      BY <1>0, <3>1, MaxIsGreatest
    <3> DEFINE b == Max(O)
    <3>3. b \in i..k - 1 /\ t[b] = Open
      BY <3>2
    <3>4. ASSUME NEW l \in b + 1..k - 1
          PROVE  t[l] \notin {Open, Close}
      <4>1. l \in i..k - 1 /\ l \in i..c - 1 /\ ~(b >= l)
        BY <2>3, <3>3
      <4>2. t[l] # Open
        BY <3>2, <4>1
      <4> QED
        BY <2>4, <4>1, <4>2
    <3>5. b \in 1..k - 1
      BY <2>3, <3>3
    <3> QED
      BY <3>3, <3>4, <3>5 DEF InsideBrackets
  <2>9. ~Masks(t, c)
    <3> SUFFICES ASSUME Masks(t, c) PROVE FALSE
      OBVIOUS
    <3>1. PICK k \in 1..c : ~InsideBrackets(t, k) /\ \E p \in PhrasesAt(t, k) : c < k + Len(p)
      BY DEF Masks
    <3>2. PICK p \in PhrasesAt(t, k) : c < k + Len(p)
      BY <3>1
    <3>3. Len(p) \in Nat
      BY DictionaryAssumption, LenProperties DEF PhrasesAt
    <3>4. k \notin i + 1..c
      BY <2>5, <3>1
    <3>5. k \in 1..i /\ i < k + Len(p)
      BY <2>3, <3>2, <3>3, <3>4
    <3>6. Masks(t, i)
      BY <3>1, <3>2, <3>5 DEF Masks
    <3> QED
      BY <1>3, <3>6
  <2>10. T[c] = Close
    BY <1>1, <2>3, <2>9
  <2>11. c \in i..i + MaxPending - 1
    BY <1>0, <1>4, <2>3
  <2> QED
    BY <2>10, <2>11
<1> QED
  BY <1>5, <1>6

-----------------------------------------------------------------------------
(* What the filter shows                                                   *)

LEMMA PassedTyped ==
  ASSUME WireTypes
  PROVE  Passed \subseteq 1..Len(events) /\ TextOf(Passed) \in Seq(Atoms)
<1>1. Passed \subseteq 1..Len(events)
  <2>1. EventsWith(forwarded, "nl") \subseteq 1..Len(events)
    BY EventsOf DEF WireTypes
  <2> QED
    BY <2>1 DEF Passed
<1>2. PICK h : Telling(Passed, h)
  BY TextRuns
<1>3. Len(events) \in 0..Len(events)
  BY EventsTyped
<1> QED
  BY <1>1, <1>2, <1>3 DEF Telling

LEMMA PassedShort ==
  ASSUME WireTypes, WindowsShort
  PROVE  Short(FilterOutput(TextOf(Passed)))
<1> DEFINE t == TextOf(Passed)
<1>1. t \in Seq(Atoms)
  BY PassedTyped
<1>2. DOMAIN t = 1..Len(t)
  BY <1>1, LenProperties
<1>3. Short(t)
  BY <1>2 DEF WindowsShort, Short
<1> QED
  BY <1>1, <1>3, ShortMasked

\* The mask of an event is the mask of the whole, there.
LEMMA MaskedAt ==
  ASSUME WireTypes, ContextInEvent, PhrasesWhole, NEW h, Telling(Passed, h), NEW e \in Passed
  PROVE  LET t == events[e].text
             T == FilterOutput(TextOf(Passed))
             o == Len(h[e - 1])
         IN  /\ t \in Seq(Atoms) /\ o \in Nat /\ o + Len(t) <= Len(T) /\ Len(h[e]) = o + Len(t)
             /\ \A i \in 1..Len(t) : T[o + i] = FilterOutput(t)[i]
<1> DEFINE n == Len(events)  t == events[e].text  w == TextOf(Passed)  T == FilterOutput(w)
           a == h[e - 1]  b == h[e]  o == Len(a)  m == Len(t)
<1>1. /\ n \in Nat /\ e \in 1..n /\ e \in 0..n /\ e - 1 \in 0..n
      /\ w \in Seq(Atoms) /\ events \in Seq(Event)
  <2>1. n \in Nat /\ e \in 1..n /\ w \in Seq(Atoms) /\ events \in Seq(Event)
    BY PassedTyped, EventsTyped
  <2> QED
    BY <2>1
<1>2. t \in Seq(Atoms)
  <2>1. events[e] \in Event
    BY <1>1, ElementOfSeq
  <2> QED
    BY <2>1 DEF Event
<1>3. a \in Seq(Atoms) /\ b \in Seq(Atoms) /\ b = a \o t /\ w = h[n]
  BY <1>1 DEF Telling
<1>4. PICK y \in Seq(Atoms) : h[n] = b \o y
  BY <1>1, TextGrows
<1>5. TextOf({d \in Passed : d <= e}) = b
  BY <1>1, TextUpTo
<1>6. TextOf({d \in Passed : d < e}) = a
  <2>1. {d \in Passed : d < e} = {d \in Passed : d <= e - 1}
    <3>1. \A d \in Passed : d \in Nat
      BY PassedTyped
    <3>2. \A d \in Passed : d < e <=> d <= e - 1
      BY <1>1, <3>1
    <3> QED
      BY <3>2
  <2>2. TextOf({d \in Passed : d <= e - 1}) = a
    BY <1>1, TextUpTo
  <2> QED
    BY <2>1, <2>2
<1>7. \A i \in DOMAIN t : PhrasesAt(t, i) # {} => (InsideBrackets(t, i) <=> InsideBrackets(b, i + o))
  BY <1>5, <1>6, Zenon DEF ContextInEvent
<1>c. \A c \in {o, Len(b)} : \A j \in 1..c : \A p \in PhrasesAt(w, j) : j + Len(p) - 1 <= c
  BY <1>5, <1>6, Zenon DEF PhrasesWhole
<1> HIDE DEF t, w, a, b, n
<1>8. /\ o \in Nat /\ m \in Nat /\ Len(b) = o + m
      /\ \A i \in 1..m : b[o + i] = t[i]
  BY <1>2, <1>3, JoinAtoms
<1>9. /\ Len(y) \in Nat /\ Len(w) = Len(b) + Len(y)
      /\ \A i \in 1..Len(b) : w[i] = b[i]
  BY <1>3, <1>4, JoinAtoms
<1>10. Len(T) = Len(w)
  BY <1>1, MaskedLength
<1>d. \A p \in Dictionary : p \in Seq(Atoms) /\ Len(p) \in Nat
  BY DictionaryAssumption, LenProperties
<1>e. w = b \o y /\ b = a \o t
  BY <1>3, <1>4
<1>f. ASSUME NEW p \in Dictionary, NEW k \in Nat, k + Len(p) - 1 <= m, k >= 1
      PROVE  Occurs(w, p, o + k) <=> Occurs(t, p, k)
  <2>1. p \in Seq(Atoms) /\ Len(p) \in Nat
    BY <1>d
  <2> DEFINE j == o + k
  <2>2. j \in Int /\ j > Len(a) /\ j - Len(a) = k /\ j + Len(p) - 1 <= Len(b)
    BY <1>8, <1>f, <2>1
  <2> HIDE DEF j
  <2>3. Occurs(b \o y, p, j) <=> Occurs(b, p, j)
    BY <1>3, <2>1, <2>2, OccursInJoin
  <2>4. Occurs(a \o t, p, j) <=> Occurs(t, p, j - Len(a))
    BY <1>2, <1>3, <2>1, <2>2, OccursInJoin
  <2> QED
    BY <1>e, <2>2, <2>3, <2>4 DEF j
<1>g. ASSUME NEW k \in 1..m
      PROVE  InsideBrackets(w, o + k) <=> InsideBrackets(b, o + k)
  <2> DEFINE j == o + k
  <2>1. j \in 1..Len(b) + 1
    BY <1>8
  <2> HIDE DEF j
  <2>2. InsideBrackets(b \o y, j) <=> InsideBrackets(b, j)
    BY <1>3, <2>1, InsidePrefix
  <2> QED
    BY <1>e, <2>2 DEF j
<1>h. DOMAIN t = 1..m
  BY <1>2, LenProperties
<1>i. ASSUME NEW i \in 1..m, Masks(t, i)
      PROVE  Masks(w, o + i)
  <2>1. PICK k \in 1..i : ~InsideBrackets(t, k) /\ \E p \in PhrasesAt(t, k) : i < k + Len(p)
    BY <1>i DEF Masks
  <2>2. PICK p \in PhrasesAt(t, k) : i < k + Len(p)
    BY <2>1
  <2>3. p \in Dictionary /\ Occurs(t, p, k) /\ Len(p) \in Nat
    BY <1>d, <2>2 DEF PhrasesAt
  <2>4. k + Len(p) - 1 <= m /\ k \in 1..m /\ k \in Nat /\ k >= 1
    BY <1>8, <2>3 DEF Occurs
  <2>5. Occurs(w, p, o + k)
    BY <1>f, <2>3, <2>4
  <2>6. ~InsideBrackets(w, o + k)
    <3>1. k \in DOMAIN t /\ PhrasesAt(t, k) # {} /\ k + o = o + k
      BY <1>8, <1>h, <2>2, <2>4
    <3>2. InsideBrackets(t, k) <=> InsideBrackets(b, o + k)
      BY <1>7, <3>1
    <3> QED
      BY <1>g, <2>1, <2>4, <3>2
  <2>7. o + k \in 1..o + i /\ o + i < (o + k) + Len(p)
    BY <1>8, <2>2, <2>3, <2>4
  <2>8. p \in PhrasesAt(w, o + k)
    BY <2>3, <2>5 DEF PhrasesAt
  <2> HIDE DEF o
  <2> QED
    BY <2>6, <2>7, <2>8 DEF Masks
<1>j. ASSUME NEW i \in 1..m, Masks(w, o + i)
      PROVE  Masks(t, i)
  <2>1. PICK l \in 1..o + i : ~InsideBrackets(w, l) /\ \E p \in PhrasesAt(w, l) : o + i < l + Len(p)
    BY <1>j DEF Masks
  <2>2. PICK p \in PhrasesAt(w, l) : o + i < l + Len(p)
    BY <2>1
  <2>3. p \in Dictionary /\ Occurs(w, p, l) /\ Len(p) \in Nat
    BY <1>d, <2>2 DEF PhrasesAt
  <2>4. l > o
    <3> SUFFICES ASSUME l <= o PROVE FALSE
      BY <1>8
    <3>1. l \in 1..o
      BY <1>8
    <3>2. l + Len(p) - 1 <= o
      BY <1>c, <2>2, <3>1
    <3> QED
      BY <1>8, <2>2, <2>3, <3>2
  <2>5. l + Len(p) - 1 <= o + m
    <3>1. l \in 1..Len(b)
      BY <1>8
    <3> QED
      BY <1>8, <1>c, <2>2, <3>1
  <2> DEFINE k == l - o
  <2>6. k \in 1..i /\ k \in 1..m /\ k \in Nat /\ k >= 1 /\ k + Len(p) - 1 <= m /\ o + k = l /\ i < k + Len(p)
    BY <1>8, <2>2, <2>3, <2>4, <2>5
  <2> HIDE DEF k
  <2>7. Occurs(t, p, k)
    BY <1>f, <2>3, <2>6
  <2>8. p \in PhrasesAt(t, k)
    BY <2>3, <2>7 DEF PhrasesAt
  <2>9. ~InsideBrackets(t, k)
    <3>1. k \in DOMAIN t /\ k + o = o + k
      BY <1>8, <1>h, <2>6
    <3>2. InsideBrackets(t, k) <=> InsideBrackets(b, o + k)
      BY <1>7, <2>8, <3>1
    <3> QED
      BY <1>g, <2>1, <2>6, <3>2
  <2> QED
    BY <2>6, <2>8, <2>9 DEF Masks
<1>11. ASSUME NEW i \in 1..m
       PROVE  T[o + i] = FilterOutput(t)[i]
  <2>1. o + i \in 1..Len(b) /\ o + i \in 1..Len(w)
    BY <1>8, <1>9
  <2>2. w[o + i] = t[i]
    BY <1>8, <1>9, <2>1
  <2>3. T[o + i] = IF Masks(w, o + i) THEN Stars ELSE w[o + i]
    BY <1>1, <2>1, Masked
  <2>4. FilterOutput(t)[i] = IF Masks(t, i) THEN Stars ELSE t[i]
    BY <1>2, Masked
  <2>5. Masks(w, o + i) <=> Masks(t, i)
    BY <1>i, <1>j
  <2> HIDE DEF T, o
  <2> QED
    BY <2>2, <2>3, <2>4, <2>5
<1>12. o + m <= Len(T)
  BY <1>8, <1>9, <1>10
<1> QED
  BY <1>2, <1>8, <1>11, <1>12 DEF t, w, a, b

\* What the filter holds and has shown before the first event.
Nothing == [pending |-> <<>>, shown |-> [c \in ChoiceIds |-> <<>>]]

\* h[k] is what it holds and has shown after event k.
Shows(n, h) == h[0] = Nothing /\ \A k \in 1..n : h[k] = ProcessEvent(h[k - 1], k)

Filters == [pending : Windows, shown : [ChoiceIds -> Seq(Atoms)]]

LEMMA NothingTyped == Nothing \in Filters
<1>1. <<>> \in Seq(Atoms) /\ Len(<<>>) = 0
  BY EmptySeq
<1>2. <<>> \in Windows
  BY <1>1, ConstantsAssumption DEF Windows
<1>3. [c \in ChoiceIds |-> <<>>] \in [ChoiceIds -> Seq(Atoms)]
  BY <1>1
<1> QED
  BY <1>2, <1>3 DEF Nothing, Filters

\* What push makes of an event.
Pushed(f, e) ==
  IF Reversible
  THEN FoldLeft(PushAtom, [pending |-> f.pending, out |-> <<>>], FilterOutput(events[e].text))
  ELSE [pending |-> f.pending, out |-> FilterOutput(events[e].text)]

LEMMA ProcessShows ==
  ASSUME WireTypes, NEW f \in Filters, NEW e \in DOMAIN events, events[e].kind = "data",
         ~SaysDone(e), NEW c \in ChoiceIds
  PROVE  /\ ProcessEvent(f, e).pending = Pushed(f, e).pending
         /\ ProcessEvent(f, e).shown[c] =
              IF c = events[e].choice THEN f.shown[c] \o Pushed(f, e).out ELSE f.shown[c]
<1> DEFINE d == Pushed(f, e)  x == events[e].choice
           s == [f.shown EXCEPT ![x] = @ \o d.out]
<1>1. ProcessEvent(f, e) = [pending |-> d.pending, shown |-> s]
  BY DEF ProcessEvent, Pushed
<1>2. f.shown \in [ChoiceIds -> Seq(Atoms)]
  BY DEF Filters
<1> HIDE DEF d, x
<1>3. s[c] = IF c = x THEN f.shown[c] \o d.out ELSE f.shown[c]
  BY <1>2
<1> HIDE DEF s
<1> QED
  BY <1>1, <1>3 DEF d, x

\* What the client sees of choice c, and the window behind it, is T restored.
Faithful(T, f, c, k) ==
  /\ Reversible => Track(Upto(T, k), f.pending, f.shown[c])
  /\ ~Reversible => f.pending = <<>> /\ f.shown[c] = Upto(T, k)

\* A stretch of a text after the text before.
LEMMA UptoJoins ==
  ASSUME NEW T \in Seq(Atoms), NEW t \in Seq(Atoms), NEW o \in Nat, o + Len(t) <= Len(T),
         \A i \in 1..Len(t) : T[o + i] = t[i]
  PROVE  Upto(T, o) \o t = Upto(T, o + Len(t))
<1> DEFINE m == Len(t)  a == Upto(T, o)  b == Upto(T, o + m)  c == a \o t
<1>0. m \in Nat /\ Len(T) \in Nat /\ o \in 0..Len(T) /\ o + m \in 0..Len(T)
  BY LenProperties
<1>1. a \in Seq(Atoms) /\ Len(a) = o /\ \A i \in 1..o : a[i] = T[i]
  BY <1>0, UptoAtoms
<1>2. b \in Seq(Atoms) /\ Len(b) = o + m /\ \A i \in 1..o + m : b[i] = T[i]
  BY <1>0, UptoAtoms
<1> HIDE DEF a, b
<1>3. /\ c \in Seq(Atoms) /\ Len(c) = Len(a) + m
      /\ \A i \in 1..Len(a) : c[i] = a[i]
      /\ \A i \in 1..m : c[Len(a) + i] = t[i]
  BY <1>1, JoinAtoms
<1> HIDE DEF c
<1>4. ASSUME NEW i \in 1..o + m
      PROVE  c[i] = b[i]
  <2>1. CASE i <= o
    <3>1. i \in 1..o
      BY <1>0, <2>1
    <3>2. c[i] = a[i] /\ a[i] = T[i]
      BY <1>1, <1>3, <3>1
    <3> QED
      BY <1>2, <3>2
  <2>2. CASE i > o
    <3>1. PICK j \in 1..m : i = o + j
      <4>1. i - o \in 1..m /\ i = o + (i - o)
        BY <1>0, <2>2
      <4> QED
        BY <4>1
    <3>2. c[o + j] = t[j] /\ T[o + j] = t[j]
      BY <1>1, <1>3
    <3> QED
      BY <1>2, <3>1, <3>2
  <2> QED
    BY <1>0, <2>1, <2>2
<1>5. c = b
  <2>1. Len(c) = o + m
    BY <1>1, <1>3
  <2> QED
    BY <1>2, <1>3, <1>4, <2>1, SeqEqual
<1> QED
  BY <1>5 DEF a, b, c

\* An event with the text t at place o of T.
LEMMA EventFaithful ==
  ASSUME Legible, WireTypes, NEW T \in Seq(Atoms), Short(T), NEW f \in Filters,
         NEW e \in DOMAIN events, events[e].kind = "data", ~SaysDone(e), NEW o \in Nat,
         o + Len(events[e].text) <= Len(T),
         \A i \in 1..Len(events[e].text) : T[o + i] = FilterOutput(events[e].text)[i],
         Faithful(T, f, events[e].choice, o)
  PROVE  Faithful(T, ProcessEvent(f, e), events[e].choice, o + Len(events[e].text))
<1> DEFINE c == events[e].choice  x == events[e].text  t == FilterOutput(x)
           g == ProcessEvent(f, e)  d == Pushed(f, e)  w == f.pending  s == f.shown[c]
<1>1. c \in ChoiceIds /\ x \in Seq(Atoms)
  <2>1. events[e] \in Event
    BY EventsTyped, ElementOfSeq
  <2> QED
    BY <2>1 DEF Event
<1>2. t \in Seq(Atoms) /\ Len(t) = Len(x)
  BY <1>1, MaskedLength
<1>3. g.pending = d.pending /\ g.shown[c] = s \o d.out
  BY <1>1, ProcessShows
<1>4. w \in Windows /\ s \in Seq(Atoms)
  BY <1>1 DEF Filters
<1>5. o + Len(t) <= Len(T) /\ \A i \in 1..Len(t) : T[o + i] = t[i]
  BY <1>2
<1>6. /\ Reversible => d = FoldLeft(PushAtom, [pending |-> w, out |-> <<>>], t)
      /\ ~Reversible => d = [pending |-> w, out |-> t]
  BY Zenon DEF Pushed
<1>7. /\ Reversible => Track(Upto(T, o), w, s)
      /\ ~Reversible => w = <<>> /\ s = Upto(T, o)
  BY DEF Faithful
<1> HIDE DEF c, x, t, g, d, w, s
<1>8. ASSUME Reversible
      PROVE  Track(Upto(T, o + Len(x)), g.pending, g.shown[c])
  <2> DEFINE r == FoldLeft(PushAtom, [pending |-> w, out |-> <<>>], t)
  <2>1. Track(Upto(T, o + Len(t)), r.pending, s \o r.out)
    BY <1>2, <1>4, <1>5, <1>7, <1>8, RunTracks
  <2> HIDE DEF r
  <2>2. d = r
    BY <1>6, <1>8 DEF r
  <2> QED
    BY <1>2, <1>3, <2>1, <2>2
<1>9. ASSUME ~Reversible
      PROVE  g.pending = <<>> /\ g.shown[c] = Upto(T, o + Len(x))
  <2>1. d.pending = w /\ d.out = t
    BY <1>6, <1>9
  <2>2. Upto(T, o) \o t = Upto(T, o + Len(t))
    BY <1>2, <1>5, UptoJoins
  <2> QED
    BY <1>2, <1>3, <1>7, <1>9, <2>1, <2>2
<1> QED
  BY <1>8, <1>9 DEF Faithful, c, x, g

\* An event without text.
LEMMA SilentFaithful ==
  ASSUME WireTypes, NEW T, NEW f \in Filters, NEW e \in DOMAIN events, events[e].kind = "data",
         events[e].text = <<>>, NEW c \in ChoiceIds, NEW k, Faithful(T, f, c, k)
  PROVE  Faithful(T, ProcessEvent(f, e), c, k)
<1> DEFINE x == events[e].text  t == FilterOutput(x) g == ProcessEvent(f, e)  d == Pushed(f, e)
           base == [pending |-> f.pending, out |-> <<>>]
<1>1. t \in Seq(Atoms) /\ Len(t) = 0
  <2>1. x \in Seq(Atoms) /\ Len(x) = 0
    BY EmptySeq
  <2> HIDE DEF x
  <2>2. t \in Seq(Atoms) /\ Len(t) = Len(x)
    BY <2>1, MaskedLength
  <2> QED
    BY <2>1, <2>2
<1>2. t = <<>> /\ DOMAIN t = {}
  <2>1. DOMAIN t = 1..0
    BY <1>1, LenProperties
  <2> QED
    BY <1>1, <2>1, EmptySeq
<1>3. d = base
  <2>1. FoldLeft(PushAtom, base, t) = Window!Fold(0, base, t)
    BY WindowFolds
  <2>2. Window!Fold(0, base, t) = base
    BY <1>2, Window!FoldNil
  <2> QED
    BY <1>2, <2>1, <2>2, Zenon DEF Pushed
<1>4. d.pending = f.pending /\ d.out = <<>>
  BY <1>3
<1>5. f.shown[c] \in Seq(Atoms)
  BY DEF Filters
<1>6. f.shown[c] \o <<>> = f.shown[c]
  BY <1>5, ConcatEmptySeq
<1>7. g.pending = d.pending /\ g.shown[c] = IF c = events[e].choice THEN f.shown[c] \o d.out ELSE f.shown[c]
  <2>1. ~SaysDone(e)
    BY DEF SaysDone
  <2> QED
    BY <2>1, ProcessShows
<1> HIDE DEF d, g
<1>8. g.pending = f.pending /\ g.shown[c] = f.shown[c]
  BY <1>4, <1>6, <1>7, Zenon
<1> QED
  BY <1>8 DEF Faithful, g

\* After n events.
LEMMA RunFaithful ==
  ASSUME Legible, WireTypes, PhrasesWhole, ContextInEvent, WindowsShort, OneSpeaker,
         \A e \in Passed : ~SaysDone(e),
         NEW n \in 0..Len(events), NEW h, Shows(n, h),
         Passed = {e \in 1..n : events[e].kind = "data"},
         NEW a \in Passed, events[a].text # <<>>
  PROVE  LET T == FilterOutput(TextOf(Passed))
         IN  h[n] \in Filters /\ Faithful(T, h[n], events[a].choice, Len(T))
<1> DEFINE N == Len(events)  t == TextOf(Passed)  T == FilterOutput(t)  c == events[a].choice
<1>0. N \in Nat /\ n \in Nat /\ n <= N /\ DOMAIN events = 1..N /\ events \in Seq(Event)
  BY EventsTyped
<1>1. c \in ChoiceIds /\ a \in DOMAIN events
  <2>1. a \in DOMAIN events
    BY <1>0, PassedTyped
  <2>2. events[a] \in Event
    BY <1>0, <2>1, ElementOfSeq
  <2> QED
    BY <2>1, <2>2 DEF Event
<1>2. t \in Seq(Atoms) /\ T \in Seq(Atoms) /\ Len(T) = Len(t) /\ Short(T)
  BY PassedTyped, PassedShort, MaskedLength
<1>3. PICK g : Telling(Passed, g)
  BY TextRuns
<1>4. /\ g[0] = <<>> /\ t = g[N] /\ \A k \in 0..N : g[k] \in Seq(Atoms)
      /\ \A k \in 1..N : g[k] = g[k - 1] \o (IF k \in Passed THEN events[k].text ELSE <<>>)
  BY <1>3 DEF Telling
<1>5. h[0] = Nothing /\ \A k \in 1..n : h[k] = ProcessEvent(h[k - 1], k)
  BY DEF Shows
<1>p. \A k \in 1..n : k \in Passed <=> events[k].kind = "data"
  OBVIOUS
<1> HIDE DEF T, t, c, N
<1> DEFINE S == {k \in 0..n : h[k] \in Filters /\ Faithful(T, h[k], c, Len(g[k]))}
<1>6. 0 \in S
  <2>1. h[0] \in Filters /\ h[0].pending = <<>> /\ h[0].shown[c] = <<>>
    BY <1>1, <1>5, NothingTyped DEF Nothing
  <2>2. Len(g[0]) = 0 /\ 0 \in 0..Len(T) /\ 0 \in 0..n
    BY <1>0, <1>2, <1>4, EmptySeq, LenProperties
  <2>3. Upto(T, 0) = <<>>
    <3>1. Upto(T, 0) \in Seq(Atoms) /\ Len(Upto(T, 0)) = 0
      BY <1>2, <2>2, UptoAtoms
    <3> QED
      BY <3>1, EmptySeq
  <2>4. Restore(<<>>, Entries) = <<>>
    <3>1. <<>> \in Windows
      BY NothingTyped DEF Nothing, Filters
    <3> QED
      BY <3>1, RestoreWindow
  <2>5. Track(<<>>, <<>>, <<>>)
    <3>1. <<>> \in Seq(Atoms) /\ <<>> = <<>> \o <<>>
      BY EmptySeq, ConcatEmptySeq
    <3>2. Safe(<<>>)
      BY NothingBegun DEF Safe
    <3> QED
      BY <2>4, <3>1, <3>2, Zenon DEF Track
  <2>6. Faithful(T, h[0], c, 0)
    BY <2>1, <2>3, <2>5, Zenon DEF Faithful
  <2> QED
    BY <2>1, <2>2, <2>6
<1>7. ASSUME NEW k \in 0..n - 1, k \in S
      PROVE  k + 1 \in S
  <2> DEFINE e == k + 1  f == h[k]
  <2>1. e \in 1..n /\ e - 1 = k /\ e \in 1..N /\ e \in 0..n /\ k \in 0..N
    BY <1>0
  <2>2. f \in Filters /\ Faithful(T, f, c, Len(g[k]))
    BY <1>7
  <2>3. h[e] = ProcessEvent(f, e)
    BY <1>5, <2>1
  <2>4. g[e] = g[k] \o (IF e \in Passed THEN events[e].text ELSE <<>>)
    BY <1>4, <2>1
  <2>5. g[k] \in Seq(Atoms) /\ g[k] \o <<>> = g[k]
    BY <1>4, <2>1, ConcatEmptySeq
  <2>6. e \in DOMAIN events
    BY <1>0, <2>1
  <2> HIDE DEF e, f
  <2>7. ProcessEvent(f, e) \in Filters
    BY <2>2, <2>6, ProcessTyped DEF Filters
  <2>8. CASE events[e].kind # "data"
    <3>1. ProcessEvent(f, e) = f
      BY <2>8 DEF ProcessEvent
    <3>2. e \notin Passed
      BY <1>p, <2>1, <2>8
    <3>3. g[e] = g[k]
      BY <2>4, <2>5, <3>2, Zenon
    <3> QED
      BY <2>1, <2>2, <2>3, <3>1, <3>3 DEF e
  <2>9. CASE events[e].kind = "data" /\ events[e].text = <<>>
    <3>1. g[e] = g[k]
      BY <2>4, <2>5, <2>9, Zenon
    <3>2. Faithful(T, ProcessEvent(f, e), c, Len(g[k]))
      BY <1>1, <2>2, <2>6, <2>9, SilentFaithful
    <3> QED
      BY <2>1, <2>3, <2>7, <3>1, <3>2 DEF e
  <2>10. CASE events[e].kind = "data" /\ events[e].text # <<>>
    <3>1. e \in Passed
      BY <1>p, <2>1, <2>10
    <3>2. events[e].choice = c
      BY <1>1, <2>6, <2>10 DEF OneSpeaker, c
    <3> DEFINE o == Len(g[k])  x == events[e].text
    <3>3. /\ o \in Nat /\ o + Len(x) <= Len(T) /\ Len(g[e]) = o + Len(x)
          /\ \A i \in 1..Len(x) : T[o + i] = FilterOutput(x)[i]
      <4>1. LET v == events[e].text
                W == FilterOutput(TextOf(Passed))
                q == Len(g[e - 1])
            IN  /\ v \in Seq(Atoms) /\ q \in Nat /\ q + Len(v) <= Len(W) /\ Len(g[e]) = q + Len(v)
                /\ \A i \in 1..Len(v) : W[q + i] = FilterOutput(v)[i]
        BY <1>3, <3>1, MaskedAt
      <4> QED
        BY <2>1, <4>1 DEF T, t
    <3> HIDE DEF o
    <3>4. Faithful(T, f, events[e].choice, o)
      BY <2>2, <3>2 DEF o
    <3>5. Faithful(T, ProcessEvent(f, e), events[e].choice, o + Len(events[e].text))
      BY <1>2, <2>2, <2>6, <2>10, <3>1, <3>3, <3>4, EventFaithful
    <3>6. Faithful(T, h[e], c, Len(g[e]))
      BY <2>3, <3>2, <3>3, <3>5
    <3> QED
      BY <2>1, <2>3, <2>7, <3>6 DEF e
  <2> QED
    BY <2>8, <2>9, <2>10
<1> HIDE DEF S
<1>8. \A k \in 0..n : k \in S
  BY <1>0, <1>6, <1>7, InductUpTo
<1>9. h[n] \in Filters /\ Faithful(T, h[n], c, Len(g[n]))
  BY <1>0, <1>8 DEF S
<1>10. g[n] = t
  <2>1. Passed = {d \in Passed : d <= n}
    <3>1. \A d \in Passed : d <= n
      BY <1>0
    <3> QED
      BY <3>1
  <2>2. TextOf({d \in Passed : d <= n}) = g[n]
    BY <1>3, TextUpTo
  <2> QED
    BY <2>1, <2>2 DEF t
<1> QED
  BY <1>2, <1>9, <1>10 DEF T, t, c

\* The window held back and what is shown make up the whole.
LEMMA FaithfulWhole ==
  ASSUME Legible, NEW T \in Seq(Atoms), NEW f \in Filters, NEW c \in ChoiceIds,
         Faithful(T, f, c, Len(T))
  PROVE  f.shown[c] \o f.pending = IF Reversible THEN Restore(T, Entries) ELSE T
<1> DEFINE s == f.shown[c]  w == f.pending
<1>0. s \in Seq(Atoms) /\ w \in Windows /\ w \in Seq(Atoms)
  BY DEF Filters, Windows
<1>1. Upto(T, Len(T)) = T
  BY UptoAll
<1>2. /\ Reversible => Track(T, w, s)
      /\ ~Reversible => w = <<>> /\ s = T
  BY <1>1 DEF Faithful
<1> HIDE DEF s, w
<1>3. ASSUME Reversible
      PROVE  s \o w = Restore(T, Entries)
  <2>1. PICK v \in Seq(Atoms) : T = v \o w /\ Safe(v) /\ s = Restore(v, Entries)
    BY <1>2, <1>3 DEF Track
  <2>2. Restore(v \o w, Entries) = Restore(v, Entries) \o Restore(w, Entries)
    BY <1>0, <2>1, RestoreJoin
  <2>3. Restore(w, Entries) = w
    BY <1>0, RestoreWindow
  <2> QED
    BY <2>1, <2>2, <2>3, Zenon
<1>4. ASSUME ~Reversible
      PROVE  s \o w = T
  BY <1>0, <1>2, <1>4, ConcatEmptySeq
<1> QED
  BY <1>3, <1>4 DEF s, w

\* The events of the first n that are whole.
LEMMA EndsIn ==
  ASSUME NEW evs \in Seq(Event), NEW n \in 0..Len(evs)
  PROVE  EventsWith(SubSeq(Wire(evs), 1, 4 * n), "nl") = 1..n
<1> DEFINE b == 4 * n  w == SubSeq(Wire(evs), 1, b)
<1>0. Len(evs) \in Nat /\ n \in Nat /\ b \in Nat /\ b <= 4 * Len(evs)
  BY LenProperties
<1>1. w \in Seq(Pieces(evs)) /\ Len(w) = b /\ \A i \in 1..b : w[i] = Wire(evs)[i]
  <2>1. /\ SubSeq(Wire(evs), 0 + 1, b) \in Seq(Pieces(evs))
        /\ Len(SubSeq(Wire(evs), 0 + 1, b)) = b - 0
        /\ \A i \in 1..b - 0 : SubSeq(Wire(evs), 0 + 1, b)[i] = Wire(evs)[0 + i]
    <3>1. 0 \in Nat /\ 0 <= b
      BY <1>0
    <3> QED
      BY <1>0, <3>1, ChunkTyped
  <2> QED
    BY <1>0, <2>1
<1> HIDE DEF w
<1>2. Range(w) = {w[i] : i \in 1..b}
  BY <1>1, RangeEquality
<1>3. \A i \in 1..b : w[i] = <<1 + (i - 1) \div 4, Parts[1 + ((i - 1) % 4)]>>
  <2> SUFFICES ASSUME NEW i \in 1..b
               PROVE  w[i] = <<1 + (i - 1) \div 4, Parts[1 + ((i - 1) % 4)]>>
    OBVIOUS
  <2>1. i \in 1..4 * Len(evs)
    BY <1>0
  <2> QED
    BY <1>1, <2>1, WireShape
<1>4. ASSUME NEW e \in EventsWith(w, "nl")
      PROVE  e \in 1..n
  <2>1. PICK i \in 1..b : e = w[i][1]
    BY <1>2 DEF EventsWith
  <2>2. e = 1 + (i - 1) \div 4
    BY <1>3, <2>1
  <2> QED
    BY <1>0, <2>2
<1>5. ASSUME NEW e \in 1..n
      PROVE  e \in EventsWith(w, "nl")
  <2> DEFINE i == 4 * e
  <2>1. i \in 1..b /\ (i - 1) \div 4 = e - 1 /\ (i - 1) % 4 = 3
    BY <1>0
  <2>2. Parts[1 + 3] = "nl"
    BY PartAt
  <2> HIDE DEF i, b
  <2>3. w[i] = <<1 + (e - 1), Parts[1 + 3]>>
    BY <1>3, <2>1
  <2>4. w[i][1] = e /\ w[i][2] = "nl"
    BY <2>2, <2>3
  <2>5. w[i] \in Range(w)
    BY <1>2, <2>1
  <2> QED
    BY <2>4, <2>5 DEF EventsWith
<1>6. EventsWith(w, "nl") = 1..n
  BY <1>4, <1>5
<1> QED
  BY <1>6 DEF w

\* What is cut off the front of equal sequences leaves equal rests.
LEMMA SameRest ==
  ASSUME NEW P, NEW a \in Seq(P), NEW b \in Seq(P), NEW c \in Seq(P), a \o b = a \o c
  PROVE  b = c
<1> DEFINE n == Len(a)  x == a \o b  y == a \o c
<1>1. /\ n \in Nat /\ Len(b) \in Nat /\ Len(x) = n + Len(b)
      /\ \A i \in 1..n + Len(b) : x[i] = IF i <= n THEN a[i] ELSE b[i - n]
  BY ConcatProperties, LenProperties
<1>2. /\ Len(c) \in Nat /\ Len(y) = n + Len(c)
      /\ \A i \in 1..n + Len(c) : y[i] = IF i <= n THEN a[i] ELSE c[i - n]
  BY ConcatProperties, LenProperties
<1>3. x = y
  OBVIOUS
<1> HIDE DEF x, y, n
<1>4. Len(b) = Len(c)
  BY <1>1, <1>2, <1>3
<1>5. ASSUME NEW i \in 1..Len(b)
      PROVE  b[i] = c[i]
  <2> DEFINE j == n + i
  <2>1. j \in 1..n + Len(b) /\ ~(j <= n) /\ j - n = i /\ j \in 1..n + Len(c)
    BY <1>1, <1>4
  <2> HIDE DEF j
  <2>2. x[j] = b[i] /\ y[j] = c[i]
    BY <1>1, <1>2, <2>1
  <2> QED
    BY <1>3, <2>2
<1> QED
  BY <1>4, <1>5, SeqEqual

\* The events n + 1 to m go through the filter.
LEMMA FilterRuns ==
  ASSUME WireTypes, NEW n \in 0..Len(events), NEW m \in n..Len(events),
         NEW h, Shows(n, h), NEW S, S = n + 1..m
  PROVE  \E g : Shows(m, g) /\ g[m] = Through(ProcessEvent, h[n], S)
<1> DEFINE N == Len(events)  q == [e \in 1..N |-> e]  start == h[n]
<1>0. /\ N \in Nat /\ DOMAIN events = 1..N /\ DOMAIN q = 1..N
      /\ n \in Nat /\ m \in Nat /\ n <= m /\ m <= N
  BY EventsTyped
<1>1. Through(ProcessEvent, start, S) = Filter!Fold(S, start, q)
  BY <1>0, FilterFolds
<1>q. \A k \in 1..N : q[k] = k
  OBVIOUS
<1> HIDE DEF N, q, start
<1>2. PICK r : Filter!Course(S, start, q, N, r) /\ Filter!Fold(S, start, q) = r[N]
  BY <1>0, Filter!FoldRuns
<1>3. /\ r[0] = start
      /\ \A k \in 1..N : k \in S => r[k] = ProcessEvent(r[k - 1], k)
      /\ \A k \in 1..N : k \notin S => r[k] = r[k - 1]
  <2>1. r[0] = start /\ \A k \in 1..N : r[k] = ProcessIn(S, r[k - 1], q[k])
    BY <1>2 DEF Filter!Course
  <2> QED
    BY <1>q, <2>1 DEF ProcessIn
<1> DEFINE A == {k \in 0..N : k <= n => r[k] = start}  B == {k \in 0..N : k >= m => r[k] = r[m]}
<1>4. \A k \in 0..N : k \in A
  <2>1. 0 \in A
    BY <1>0, <1>3
  <2>2. ASSUME NEW k \in 0..N - 1, k \in A
        PROVE  k + 1 \in A
    <3>1. k + 1 \in 1..N /\ k + 1 \in 0..N /\ (k + 1) - 1 = k
      BY <1>0
    <3>2. CASE k + 1 <= n
      <4>1. k + 1 \notin S /\ k <= n
        BY <1>0, <3>2
      <4>2. r[k + 1] = r[k]
        BY <1>3, <3>1, <4>1
      <4> QED
        BY <2>2, <3>1, <4>1, <4>2
    <3>3. CASE ~(k + 1 <= n)
      BY <3>1, <3>3
    <3> QED
      BY <3>2, <3>3
  <2> HIDE DEF A
  <2> QED
    BY <1>0, <2>1, <2>2, InductUpTo
<1>5. \A k \in 0..N : k \in B
  <2>1. 0 \in B
    <3>1. 0 \in 0..N /\ (0 >= m => m = 0)
      BY <1>0
    <3> QED
      BY <3>1
  <2>2. ASSUME NEW k \in 0..N - 1, k \in B
        PROVE  k + 1 \in B
    <3>1. k + 1 \in 1..N /\ k + 1 \in 0..N /\ (k + 1) - 1 = k
      BY <1>0
    <3>2. CASE k >= m
      <4>1. k + 1 \notin S
        BY <1>0, <3>2
      <4>2. r[k + 1] = r[k]
        BY <1>3, <3>1, <4>1
      <4> QED
        BY <2>2, <3>1, <3>2, <4>2
    <3>3. CASE k + 1 = m
      BY <3>1, <3>3
    <3>4. CASE ~(k + 1 >= m)
      BY <3>1, <3>4
    <3> QED
      BY <1>0, <3>2, <3>3, <3>4
  <2> HIDE DEF B
  <2> QED
    BY <1>0, <2>1, <2>2, InductUpTo
<1> DEFINE g == [k \in 0..m |-> IF k <= n THEN h[k] ELSE r[k]]
<1>6. r[n] = start /\ r[N] = r[m]
  <2>1. n \in A /\ N \in B
    BY <1>0, <1>4, <1>5
  <2> QED
    BY <1>0, <2>1
<1>7. \A k \in 0..m : g[k] = IF k <= n THEN h[k] ELSE r[k]
  OBVIOUS
<1> HIDE DEF g, A, B
<1>8. g[0] = Nothing
  BY <1>0, <1>7 DEF Shows
<1>9. ASSUME NEW k \in 1..m
      PROVE  g[k] = ProcessEvent(g[k - 1], k)
  <2>1. k \in 0..m /\ k - 1 \in 0..m /\ k \in 1..N
    BY <1>0
  <2>2. CASE k <= n
    <3>1. g[k] = h[k] /\ g[k - 1] = h[k - 1] /\ k \in 1..n
      BY <1>0, <1>7, <2>1, <2>2
    <3> QED
      BY <3>1 DEF Shows
  <2>3. CASE k > n
    <3>1. k \in S
      BY <1>0, <2>3
    <3>2. g[k] = r[k] /\ r[k] = ProcessEvent(r[k - 1], k)
      BY <1>0, <1>3, <1>7, <2>1, <2>3, <3>1
    <3>3. g[k - 1] = r[k - 1]
      <4>1. CASE k - 1 = n
        BY <1>0, <1>6, <1>7, <2>1, <4>1 DEF start
      <4>2. CASE k - 1 > n
        BY <1>0, <1>7, <2>1, <4>2
      <4> QED
        BY <1>0, <2>3, <4>1, <4>2
    <3> QED
      BY <3>2, <3>3
  <2> QED
    BY <1>0, <2>2, <2>3
<1>10. g[m] = r[m]
  <2>1. CASE m = n
    BY <1>0, <1>6, <1>7, <2>1 DEF start
  <2>2. CASE m > n
    BY <1>0, <1>7, <2>2
  <2> QED
    BY <1>0, <2>1, <2>2
<1>11. Shows(m, g)
  BY <1>8, <1>9 DEF Shows
<1> QED
  BY <1>1, <1>2, <1>6, <1>10, <1>11 DEF start

LEMMA SameShows ==
  ASSUME events' = events, cfg' = cfg
  PROVE  \A n, h : Shows(n, h) => Shows(n, h)'
<1>1. ASSUME NEW f, NEW e
      PROVE  ProcessEvent(f, e)' = ProcessEvent(f, e)
  BY DEF ProcessEvent, Reversible, SaysDone
<1>2. ASSUME NEW n, NEW h, Shows(n, h)
      PROVE  Shows(n, h)'
  <2>1. ASSUME NEW k \in 1..n
        PROVE  h[k] = ProcessEvent(h[k - 1], k)'
    BY <1>1, <1>2 DEF Shows
  <2>2. h[0] = Nothing'
    BY <1>2 DEF Shows, Nothing
  <2> QED
    BY <2>1, <2>2 DEF Shows
<1> QED
  BY <1>2

-----------------------------------------------------------------------------
(* Text as if whole                                                        *)

\* The client has n whole events, and what they come to is what is shown.
Delivered ==
  \E n, h :
    /\ n \in 0..Len(events)
    /\ forwarded = SubSeq(Wire(events), 1, 4 * n)
    /\ Shows(n, h)
    /\ h[n] = [pending |-> IF status = "ended" THEN discarded ELSE pending, shown |-> shown]

TextInv ==
  /\ TypeInv
  /\ status # "ended" => verbatim = {} /\ discarded = <<>>
  /\ status = "ended" => pending = <<>>
  /\ cfg.output /\ verbatim = {} => Delivered

LEMMA TextInit == Init => TextInv
<1> SUFFICES ASSUME Init PROVE TextInv
  OBVIOUS
<1>1. TypeInv /\ WireTypes
  BY TypeInit DEF TypeInv, FramingInv
<1>2. /\ status = "open" /\ verbatim = {} /\ discarded = <<>> /\ pending = <<>>
      /\ forwarded = <<>> /\ shown = [c \in ChoiceIds |-> <<>>]
  BY DEF Init
<1>3. events \in Seq(Event) /\ Len(events) \in Nat
  BY <1>1, EventsTyped
<1>4. SubSeq(Wire(events), 1, 4 * 0) = <<>>
  <2>1. 0 \in Nat /\ 0 <= 0 /\ 0 <= 4 * Len(events)
    BY <1>3
  <2>2. /\ SubSeq(Wire(events), 0 + 1, 0) \in Seq(Pieces(events))
        /\ Len(SubSeq(Wire(events), 0 + 1, 0)) = 0 - 0
    BY <1>3, <2>1, ChunkTyped
  <2>3. 0 + 1 = 1 /\ 4 * 0 = 0 /\ 0 - 0 = 0
    OBVIOUS
  <2> DEFINE w == SubSeq(Wire(events), 1, 4 * 0)
  <2>4. w \in Seq(Pieces(events)) /\ Len(w) = 0
    BY <2>2, <2>3
  <2> HIDE DEF w
  <2>5. w = <<>>
    BY <2>4, EmptySeq
  <2> QED
    BY <2>5 DEF w
<1> DEFINE h == [k \in {0} |-> Nothing]
<1>5. h[0] = Nothing
  OBVIOUS
<1>6. Shows(0, h)
  BY <1>5 DEF Shows
<1>7. h[0] = [pending |-> IF status = "ended" THEN discarded ELSE pending, shown |-> shown]
  BY <1>2, <1>5 DEF Nothing
<1>8. 0 \in 0..Len(events)
  BY <1>3
<1> HIDE DEF h
<1>9. Delivered
  BY <1>2, <1>4, <1>6, <1>7, <1>8 DEF Delivered
<1> QED
  BY <1>1, <1>2, <1>9 DEF TextInv

\* push hands on the next events, filtered.
LEMMA PushDelivers ==
  ASSUME TypeInv, status = "open", cfg.output, Delivered,
         NEW n \in 1..Len(Wire(events)), pos + n <= Len(Wire(events)),
         PushChunk(SubSeq(Wire(events), pos + 1, pos + n))
  PROVE  \E m, h :
           /\ m \in 0..Len(events)
           /\ forwarded' = SubSeq(Wire(events), 1, 4 * m)
           /\ Shows(m, h)
           /\ h[m] = [pending |-> pending', shown |-> shown']
<1> DEFINE N == Len(events)  W == Wire(events)  P == Pieces(events)
           chunk == SubSeq(W, pos + 1, pos + n)
           buf == buffer \o chunk  c == Complete(buf)  new == SubSeq(buf, 1, c)
           start == [pending |-> pending, shown |-> shown]
           f == Through(ProcessEvent, start, EventsWith(new, "tail"))
<1>0. /\ FramingInv /\ WireTypes /\ events \in Seq(Event) /\ N \in Nat
      /\ forwarded \in Seq(P) /\ buffer \in Seq(P)
  BY EventsTyped DEF TypeInv, FramingInv, WireTypes
<1>1. forwarded' = forwarded \o new /\ pending' = f.pending /\ shown' = f.shown
  BY Zenon DEF PushChunk
<1>d. PICK k \in 0..N :
        \E h : forwarded = SubSeq(W, 1, 4 * k) /\ Shows(k, h) /\ h[k] = start
  BY DEF Delivered
<1>2. PICK h : forwarded = SubSeq(W, 1, 4 * k) /\ Shows(k, h) /\ h[k] = start
  BY <1>d
<1>3. /\ buffer' \in Seq(P) /\ forwarded' \in Seq(P)
      /\ forwarded' \o buffer' = SubSeq(W, 1, pos + n)
      /\ Len(forwarded') % 4 = 0
  BY <1>0, PushChunkFrames
<1>4. /\ chunk \in Seq(P) /\ pos + n \in 0..4 * N /\ pos + n \in Nat
  BY <1>0, ChunkArrives
<1>5. /\ buf \in Seq(P) /\ c \in 0..Len(buf) /\ new \in Seq(P) /\ Len(new) = c
      /\ Len(forwarded \o new) = Len(forwarded) + c /\ Len(buf) \in Nat
  <2>1. PushAt(P, forwarded, buffer, chunk)
    BY <1>0, <1>4, PushJoins
  <2>2. buf \in Seq(P) /\ c \in 0..Len(buf) /\ CutAt(P, forwarded, buf, c)
    BY <2>1 DEF PushAt
  <2>3. Len(forwarded \o new) = Len(forwarded) + c
    BY <2>2 DEF CutAt
  <2>4. new \in Seq(P) /\ Len(new) = c /\ Len(buf) \in Nat
    <3> HIDE DEF buf, c, P
    <3>1. Len(buf) \in Nat /\ \A i \in 1..c : buf[i] \in P
      BY <2>2, LenProperties, ElementOfSeq
    <3>2. /\ new \in Seq(P)
          /\ Len(new) = IF 1 <= c THEN c - 1 + 1 ELSE 0
      BY <2>2, <3>1, SubSeqProperties
    <3> QED
      BY <2>2, <3>1, <3>2
  <2> QED
    BY <2>2, <2>3, <2>4
<1> HIDE DEF W, P, buf, c, new, f, chunk
<1>6. Len(forwarded) = 4 * k
  <2>1. 0 \in Nat /\ 4 * k \in Nat /\ 0 <= 4 * k /\ 4 * k <= 4 * N
    BY <1>0
  <2>2. Len(SubSeq(W, 0 + 1, 4 * k)) = 4 * k - 0
    BY <1>0, <2>1, ChunkTyped DEF W
  <2>3. 0 + 1 = 1 /\ 4 * k - 0 = 4 * k
    BY <2>1
  <2> QED
    BY <1>2, <2>2, <2>3
<1>7. PICK m \in Nat : Len(forwarded') = 4 * m
  <2>1. Len(forwarded') \in Nat
    BY <1>3, LenProperties
  <2>2. Len(forwarded') \div 4 \in Nat /\ Len(forwarded') = 4 * (Len(forwarded') \div 4)
    BY <1>3, <2>1
  <2> QED
    BY <2>2
<1>e. 4 * m <= pos + n /\ 4 * m \in Nat /\ pos + n <= 4 * N
  <2>1. Len(forwarded' \o buffer') = Len(forwarded') + Len(buffer') /\ Len(buffer') \in Nat
    BY <1>3, ConcatProperties, LenProperties
  <2>2. Len(SubSeq(W, 0 + 1, pos + n)) = (pos + n) - 0
    <3>1. 0 \in Nat /\ 0 <= pos + n /\ pos + n <= 4 * N
      BY <1>4
    <3> QED
      BY <1>0, <1>4, <3>1, ChunkTyped DEF W
  <2> QED
    BY <1>3, <1>4, <1>7, <2>1, <2>2
<1>8. m \in k..N
  <2>1. 4 * m = 4 * k + c
    BY <1>1, <1>5, <1>6, <1>7
  <2> QED
    BY <1>0, <1>4, <1>5, <1>e, <2>1
<1>9. /\ SubSeq(W, 1, 4 * k) \o SubSeq(W, 4 * k + 1, 4 * m) = SubSeq(W, 1, 4 * m)
      /\ SubSeq(W, 4 * k + 1, 4 * m) \in Seq(P) /\ SubSeq(W, 1, 4 * m) \in Seq(P)
      /\ SubSeq(W, 1, 4 * m) \o SubSeq(W, 4 * m + 1, pos + n) = SubSeq(W, 1, pos + n)
      /\ Len(SubSeq(W, 1, 4 * m)) = 4 * m
  <2>1. /\ 4 * k \in Nat /\ 4 * m \in Nat /\ 4 * k <= 4 * m /\ 4 * m <= 4 * N
        /\ 4 * m <= pos + n /\ pos + n <= 4 * N /\ 0 \in Nat /\ 0 <= 4 * m
    BY <1>0, <1>8, <1>e
  <2>2. /\ SubSeq(W, 4 * k + 1, 4 * m) \in Seq(P)
        /\ SubSeq(W, 1, 4 * k) \o SubSeq(W, 4 * k + 1, 4 * m) = SubSeq(W, 1, 4 * m)
    BY <1>0, <2>1, ChunkTyped DEF W, P
  <2>3. SubSeq(W, 1, 4 * m) \o SubSeq(W, 4 * m + 1, pos + n) = SubSeq(W, 1, pos + n)
    BY <1>0, <1>4, <2>1, ChunkTyped DEF W, P
  <2>4. SubSeq(W, 0 + 1, 4 * m) \in Seq(P) /\ Len(SubSeq(W, 0 + 1, 4 * m)) = 4 * m - 0
    BY <1>0, <2>1, ChunkTyped DEF W, P
  <2>5. 0 + 1 = 1 /\ 4 * m - 0 = 4 * m
    BY <2>1
  <2> QED
    BY <2>2, <2>3, <2>4, <2>5
<1>10. forwarded' = SubSeq(W, 1, 4 * m)
  <2> DEFINE a == forwarded'  b == SubSeq(W, 1, 4 * m)  z == SubSeq(W, 4 * m + 1, pos + n)  y == buffer'
             u == a \o y  v == b \o z
  <2>1. u = v /\ a \in Seq(P) /\ b \in Seq(P) /\ y \in Seq(P) /\ Len(a) = 4 * m /\ Len(b) = 4 * m
    BY <1>3, <1>7, <1>9
  <2>2. z \in Seq(P)
    BY <1>0, <1>4, <1>e, ChunkTyped DEF W, P
  <2> HIDE DEF a, b, y, z
  <2>3. /\ Len(y) \in Nat
        /\ \A i \in 1..Len(a) + Len(y) : u[i] = IF i <= Len(a) THEN a[i] ELSE y[i - Len(a)]
    BY <2>1, ConcatProperties, LenProperties
  <2>4. /\ Len(z) \in Nat
        /\ \A i \in 1..Len(b) + Len(z) : v[i] = IF i <= Len(b) THEN b[i] ELSE z[i - Len(b)]
    BY <2>1, <2>2, ConcatProperties, LenProperties
  <2> HIDE DEF u, v
  <2>5. \A i \in 1..4 * m : a[i] = b[i]
    BY <2>1, <2>3, <2>4
  <2>6. a = b
    BY <2>1, <2>5, SeqEqual
  <2> QED
    BY <2>6 DEF a, b
<1>11. new = SubSeq(W, 4 * k + 1, 4 * m)
  <2> DEFINE r == SubSeq(W, 4 * k + 1, 4 * m)
  <2>1. forwarded \o new = forwarded \o r /\ r \in Seq(P)
    BY <1>1, <1>2, <1>9, <1>10
  <2> HIDE DEF r
  <2>2. new = r
    BY <1>0, <1>5, <2>1, SameRest
  <2> QED
    BY <2>2 DEF r
<1>12. EventsWith(new, "tail") = k + 1..m
  <2>1. 4 * k \in Nat /\ 4 * m \in Nat /\ 4 * k <= 4 * m /\ 4 * m <= 4 * N
    BY <1>0, <1>8
  <2>2. EventsWith(new, "tail") = {e \in 1..N : 4 * k < 4 * e - 2 /\ 4 * e - 2 <= 4 * m}
    BY <1>0, <1>11, <2>1, TailsIn DEF W
  <2>3. \A e \in 1..N : (4 * k < 4 * e - 2 /\ 4 * e - 2 <= 4 * m) <=> e \in k + 1..m
    BY <1>0, <1>8
  <2>4. k + 1..m \subseteq 1..N
    BY <1>0, <1>8
  <2> QED
    BY <2>2, <2>3, <2>4
<1>13. PICK g : Shows(m, g) /\ g[m] = Through(ProcessEvent, h[k], EventsWith(new, "tail"))
  <2> DEFINE S == EventsWith(new, "tail")
  <2>1. WireTypes /\ Shows(k, h) /\ S = k + 1..m /\ k \in 0..Len(events) /\ m \in k..Len(events)
    BY <1>0, <1>2, <1>8, <1>12
  <2> HIDE DEF S
  <2>2. \E g : Shows(m, g) /\ g[m] = Through(ProcessEvent, h[k], S)
    BY <2>1, FilterRuns
  <2> QED
    BY <2>2 DEF S
<1>14. g[m] = f
  BY <1>2, <1>13 DEF f
<1>15. f \in [pending : Windows, shown : [ChoiceIds -> Seq(Atoms)]]
  BY <1>0, FilteredTyped DEF TypeInv, f
<1>16. g[m] = [pending |-> pending', shown |-> shown']
  BY <1>1, <1>14, <1>15
<1>17. m \in 0..N
  BY <1>0, <1>8
<1> QED
  BY <1>10, <1>13, <1>16, <1>17 DEF W

\* Nothing is left to flush, if flush passes no event on.
LEMMA NothingFlushed ==
  ASSUME FramingInv, cfg.output, status = "open", EventsWith(buffer, "head") = {}
  PROVE  buffer = <<>>
<1> DEFINE N == Len(events)  W == Wire(events)  P == Pieces(events)  x == Len(forwarded)
           w == SubSeq(W, 1, pos)
<1>0. /\ WireTypes /\ events \in Seq(Event) /\ N \in Nat /\ pos \in Nat /\ pos \in 0..4 * N
      /\ forwarded \in Seq(P) /\ buffer \in Seq(P)
      /\ forwarded \o buffer = w /\ x % 4 = 0
  BY EventsTyped DEF FramingInv, WireTypes, NothingLost, WholeEvents
<1> SUFFICES ASSUME buffer # <<>>
             PROVE  FALSE
  OBVIOUS
<1>1. Len(buffer) \in Nat /\ Len(buffer) >= 1 /\ x \in Nat
  BY <1>0, EmptySeq, LenProperties
<1>2. w[x + 1] = buffer[1] /\ Len(w) = x + Len(buffer)
  <2> DEFINE u == forwarded \o buffer
  <2>1. /\ Len(u) = x + Len(buffer)
        /\ \A j \in 1..x + Len(buffer) : u[j] = IF j <= x THEN forwarded[j] ELSE buffer[j - x]
    BY <1>0, ConcatProperties
  <2>2. x + 1 \in 1..x + Len(buffer) /\ ~(x + 1 <= x) /\ (x + 1) - x = 1
    BY <1>1
  <2>3. u = w
    BY <1>0
  <2> HIDE DEF u, x, w
  <2> QED
    BY <2>1, <2>2, <2>3
<1>3. Len(w) = pos /\ \A i \in 1..pos : w[i] = W[i]
  <2>1. 0 \in Nat /\ 0 <= pos /\ pos <= 4 * N
    BY <1>0
  <2>2. /\ Len(SubSeq(W, 0 + 1, pos)) = pos - 0
        /\ \A i \in 1..pos - 0 : SubSeq(W, 0 + 1, pos)[i] = W[0 + i]
    BY <1>0, <2>1, ChunkTyped
  <2> HIDE DEF W
  <2> QED
    BY <1>0, <2>2
<1> HIDE DEF w
<1>4. x + 1 \in 1..pos /\ x + 1 \in 1..4 * N
  BY <1>0, <1>1, <1>2, <1>3
<1>5. buffer[1][2] = Parts[1 + (((x + 1) - 1) % 4)]
  <2>1. W[x + 1] = <<1 + ((x + 1) - 1) \div 4, Parts[1 + (((x + 1) - 1) % 4)]>>
    BY <1>0, <1>4, WireShape
  <2> HIDE DEF W
  <2>2. buffer[1] = W[x + 1]
    BY <1>2, <1>3, <1>4
  <2> QED
    BY <2>1, <2>2
<1>6. buffer[1][2] = "head"
  <2>1. (x + 1) - 1 = x
    BY <1>1
  <2>2. 1 + (((x + 1) - 1) % 4) = 1
    BY <1>0, <2>1
  <2>3. Parts[1] = "head"
    BY DEF Parts
  <2> QED
    BY <1>5, <2>2, <2>3
<1>7. buffer[1] \in Range(buffer)
  <2>1. Range(buffer) = {buffer[i] : i \in 1..Len(buffer)}
    BY <1>0, RangeEquality
  <2>2. 1 \in 1..Len(buffer)
    BY <1>1
  <2> QED
    BY <2>1, <2>2
<1>8. buffer[1][1] \in EventsWith(buffer, "head")
  BY <1>6, <1>7 DEF EventsWith
<1> QED
  BY <1>8

LEMMA NothingShown ==
  ASSUME WireTypes
  PROVE  ShowRaw(EventsWith(<<>>, "tail")) = shown
<1> DEFINE N == Len(events)  q == [e \in 1..N |-> e]  S == EventsWith(<<>>, "tail")
<1>1. S = {}
  BY DEF EventsWith, Range
<1>2. N \in Nat /\ DOMAIN events = 1..N /\ DOMAIN q = 1..N
  BY EventsTyped
<1>3. ShowRaw(S) = Raw!Fold(S, shown, q)
  BY <1>2, RawFolds
<1>4. \A s \in {shown} : \A k \in 1..N : ShowIn(S, s, q[k]) \in {shown}
  BY <1>1 DEF ShowIn
<1> HIDE DEF S, q, N
<1>5. Raw!Fold(S, shown, q) \in {shown}
  BY <1>2, <1>4, Raw!FoldKeeps
<1> QED
  BY <1>3, <1>5 DEF S

\* Delivered, of what a step leaves.
LEMMA DeliveredNext ==
  ASSUME events' = events, cfg' = cfg, NEW n \in 0..Len(events), NEW h,
         forwarded' = SubSeq(Wire(events), 1, 4 * n), Shows(n, h),
         h[n] = [pending |-> IF status' = "ended" THEN discarded' ELSE pending', shown |-> shown']
  PROVE  Delivered'
<1>1. Shows(n, h)'
  BY SameShows
<1>2. n \in 0..Len(events') /\ forwarded' = SubSeq(Wire(events'), 1, 4 * n)
  OBVIOUS
<1> QED
  BY <1>1, <1>2 DEF Delivered

LEMMA TextStep == TextInv /\ [Next]_vars => TextInv'
<1> SUFFICES ASSUME TextInv, [Next]_vars PROVE TextInv'
  OBVIOUS
<1>0. TypeInv /\ TypeInv' /\ FramingInv /\ WireTypes
  BY TypeStep DEF TextInv, TypeInv, FramingInv
<1>1. ASSUME NEW n \in 1..Len(Wire(events)), Chunk(n)
      PROVE  TextInv'
  <2> DEFINE chunk == SubSeq(Wire(events), pos + 1, pos + n)
  <2>1. /\ status = "open" /\ pos + n <= Len(Wire(events))
        /\ \/ status' = "denied" /\ UNCHANGED <<buffer, pending, forwarded, shown>>
           \/ PushChunk(chunk) /\ status' = status
        /\ UNCHANGED <<cfg, events, recorded, discarded, verbatim>>
    BY <1>1, Zenon DEF Chunk
  <2>2. status' # "ended" /\ verbatim' = {} /\ discarded' = <<>>
    BY <2>1 DEF TextInv
  <2>3. ASSUME cfg.output
        PROVE  Delivered'
    <3>1. Delivered
      BY <2>1, <2>3 DEF TextInv
    <3>2. CASE status' = "denied" /\ UNCHANGED <<buffer, pending, forwarded, shown>>
      <4>1. PICK m, h :
              /\ m \in 0..Len(events)
              /\ forwarded = SubSeq(Wire(events), 1, 4 * m)
              /\ Shows(m, h)
              /\ h[m] = [pending |-> IF status = "ended" THEN discarded ELSE pending, shown |-> shown]
        BY <3>1 DEF Delivered
      <4>2. h[m] = [pending |-> IF status' = "ended" THEN discarded' ELSE pending', shown |-> shown']
        BY <2>1, <3>2, <4>1
      <4>3. forwarded' = SubSeq(Wire(events), 1, 4 * m)
        BY <3>2, <4>1
      <4> QED
        BY <2>1, <4>1, <4>2, <4>3, DeliveredNext
    <3>3. CASE PushChunk(chunk) /\ status' = status
      <4>1. PICK m, h :
              /\ m \in 0..Len(events)
              /\ forwarded' = SubSeq(Wire(events), 1, 4 * m)
              /\ Shows(m, h)
              /\ h[m] = [pending |-> pending', shown |-> shown']
        BY <1>0, <2>1, <2>3, <3>1, <3>3, PushDelivers
      <4>2. h[m] = [pending |-> IF status' = "ended" THEN discarded' ELSE pending', shown |-> shown']
        BY <2>2, <4>1
      <4> QED
        BY <2>1, <4>1, <4>2, DeliveredNext
    <3> QED
      BY <2>1, <3>2, <3>3
  <2> QED
    BY <1>0, <2>1, <2>2, <2>3 DEF TextInv
<1>2. ASSUME StreamEnd
      PROVE  TextInv'
  <2>1. /\ status = "open" /\ status' = "ended"
        /\ forwarded' = forwarded \o buffer
        /\ shown' = ShowRaw(EventsWith(buffer, "tail"))
        /\ verbatim' = EventsWith(buffer, "head")
        /\ discarded' = pending /\ pending' = <<>>
        /\ cfg' = cfg /\ events' = events
    BY <1>2 DEF StreamEnd
  <2>2. ASSUME cfg.output, verbatim' = {}
        PROVE  Delivered'
    <3>1. Delivered
      BY <2>1, <2>2 DEF TextInv
    <3>2. buffer = <<>>
      BY <1>0, <2>1, <2>2, NothingFlushed
    <3>3. forwarded' = forwarded
      <4>1. forwarded \in Seq(Pieces(events))
        BY <1>0 DEF WireTypes
      <4> QED
        BY <2>1, <3>2, <4>1, ConcatEmptySeq
    <3>4. shown' = shown
      <4>1. ShowRaw(EventsWith(<<>>, "tail")) = shown
        BY <1>0, NothingShown
      <4> QED
        BY <2>1, <3>2, <4>1
    <3>5. PICK m, h :
            /\ m \in 0..Len(events)
            /\ forwarded = SubSeq(Wire(events), 1, 4 * m)
            /\ Shows(m, h)
            /\ h[m] = [pending |-> IF status = "ended" THEN discarded ELSE pending, shown |-> shown]
      BY <3>1 DEF Delivered
    <3>6. h[m] = [pending |-> IF status' = "ended" THEN discarded' ELSE pending', shown |-> shown']
      BY <2>1, <3>4, <3>5
    <3>7. forwarded' = SubSeq(Wire(events), 1, 4 * m)
      BY <3>3, <3>5
    <3> QED
      BY <2>1, <3>5, <3>6, <3>7, DeliveredNext
  <2> QED
    BY <1>0, <2>1, <2>2 DEF TextInv
<1>3. ASSUME UNCHANGED <<cfg, events, textVars>>, status' = "ended" <=> status = "ended"
      PROVE  TextInv'
  <2>1. /\ cfg' = cfg /\ events' = events /\ pending' = pending /\ forwarded' = forwarded
        /\ shown' = shown /\ discarded' = discarded /\ verbatim' = verbatim
    BY <1>3 DEF textVars
  <2>2. ASSUME cfg.output, verbatim = {}
        PROVE  Delivered'
    <3>1. PICK m, h :
            /\ m \in 0..Len(events)
            /\ forwarded = SubSeq(Wire(events), 1, 4 * m)
            /\ Shows(m, h)
            /\ h[m] = [pending |-> IF status = "ended" THEN discarded ELSE pending, shown |-> shown]
      BY <2>2 DEF TextInv, Delivered
    <3>2. h[m] = [pending |-> IF status' = "ended" THEN discarded' ELSE pending', shown |-> shown']
      BY <1>3, <2>1, <3>1
    <3>3. forwarded' = SubSeq(Wire(events), 1, 4 * m)
      BY <2>1, <3>1
    <3> QED
      BY <2>1, <3>1, <3>2, <3>3, DeliveredNext
  <2> QED
    BY <1>0, <1>3, <2>1, <2>2 DEF TextInv
<1>4. ASSUME NEW s \in {"failed", "dropped"}, StreamStop(s)
      PROVE  TextInv'
  <2>1. UNCHANGED <<cfg, events, textVars>> /\ (status' = "ended" <=> status = "ended")
    BY <1>4 DEF StreamStop
  <2> QED
    BY <1>3, <2>1
<1>5. CASE UNCHANGED vars
  <2>1. UNCHANGED <<cfg, events, textVars>> /\ (status' = "ended" <=> status = "ended")
    BY <1>5 DEF vars
  <2> QED
    BY <1>3, <2>1
<1> QED
  BY <1>1, <1>2, <1>4, <1>5 DEF Next

LEMMA TextInvariant == Spec => []TextInv
BY TextInit, TextStep, PTL DEF Spec

\* TextAsIfWhole for every answer and every vault with legible entries, however
\* the answer is cut: what the client reads is what one piece would have given.
THEOREM TextCorrect ==
  ASSUME Legible
  PROVE  Spec => []TextAsIfWhole
<1>1. TextInv => TextAsIfWhole
  <2> SUFFICES ASSUME TextInv, cfg.output, verbatim = {}, PhrasesWhole, ContextInEvent, WindowsShort,
                      OneSpeaker, \A e \in Passed : ~SaysDone(e),
                      NEW a \in Passed, events[a].text # <<>>
               PROVE  shown[events[a].choice] \o pending \o discarded =
                        IF Reversible THEN Restore(FilterOutput(TextOf(Passed)), Entries)
                        ELSE FilterOutput(TextOf(Passed))
    BY DEF TextAsIfWhole, ReadsAsWhole
  <2> DEFINE c == events[a].choice  T == FilterOutput(TextOf(Passed))
  <2>1. TypeInv /\ WireTypes /\ TextTypes /\ events \in Seq(Event)
    BY EventsTyped DEF TextInv, TypeInv, FramingInv
  <2>2. PICK n, h :
          /\ n \in 0..Len(events)
          /\ forwarded = SubSeq(Wire(events), 1, 4 * n)
          /\ Shows(n, h)
          /\ h[n] = [pending |-> IF status = "ended" THEN discarded ELSE pending, shown |-> shown]
    BY DEF TextInv, Delivered
  <2>3. Passed = {e \in 1..n : events[e].kind = "data"}
    <3>1. EventsWith(forwarded, "nl") = 1..n
      BY <2>1, <2>2, EndsIn
    <3> QED
      BY <3>1 DEF Passed
  <2>4. h[n] \in Filters /\ Faithful(T, h[n], c, Len(T))
    BY <2>1, <2>2, <2>3, RunFaithful
  <2>5. T \in Seq(Atoms)
    BY <2>1, PassedTyped, MaskedLength
  <2>6. c \in ChoiceIds
    <3>1. events[a] \in Event
      BY <2>1, PassedTyped, ElementOfSeq
    <3> QED
      BY <3>1 DEF Event
  <2> HIDE DEF c, T
  <2>7. h[n].shown[c] \o h[n].pending = IF Reversible THEN Restore(T, Entries) ELSE T
    BY <2>4, <2>5, <2>6, FaithfulWhole
  <2>8. shown[c] \in Seq(Atoms) /\ pending \in Seq(Atoms) /\ discarded \in Seq(Atoms)
    BY <2>1, <2>6 DEF TextTypes, Windows
  <2>9. h[n].shown[c] \o h[n].pending = (shown[c] \o pending) \o discarded
    <3>1. CASE status = "ended"
      <4>1. pending = <<>> /\ h[n].shown = shown /\ h[n].pending = discarded
        BY <2>2, <3>1 DEF TextInv
      <4>2. shown[c] \o <<>> = shown[c]
        BY <2>8, ConcatEmptySeq
      <4> QED
        BY <4>1, <4>2, Zenon
    <3>2. CASE status # "ended"
      <4>1. discarded = <<>> /\ h[n].shown = shown /\ h[n].pending = pending
        BY <2>2, <3>2 DEF TextInv
      <4> DEFINE u == shown[c] \o pending
      <4>2. u \in Seq(Atoms)
        BY <2>8, JoinAtoms
      <4> HIDE DEF u
      <4>3. u \o <<>> = u
        BY <4>2, ConcatEmptySeq
      <4> QED
        BY <4>1, <4>3, Zenon DEF u
    <3> QED
      BY <3>1, <3>2
  <2> QED
    BY <2>7, <2>9, Zenon DEF c, T
<1> QED
  BY <1>1, TextInvariant, PTL
=============================================================================
