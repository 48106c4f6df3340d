--------------------------- MODULE AsyncSpliceProofs ---------------------------
(***************************************************************************)
(* async_splice() implements two pipes, for streams of any length, any     *)
(* high-water mark and any size of read(), with resets and a cancellation  *)
(* at any await.                                                           *)
(*                                                                         *)
(* The argument is by position: what a writer was sent, what its transport *)
(* holds and what has not been read lie side by side in the source.        *)
(***************************************************************************)
EXTENDS AsyncSplice, SequenceTheorems, TLAPS

-----------------------------------------------------------------------------
(* Pieces of a stream. *)

LEMMA PieceType ==
  ASSUME NEW s \in Seq(Nat), NEW k \in 0 .. Len(s), NEW m \in k .. Len(s)
  PROVE  SubSeq(s, k + 1, m) \in Seq(Nat) /\ Len(SubSeq(s, k + 1, m)) = m - k
<1>1. Len(s) \in Nat
  BY LenProperties
<1>2. k \in Nat /\ m \in Nat /\ k <= m /\ m <= Len(s)
  BY <1>1
<1>3. \A i \in k + 1 .. m : s[i] \in Nat
  BY <1>1, <1>2, ElementOfSeq
<1>4. /\ SubSeq(s, k + 1, m) \in Seq(Nat)
      /\ Len(SubSeq(s, k + 1, m)) = IF k + 1 <= m THEN m - (k + 1) + 1 ELSE 0
  BY <1>2, <1>3, SubSeqProperties
<1> QED
  BY <1>2, <1>4

\* A piece without a byte ends where it begins.
LEMMA PieceEmpty ==
  ASSUME NEW s \in Seq(Nat), NEW k \in 0 .. Len(s), NEW m \in k .. Len(s)
  PROVE  SubSeq(s, k + 1, m) = <<>> <=> k = m
<1>1. Len(s) \in Nat /\ Len(<<>>) = 0
  BY LenProperties, EmptySeq
<1>2. Len(SubSeq(s, k + 1, m)) = m - k
  BY PieceType
<1>3. CASE k = m
  <2>1. k + 1 \in Int /\ m \in Int /\ m < k + 1
    BY <1>1, <1>3
  <2> QED
    BY <1>3, <2>1, SubSeqEmpty
<1>4. CASE k # m
  BY <1>1, <1>2, <1>4
<1> QED
  BY <1>3, <1>4

\* What read() takes is moved from one piece to the one before it.
LEMMA MoveChunk ==
  ASSUME NEW s \in Seq(Nat), NEW k \in 0 .. Len(s), NEW m \in k .. Len(s),
         NEW rest, rest = SubSeq(s, m + 1, Len(s)),
         NEW n \in 1 .. Len(rest)
  PROVE  /\ m + n \in m + 1 .. Len(s)
         /\ SubSeq(s, k + 1, m) \o SubSeq(rest, 1, n) = SubSeq(s, k + 1, m + n)
         /\ SubSeq(rest, n + 1, Len(rest)) = SubSeq(s, m + n + 1, Len(s))
<1>1. Len(s) \in Nat /\ m \in 0 .. Len(s) /\ Len(s) \in m .. Len(s) /\ k \in Nat
  BY LenProperties
<1>2. Len(rest) = Len(s) - m /\ rest \in Seq(Nat)
  BY <1>1, PieceType
<1>3. n \in Nat \ {0} /\ m + n \in m + 1 .. Len(s)
  BY <1>1, <1>2
<1>4. SubSeq(rest, 1, n) = SubSeq(s, m + 1, m + n)
  <2>1. /\ m + 1 \in 1 .. Len(s) /\ Len(s) \in 1 .. Len(s)
        /\ 1 \in 1 .. Len(s) - (m + 1) + 1 /\ n \in 1 .. Len(s) - (m + 1) + 1
    BY <1>1, <1>2, <1>3
  <2>2. SubSeq(SubSeq(s, m + 1, Len(s)), 1, n) = SubSeq(s, (m + 1) + 1 - 1, (m + 1) + n - 1)
    BY <2>1, SubSeqOfSubSeq
  <2>3. (m + 1) + 1 - 1 = m + 1 /\ (m + 1) + n - 1 = m + n
    BY <1>1, <1>3
  <2> QED
    BY <2>2, <2>3
<1>5. SubSeq(s, k + 1, m) \o SubSeq(s, m + 1, m + n) = SubSeq(s, k + 1, m + n)
  <2>1. k + 1 \in 1 .. Len(s) + 1 /\ m \in (k + 1) - 1 .. Len(s) /\ m + n \in m .. Len(s)
    BY <1>1, <1>3
  <2> QED
    BY <2>1, ConcatAdjacentSubSeq
<1>6. SubSeq(rest, n + 1, Len(rest)) = SubSeq(s, m + n + 1, Len(s))
  <2>1. CASE n < Len(rest)
    <3>1. /\ m + 1 \in 1 .. Len(s) /\ Len(s) \in 1 .. Len(s)
          /\ n + 1 \in 1 .. Len(s) - (m + 1) + 1 /\ Len(rest) \in 1 .. Len(s) - (m + 1) + 1
      BY <1>1, <1>2, <1>3, <2>1
    <3>2. SubSeq(SubSeq(s, m + 1, Len(s)), n + 1, Len(rest))
            = SubSeq(s, (m + 1) + (n + 1) - 1, (m + 1) + Len(rest) - 1)
      <4> DEFINE f == m + 1
                 z == Len(s)
                 i == n + 1
                 j == Len(rest)
      <4>1. /\ f \in 1 .. z /\ z \in 1 .. z
            /\ i \in 1 .. z - f + 1 /\ j \in 1 .. z - f + 1 /\ z = Len(s)
        BY <3>1
      <4> HIDE DEF f, z, i, j
      <4>2. SubSeq(SubSeq(s, f, z), i, j) = SubSeq(s, f + i - 1, f + j - 1)
        BY <4>1, SubSeqOfSubSeq
      <4> QED
        BY <4>2 DEF f, z, i, j
    <3>3. (m + 1) + (n + 1) - 1 = m + n + 1 /\ (m + 1) + Len(rest) - 1 = Len(s)
      <4>1. m \in Int /\ n \in Int
        BY <1>1, <1>3
      <4>2. (m + 1) + (n + 1) - 1 = m + n + 1
        BY <4>1
      <4>3. (m + 1) + (Len(s) - m) - 1 = Len(s)
        BY <1>1, <4>1
      <4> QED
        BY <1>2, <4>2, <4>3, Zenon
    <3> QED
      BY <3>2, <3>3
  <2>2. CASE n = Len(rest)
    <3>1. /\ n + 1 \in Int /\ Len(rest) \in Int /\ Len(rest) < n + 1
          /\ m + n + 1 \in Int /\ Len(s) \in Int /\ Len(s) < m + n + 1
      BY <1>1, <1>2, <1>3, <2>2
    <3>2. SubSeq(rest, n + 1, Len(rest)) = <<>> /\ SubSeq(s, m + n + 1, Len(s)) = <<>>
      BY <3>1, SubSeqEmpty
    <3> QED
      BY <3>2
  <2> QED
    BY <1>2, <1>3, <2>1, <2>2
<1> QED
  BY <1>3, <1>4, <1>5, <1>6

\* What the transport sends is moved likewise.
LEMMA MoveByte ==
  ASSUME NEW s \in Seq(Nat), NEW k \in 0 .. Len(s), NEW m \in k .. Len(s), k # m
  PROVE  /\ k + 1 \in 1 .. Len(s) /\ m \in k + 1 .. Len(s)
         /\ Append(SubSeq(s, 1, k), Head(SubSeq(s, k + 1, m))) = SubSeq(s, 1, k + 1)
         /\ Tail(SubSeq(s, k + 1, m)) = SubSeq(s, (k + 1) + 1, m)
<1>1. Len(s) \in Nat /\ k \in Nat /\ 0 \in 0 .. Len(s) /\ k \in 0 .. Len(s)
  BY LenProperties
<1>2. k + 1 \in 1 .. Len(s) /\ m \in k + 1 .. Len(s) /\ 1 \in 1 .. Len(s)
  BY <1>1
<1>3. /\ Head(SubSeq(s, k + 1, m)) = s[k + 1]
      /\ Tail(SubSeq(s, k + 1, m)) = SubSeq(s, (k + 1) + 1, m)
  BY <1>2, HeadTailOfSubSeq
<1>4. SubSeq(s, 1, k + 1) = SubSeq(s, 1, k) \o <<s[k + 1]>>
  <2>1. k + 1 \in 1 .. Len(s) /\ (k + 1) - 1 = k
    BY <1>1, <1>2
  <2>2. SubSeq(s, 1, k + 1) = SubSeq(s, 1, (k + 1) - 1) \o <<s[k + 1]>>
    BY <1>2, SubSeqRecursiveSecond
  <2> QED
    BY <2>1, <2>2
<1>5. SubSeq(s, 1, k) \in Seq(Nat) /\ s[k + 1] \in Nat
  <2>1. SubSeq(s, 0 + 1, k) \in Seq(Nat)
    BY <1>1, PieceType
  <2> QED
    BY <1>2, <2>1, ElementOfSeq
<1>6. Append(SubSeq(s, 1, k), s[k + 1]) = SubSeq(s, 1, k) \o <<s[k + 1]>>
  BY <1>5, AppendIsConcat
<1> QED
  BY <1>2, <1>3, <1>4, <1>6

-----------------------------------------------------------------------------
(* Types. *)

LEMMA DirectionFacts ==
  ASSUME NEW d \in Directions
  PROVE  Source[d] \in Seq(Nat) /\ Src[d] \in Ends /\ Dst[d] \in Ends
BY AsyncSpliceAssumption DEF Directions, Ends, Src, Dst

LEMMA InitType == Init => TypeOK
<1> SUFFICES ASSUME Init PROVE TypeOK
  OBVIOUS
<1>1. <<>> \in Seq(Nat)
  BY EmptySeq
<1>2. /\ unsent \in [Directions -> Seq(Nat)] /\ buffer \in [Directions -> Seq(Nat)]
      /\ delivered \in [Directions -> Seq(Nat)]
  BY <1>1, AsyncSpliceAssumption DEF Init, All
<1>3. /\ at \in [Directions -> {"read", "drain", "done"}]
      /\ why \in [Directions -> {"running", "eof", "error", "closing", "cancelled"}]
      /\ finished = {} /\ paused = {} /\ eof = {} /\ shut = {}
      /\ closing = {} /\ lost = {} /\ cancelled = FALSE /\ returned = FALSE
      /\ \A d \in Directions : at[d] = "read" /\ why[d] = "running" /\ ~IsClosing(d)
  BY DEF Init, All, IsClosing
<1> QED
  BY <1>2, <1>3 DEF TypeOK

\* A pump that ends, whatever becomes of what it had not read.
LEMMA StopType ==
  ASSUME TypeOK, NEW d \in Directions,
         NEW reason \in {"eof", "error", "closing", "cancelled"}, Stop(d, reason),
         unsent' \in [Directions -> Seq(Nat)]
  PROVE  TypeOK'
<1>1. /\ at' = [at EXCEPT ![d] = "done"] /\ why' = [why EXCEPT ![d] = reason]
      /\ eof' = IF IsClosing(d) THEN eof ELSE eof \cup {d}
      /\ UNCHANGED <<finished, buffer, paused, delivered, shut, closing, lost, cancelled, returned>>
  BY DEF Stop, WriteEof, faults
<1>2. \A e \in Directions : IsClosing(e)' <=> IsClosing(e)
  BY <1>1 DEF IsClosing
<1> QED
  BY <1>1, <1>2 DEF TypeOK

\* What read() takes, whether it is written or dropped.
LEMMA ReadType ==
  ASSUME TypeOK, NEW d \in Directions, NEW n \in 1 .. Chunk, n <= Len(unsent[d])
  PROVE  /\ n \in 1 .. Len(unsent[d])
         /\ SubSeq(unsent[d], 1, n) \in Seq(Nat) /\ Len(SubSeq(unsent[d], 1, n)) = n
         /\ SubSeq(unsent[d], n + 1, Len(unsent[d])) \in Seq(Nat)
<1>1. unsent[d] \in Seq(Nat) /\ Len(unsent[d]) \in Nat
  BY LenProperties DEF TypeOK
<1>2. n \in 1 .. Len(unsent[d]) /\ n \in 0 .. Len(unsent[d]) /\ 0 \in 0 .. Len(unsent[d])
      /\ Len(unsent[d]) \in n .. Len(unsent[d]) /\ n \in 0 .. n
  BY <1>1, AsyncSpliceAssumption
<1>3. SubSeq(unsent[d], 0 + 1, n) \in Seq(Nat) /\ Len(SubSeq(unsent[d], 0 + 1, n)) = n - 0
  BY <1>1, <1>2, PieceType
<1>4. SubSeq(unsent[d], n + 1, Len(unsent[d])) \in Seq(Nat)
  BY <1>1, <1>2, PieceType
<1> QED
  BY <1>2, <1>3, <1>4

LEMMA CopyType ==
  ASSUME TypeOK, NEW d \in Directions, Copy(d)
  PROVE  TypeOK'
<1>1. PICK n \in 1 .. Chunk :
        /\ n <= Len(unsent[d])
        /\ unsent' = [unsent EXCEPT ![d] = SubSeq(@, n + 1, Len(@))]
        /\ buffer' = [buffer EXCEPT ![d] = @ \o SubSeq(unsent[d], 1, n)]
        /\ IF Len(buffer[d]) + n > HighWater
             THEN paused' = paused \cup {d} /\ at' = [at EXCEPT ![d] = "drain"]
             ELSE UNCHANGED <<paused, at>>
  BY DEF Copy
<1>2. /\ at[d] = "read" /\ ~IsClosing(d)
      /\ UNCHANGED <<finished, eof, delivered, shut, why, closing, lost, cancelled, returned>>
      /\ buffer[d] \in Seq(Nat)
  BY DEF Copy, Reads, faults, TypeOK
<1>3. /\ SubSeq(unsent[d], 1, n) \in Seq(Nat) /\ Len(SubSeq(unsent[d], 1, n)) = n /\ n \in Nat \ {0}
      /\ SubSeq(unsent[d], n + 1, Len(unsent[d])) \in Seq(Nat)
  BY <1>1, ReadType, AsyncSpliceAssumption
<1>4. /\ buffer[d] \o SubSeq(unsent[d], 1, n) \in Seq(Nat)
      /\ buffer[d] \o SubSeq(unsent[d], 1, n) # <<>>
  <2>1. /\ buffer[d] \o SubSeq(unsent[d], 1, n) \in Seq(Nat)
        /\ Len(buffer[d] \o SubSeq(unsent[d], 1, n)) = Len(buffer[d]) + n
    BY <1>2, <1>3, ConcatProperties
  <2>2. Len(buffer[d]) + n # 0 /\ Len(<<>>) = 0
    BY <1>2, <1>3, LenProperties, EmptySeq
  <2>3. buffer[d] \o SubSeq(unsent[d], 1, n) # <<>>
    BY <2>1, <2>2, Zenon
  <2> QED
    BY <2>1, <2>3
<1>5. /\ unsent' \in [Directions -> Seq(Nat)] /\ buffer' \in [Directions -> Seq(Nat)]
      /\ buffer'[d] # <<>> /\ \A e \in Directions \ {d} : buffer'[e] = buffer[e]
  BY <1>1, <1>3, <1>4 DEF TypeOK
<1>6. \A e \in Directions : IsClosing(e)' <=> IsClosing(e)
  BY <1>2 DEF IsClosing
<1>7. /\ at' \in [Directions -> {"read", "drain", "done"}] /\ paused' \subseteq paused \cup {d}
      /\ at'[d] # "done" /\ \A e \in Directions \ {d} : at'[e] = at[e]
  BY <1>1, <1>2 DEF TypeOK
<1>8. \A e \in Directions :
        /\ (why[e] = "running") <=> (at'[e] # "done")
        /\ e \in paused' => buffer'[e] # <<>> \/ IsClosing(e)
        /\ IsClosing(e) => buffer'[e] = <<>>
        /\ at'[e] = "done" => e \in eof \/ IsClosing(e)
  BY <1>2, <1>5, <1>7 DEF TypeOK
<1> QED
  BY <1>2, <1>5, <1>6, <1>7, <1>8 DEF TypeOK

LEMMA PumpType ==
  ASSUME TypeOK, NEW d \in Directions, Pump(d)
  PROVE  TypeOK'
<1>1. CASE CopyClosing(d)
  <2>1. PICK n \in 1 .. Chunk :
          n <= Len(unsent[d]) /\ unsent' = [unsent EXCEPT ![d] = SubSeq(@, n + 1, Len(@))]
    BY <1>1 DEF CopyClosing
  <2>2. unsent' \in [Directions -> Seq(Nat)]
    BY <2>1, ReadType DEF TypeOK
  <2> QED
    BY <1>1, <2>2, StopType DEF CopyClosing
<1>2. CASE ReadEof(d) \/ ReadRaises(d) \/ DrainRaises(d) \/ PumpCancelled(d)
  <2>1. unsent' \in [Directions -> Seq(Nat)]
    BY <1>2 DEF ReadEof, ReadRaises, DrainRaises, PumpCancelled, TypeOK
  <2> QED
    BY <1>2, <2>1, StopType DEF ReadEof, ReadRaises, DrainRaises, PumpCancelled
<1>3. CASE Drained(d)
  <2>1. /\ at[d] = "drain" /\ at' = [at EXCEPT ![d] = "read"]
        /\ UNCHANGED <<unsent, finished, buffer, paused, eof, delivered, shut, why, closing, lost, cancelled, returned>>
    BY <1>3 DEF Drained, streams, writers, faults
  <2>2. \A e \in Directions : IsClosing(e)' <=> IsClosing(e)
    BY <2>1 DEF IsClosing
  <2> QED
    BY <2>1, <2>2 DEF TypeOK
<1> QED
  BY <1>1, <1>2, <1>3, CopyType DEF Pump

LEMMA FlushType ==
  ASSUME TypeOK, NEW d \in Directions, Flush(d)
  PROVE  TypeOK'
<1>1. /\ buffer[d] # <<>> /\ ~IsClosing(d)
      /\ delivered' = [delivered EXCEPT ![d] = Append(delivered[d], Head(buffer[d]))]
      /\ buffer' = [buffer EXCEPT ![d] = Tail(buffer[d])]
      /\ paused' = IF Len(buffer[d]) - 1 <= LowWater THEN paused \ {d} ELSE paused
      /\ UNCHANGED <<unsent, finished, eof, shut, at, why, closing, lost, cancelled, returned>>
      /\ buffer[d] \in Seq(Nat) /\ delivered[d] \in Seq(Nat)
  BY DEF Flush, streams, pumps, faults, TypeOK
<1>2. /\ Head(buffer[d]) \in Nat /\ Tail(buffer[d]) \in Seq(Nat)
      /\ Len(Tail(buffer[d])) = Len(buffer[d]) - 1 /\ Len(buffer[d]) \in Nat
  BY <1>1, HeadTailProperties, LenProperties
<1>3. Append(delivered[d], Head(buffer[d])) \in Seq(Nat)
  BY <1>1, <1>2, AppendProperties
<1>4. ~(Len(buffer[d]) - 1 <= LowWater) => Tail(buffer[d]) # <<>>
  <2>1. Len(<<>>) = 0
    BY EmptySeq
  <2>2. Tail(buffer[d]) = <<>> => Len(Tail(buffer[d])) = 0
    BY <2>1, Zenon
  <2>3. LowWater \in Nat
    BY AsyncSpliceAssumption
  <2>4. Tail(buffer[d]) = <<>> => Len(buffer[d]) - 1 = 0
    BY <1>2, <2>2
  <2>5. 0 <= LowWater
    BY <2>3
  <2> QED
    BY <2>4, <2>5
<1>5. /\ delivered' \in [Directions -> Seq(Nat)] /\ buffer' \in [Directions -> Seq(Nat)]
      /\ buffer'[d] = Tail(buffer[d]) /\ \A e \in Directions \ {d} : buffer'[e] = buffer[e]
  BY <1>1, <1>2, <1>3 DEF TypeOK
<1>6. \A e \in Directions : IsClosing(e)' <=> IsClosing(e)
  BY <1>1 DEF IsClosing
<1>7. \A e \in Directions :
        /\ e \in paused' => buffer'[e] # <<>> \/ IsClosing(e)
        /\ IsClosing(e) => buffer'[e] = <<>>
  BY <1>1, <1>4, <1>5 DEF TypeOK
<1> QED
  BY <1>1, <1>5, <1>6, <1>7 DEF TypeOK

\* The other callbacks of the event loop, the endpoints, and the awaiting task.
LEMMA OutsideType ==
  ASSUME TypeOK, NEW d \in Directions, NEW s \in Ends,
         FlushEof(d) \/ EndpointFinishes(d) \/ Break(s) \/ ConnectionLost(s) \/ Return \/ Cancel
  PROVE  TypeOK'
<1>1. CASE FlushEof(d) \/ EndpointFinishes(d) \/ ConnectionLost(s) \/ Return \/ Cancel
  <2>1. /\ UNCHANGED <<unsent, buffer, paused, eof, delivered, at, why, closing>>
        /\ shut' \subseteq eof /\ finished' \subseteq Directions /\ lost' \subseteq closing
        /\ cancelled' \in BOOLEAN /\ returned' \in BOOLEAN
    BY <1>1 DEF FlushEof, EndpointFinishes, ConnectionLost, Return, Cancel, streams, writers,
                pumps, faults, TypeOK
  <2>2. \A e \in Directions : IsClosing(e)' <=> IsClosing(e)
    BY <2>1 DEF IsClosing
  <2> QED
    BY <2>1, <2>2 DEF TypeOK
<1>2. CASE Break(s)
  <2>1. /\ closing' = closing \cup {s}
        /\ buffer' = [e \in Directions |-> IF Dst[e] = s THEN <<>> ELSE buffer[e]]
        /\ UNCHANGED <<unsent, finished, paused, eof, delivered, shut, at, why, lost, cancelled, returned>>
    BY <1>2 DEF Break, streams, pumps
  <2>2. \A e \in Directions :
          /\ IsClosing(e)' <=> IsClosing(e) \/ Dst[e] = s
          /\ Dst[e] = s => buffer'[e] = <<>>
          /\ Dst[e] # s => buffer'[e] = buffer[e]
    BY <2>1 DEF IsClosing
  <2>3. buffer' \in [Directions -> Seq(Nat)]
    BY <2>1, EmptySeq DEF TypeOK
  <2> QED
    BY <2>1, <2>2, <2>3 DEF TypeOK
<1> QED
  BY <1>1, <1>2

LEMMA NextType == TypeOK /\ [Next]_vars => TypeOK'
<1> SUFFICES ASSUME TypeOK, [Next]_vars PROVE TypeOK'
  OBVIOUS
<1>1. "client" \in Ends /\ "in" \in Directions
  BY DEF Ends, Directions
<1>2. CASE UNCHANGED vars
  BY <1>2 DEF vars, streams, writers, pumps, faults, TypeOK, IsClosing
<1> QED
  BY <1>1, <1>2, PumpType, FlushType, OutsideType DEF Next

\* The transports, the pumps and the endpoints of async_splice() have their types:
\* nothing is written to a transport that is closing, only a writer with something
\* to send is paused, and no pump ends without write_eof() on a writer that is open.
THEOREM AsyncRelayTypes == Spec => []TypeOK
<1>1. Init => TypeOK
  BY InitType
<1>2. TypeOK /\ [Next]_vars => TypeOK'
  BY NextType
<1> QED
  BY <1>1, <1>2, PTL DEF Spec

-----------------------------------------------------------------------------
(* The streams. *)

\* A pump has read m bytes, of which the transport of its writer sent k and holds the
\* others.  One that is closing has dropped what it held.
InPlace(d, k, m) ==
  /\ unsent[d] = SubSeq(Source[d], m + 1, Len(Source[d]))
  /\ ~IsClosing(d) =>
       /\ delivered[d] = SubSeq(Source[d], 1, k)
       /\ buffer[d] = SubSeq(Source[d], k + 1, m)

Streamed ==
  \A d \in Directions : \E m \in 0 .. Len(Source[d]) : \E k \in 0 .. m : InPlace(d, k, m)

\* write_eof() is behind the loop, the FIN behind what was buffered, and a loop that
\* ended by a FIN has nothing left to read.
Over ==
  \A d \in Directions :
    /\ d \in eof => at[d] = "done"
    /\ d \in shut => buffer[d] = <<>>
    /\ why[d] = "eof" => d \in finished /\ unsent[d] = <<>>

Piped == TypeOK /\ Streamed /\ Over

\* The numbers that InPlace is about.
LEMMA Positions ==
  ASSUME Streamed, NEW d \in Directions
  PROVE  \E k \in 0 .. Len(Source[d]) : \E m \in k .. Len(Source[d]) :
           InPlace(d, k, m)
<1>1. PICK m \in 0 .. Len(Source[d]) : \E k \in 0 .. m : InPlace(d, k, m)
  BY DEF Streamed
<1>2. PICK k \in 0 .. m : InPlace(d, k, m)
  BY <1>1
<1>3. Len(Source[d]) \in Nat
  BY DirectionFacts, LenProperties
<1>4. k \in 0 .. Len(Source[d]) /\ m \in k .. Len(Source[d])
  BY <1>3
<1> QED
  BY <1>2, <1>4

\* What a read() moves.
LEMMA ReadMoves ==
  ASSUME NEW d \in Directions, NEW k \in 0 .. Len(Source[d]), NEW m \in k .. Len(Source[d]),
         InPlace(d, k, m), NEW n \in 1 .. Len(unsent[d])
  PROVE  /\ m + n \in m + 1 .. Len(Source[d])
         /\ SubSeq(Source[d], k + 1, m) \o SubSeq(unsent[d], 1, n) = SubSeq(Source[d], k + 1, m + n)
         /\ SubSeq(unsent[d], n + 1, Len(unsent[d])) = SubSeq(Source[d], m + n + 1, Len(Source[d]))
<1>1. unsent[d] = SubSeq(Source[d], m + 1, Len(Source[d])) /\ Source[d] \in Seq(Nat)
  BY DirectionFacts DEF InPlace
<1>2. \A rest : rest = SubSeq(Source[d], m + 1, Len(Source[d])) => \A i \in 1 .. Len(rest) :
        /\ m + i \in m + 1 .. Len(Source[d])
        /\ SubSeq(Source[d], k + 1, m) \o SubSeq(rest, 1, i) = SubSeq(Source[d], k + 1, m + i)
        /\ SubSeq(rest, i + 1, Len(rest)) = SubSeq(Source[d], m + i + 1, Len(Source[d]))
  BY <1>1, MoveChunk
<1> QED
  BY <1>1, <1>2, Zenon

\* A step that touches one direction only.
LEMMA OneStreamed ==
  ASSUME Streamed, NEW d \in Directions, UNCHANGED closing,
         \A e \in Directions \ {d} :
           unsent'[e] = unsent[e] /\ delivered'[e] = delivered[e] /\ buffer'[e] = buffer[e],
         \E m \in 0 .. Len(Source[d]) : \E k \in 0 .. m : InPlace(d, k, m)'
  PROVE  Streamed'
<1> SUFFICES ASSUME NEW e \in Directions
             PROVE  \E m \in 0 .. Len(Source[e]) : \E k \in 0 .. m : InPlace(e, k, m)'
  BY DEF Streamed
<1>1. CASE e = d
  BY <1>1
<1>2. CASE e # d
  <2>1. PICK m \in 0 .. Len(Source[e]) : \E k \in 0 .. m : InPlace(e, k, m)
    BY DEF Streamed
  <2>2. PICK k \in 0 .. m : InPlace(e, k, m)
    BY <2>1
  <2>3. InPlace(e, k, m)'
    BY <1>2, <2>2 DEF InPlace, IsClosing
  <2> QED
    BY <2>3
<1> QED
  BY <1>1, <1>2

\* A step that moves no byte, or drops those of a transport that is closing.
LEMMA KeptStreamed ==
  ASSUME Streamed, UNCHANGED <<unsent, delivered>>,
         \A d \in Directions : IsClosing(d)' \/ (~IsClosing(d) /\ buffer'[d] = buffer[d])
  PROVE  Streamed'
<1> SUFFICES ASSUME NEW d \in Directions
             PROVE  \E m \in 0 .. Len(Source[d]) : \E k \in 0 .. m : InPlace(d, k, m)'
  BY DEF Streamed
<1>1. PICK m \in 0 .. Len(Source[d]) : \E k \in 0 .. m : InPlace(d, k, m)
  BY DEF Streamed
<1>2. PICK k \in 0 .. m : InPlace(d, k, m)
  BY <1>1
<1>3. InPlace(d, k, m)'
  BY <1>2 DEF InPlace
<1> QED
  BY <1>3

LEMMA InitPiped == Init => Piped
<1> SUFFICES ASSUME Init PROVE Streamed /\ Over
  BY InitType DEF Piped
<1>1. ASSUME NEW d \in Directions
      PROVE  \E m \in 0 .. Len(Source[d]) : \E k \in 0 .. m : InPlace(d, k, m)
  <2>1. Source[d] \in Seq(Nat) /\ Len(Source[d]) \in Nat
    BY DirectionFacts, LenProperties
  <2>2. unsent[d] = Source[d] /\ delivered[d] = <<>> /\ buffer[d] = <<>>
    BY DEF Init, All
  <2>3. SubSeq(Source[d], 0 + 1, Len(Source[d])) = Source[d]
    BY <2>1, SubSeqFull
  <2>4. 0 \in 0 .. Len(Source[d]) /\ 0 \in 0 .. 0
    BY <2>1
  <2>5. SubSeq(Source[d], 0 + 1, 0) = <<>> /\ SubSeq(Source[d], 1, 0) = <<>>
    BY SubSeqEmpty
  <2>6. InPlace(d, 0, 0)
    BY <2>2, <2>3, <2>5 DEF InPlace
  <2> QED
    BY <2>4, <2>6
<1>2. Streamed
  BY <1>1 DEF Streamed
<1>3. Over
  BY DEF Init, All, Over
<1> QED
  BY <1>2, <1>3

\* read(), write(): the pieces meet further on.
LEMMA CopyPiped ==
  ASSUME Piped, NEW d \in Directions, Copy(d)
  PROVE  Streamed' /\ Over'
<1>1. PICK n \in 1 .. Chunk :
        /\ n <= Len(unsent[d])
        /\ unsent' = [unsent EXCEPT ![d] = SubSeq(@, n + 1, Len(@))]
        /\ buffer' = [buffer EXCEPT ![d] = @ \o SubSeq(unsent[d], 1, n)]
        /\ IF Len(buffer[d]) + n > HighWater
             THEN paused' = paused \cup {d} /\ at' = [at EXCEPT ![d] = "drain"]
             ELSE UNCHANGED <<paused, at>>
  BY DEF Copy
<1>2. /\ at[d] = "read" /\ ~IsClosing(d) /\ why[d] = "running"
      /\ UNCHANGED <<finished, eof, delivered, shut, why, closing>>
      /\ unsent \in [Directions -> Seq(Nat)] /\ buffer \in [Directions -> Seq(Nat)]
      /\ at \in [Directions -> {"read", "drain", "done"}]
      /\ shut \subseteq eof
  BY DEF Copy, Reads, faults, Piped, TypeOK
<1>3. PICK k \in 0 .. Len(Source[d]) : \E m \in k .. Len(Source[d]) : InPlace(d, k, m)
  BY Positions DEF Piped
<1>4. PICK m \in k .. Len(Source[d]) : InPlace(d, k, m)
  BY <1>3
<1>5. n \in 1 .. Len(unsent[d])
  BY <1>1, ReadType DEF Piped
<1>6. /\ m + n \in m + 1 .. Len(Source[d])
      /\ SubSeq(Source[d], k + 1, m) \o SubSeq(unsent[d], 1, n) = SubSeq(Source[d], k + 1, m + n)
      /\ SubSeq(unsent[d], n + 1, Len(unsent[d])) = SubSeq(Source[d], m + n + 1, Len(Source[d]))
  BY <1>4, <1>5, ReadMoves
<1>7. /\ unsent'[d] = SubSeq(unsent[d], n + 1, Len(unsent[d]))
      /\ buffer'[d] = buffer[d] \o SubSeq(unsent[d], 1, n)
      /\ \A e \in Directions \ {d} : unsent'[e] = unsent[e] /\ buffer'[e] = buffer[e]
  BY <1>1, <1>2
<1>8. InPlace(d, k, m + n)'
  BY <1>2, <1>4, <1>6, <1>7 DEF InPlace
<1>9. Streamed'
  <2>1. Len(Source[d]) \in Nat
    BY DirectionFacts, LenProperties
  <2>2. m + n \in 0 .. Len(Source[d]) /\ k \in 0 .. m + n
    BY <1>5, <1>6, <2>1
  <2> QED
    BY <1>2, <1>7, <1>8, <2>2, OneStreamed DEF Piped
<1>10. Over'
  <2>1. d \notin eof
    BY <1>2 DEF Piped, Over
  <2>2. \A e \in Directions \ {d} : at'[e] = at[e]
    BY <1>1, <1>2
  <2> QED
    BY <1>2, <1>7, <2>1, <2>2 DEF Piped, Over
<1> QED
  BY <1>9, <1>10

\* A pump that ends without reading.
LEMMA StopPiped ==
  ASSUME Piped, NEW d \in Directions, ReadEof(d) \/ ReadRaises(d) \/ DrainRaises(d) \/ PumpCancelled(d)
  PROVE  Streamed' /\ Over'
<1>1. /\ at[d] # "done" /\ at' = [at EXCEPT ![d] = "done"]
      /\ UNCHANGED <<unsent, finished, buffer, delivered, shut, closing>>
      /\ eof' \subseteq eof \cup {d}
      /\ at \in [Directions -> {"read", "drain", "done"}]
      /\ why \in [Directions -> {"running", "eof", "error", "closing", "cancelled"}]
  BY DEF ReadEof, Reads, ReadRaises, DrainRaises, PumpCancelled, Stop, WriteEof, faults, Piped,
         TypeOK
<1>2. \/ why' = [why EXCEPT ![d] = "eof"] /\ d \in finished /\ unsent[d] = <<>>
      \/ why' = [why EXCEPT ![d] = "error"]
      \/ why' = [why EXCEPT ![d] = "cancelled"]
  BY DEF ReadEof, ReadRaises, DrainRaises, PumpCancelled, Stop
<1>3. Streamed'
  <2>1. \A e \in Directions : IsClosing(e)' <=> IsClosing(e)
    BY <1>1 DEF IsClosing
  <2> QED
    BY <1>1, <2>1, KeptStreamed DEF Piped
<1>4. Over'
  BY <1>1, <1>2 DEF Piped, Over
<1> QED
  BY <1>3, <1>4

\* A chunk that is dropped: its writer is closing.
LEMMA CopyClosingPiped ==
  ASSUME Piped, NEW d \in Directions, CopyClosing(d)
  PROVE  Streamed' /\ Over'
<1>1. PICK n \in 1 .. Chunk :
        n <= Len(unsent[d]) /\ unsent' = [unsent EXCEPT ![d] = SubSeq(@, n + 1, Len(@))]
  BY DEF CopyClosing
<1>2. /\ IsClosing(d) /\ at[d] = "read" /\ at' = [at EXCEPT ![d] = "done"]
      /\ why' = [why EXCEPT ![d] = "closing"] /\ eof' = eof
      /\ UNCHANGED <<finished, buffer, delivered, shut, closing>>
      /\ unsent \in [Directions -> Seq(Nat)]
      /\ at \in [Directions -> {"read", "drain", "done"}]
      /\ why \in [Directions -> {"running", "eof", "error", "closing", "cancelled"}]
  BY DEF CopyClosing, Reads, Stop, WriteEof, faults, Piped, TypeOK
<1>3. PICK k \in 0 .. Len(Source[d]) : \E m \in k .. Len(Source[d]) : InPlace(d, k, m)
  BY Positions DEF Piped
<1>4. PICK m \in k .. Len(Source[d]) : InPlace(d, k, m)
  BY <1>3
<1>5. n \in 1 .. Len(unsent[d])
  BY <1>1, ReadType DEF Piped
<1>6. /\ m + n \in m + 1 .. Len(Source[d])
      /\ SubSeq(unsent[d], n + 1, Len(unsent[d])) = SubSeq(Source[d], m + n + 1, Len(Source[d]))
  BY <1>4, <1>5, ReadMoves
<1>7. /\ unsent'[d] = SubSeq(unsent[d], n + 1, Len(unsent[d]))
      /\ \A e \in Directions \ {d} : unsent'[e] = unsent[e]
  BY <1>1, <1>2
<1>8. InPlace(d, k, m + n)'
  BY <1>2, <1>6, <1>7 DEF InPlace, IsClosing
<1>9. Streamed'
  <2>1. Len(Source[d]) \in Nat
    BY DirectionFacts, LenProperties
  <2>2. m + n \in 0 .. Len(Source[d]) /\ k \in 0 .. m + n
    BY <1>5, <1>6, <2>1
  <2> QED
    BY <1>2, <1>7, <1>8, <2>2, OneStreamed DEF Piped
<1>10. Over'
  BY <1>2, <1>7 DEF Piped, TypeOK, Over
<1> QED
  BY <1>9, <1>10

\* A byte leaves the transport.
LEMMA FlushPiped ==
  ASSUME Piped, NEW d \in Directions, Flush(d)
  PROVE  /\ Streamed' /\ Over'
         /\ \E n \in Len(delivered[d]) + 1 .. Len(Source[d]) :
              delivered' = [delivered EXCEPT ![d] = SubSeq(Source[d], 1, n)]
<1>1. /\ buffer[d] # <<>> /\ ~IsClosing(d)
      /\ delivered' = [delivered EXCEPT ![d] = Append(delivered[d], Head(buffer[d]))]
      /\ buffer' = [buffer EXCEPT ![d] = Tail(buffer[d])]
      /\ UNCHANGED <<unsent, finished, eof, shut, at, why, closing>>
      /\ delivered \in [Directions -> Seq(Nat)] /\ buffer \in [Directions -> Seq(Nat)]
  BY DEF Flush, streams, pumps, faults, Piped, TypeOK
<1>2. PICK k \in 0 .. Len(Source[d]) : \E m \in k .. Len(Source[d]) : InPlace(d, k, m)
  BY Positions DEF Piped
<1>3. PICK m \in k .. Len(Source[d]) : InPlace(d, k, m)
  BY <1>2
<1>4. /\ delivered[d] = SubSeq(Source[d], 1, k) /\ buffer[d] = SubSeq(Source[d], k + 1, m)
      /\ unsent[d] = SubSeq(Source[d], m + 1, Len(Source[d]))
  BY <1>1, <1>3 DEF InPlace
<1>5. Source[d] \in Seq(Nat) /\ Len(Source[d]) \in Nat
  BY DirectionFacts, LenProperties
<1>6. k # m
  BY <1>1, <1>4, <1>5, PieceEmpty
<1>7. /\ k + 1 \in 1 .. Len(Source[d]) /\ m \in k + 1 .. Len(Source[d])
      /\ Append(delivered[d], Head(buffer[d])) = SubSeq(Source[d], 1, k + 1)
      /\ Tail(buffer[d]) = SubSeq(Source[d], (k + 1) + 1, m)
  BY <1>4, <1>5, <1>6, MoveByte
<1>8. InPlace(d, k + 1, m)'
  BY <1>1, <1>4, <1>7 DEF InPlace
<1>9. Streamed'
  <2>1. m \in 0 .. Len(Source[d]) /\ k + 1 \in 0 .. m
    BY <1>5, <1>7
  <2>2. \A e \in Directions \ {d} :
          unsent'[e] = unsent[e] /\ delivered'[e] = delivered[e] /\ buffer'[e] = buffer[e]
    BY <1>1
  <2> QED
    BY <1>1, <1>8, <2>1, <2>2, OneStreamed DEF Piped
<1>10. Over'
  <2>1. d \notin shut
    BY <1>1 DEF Piped, Over
  <2> QED
    BY <1>1, <2>1 DEF Piped, Over
<1>11. \E n \in Len(delivered[d]) + 1 .. Len(Source[d]) :
         delivered' = [delivered EXCEPT ![d] = SubSeq(Source[d], 1, n)]
  <2>1. Len(delivered[d]) = k
    <3>1. 0 \in 0 .. Len(Source[d]) /\ k \in 0 .. Len(Source[d])
      BY <1>5
    <3>2. Len(SubSeq(Source[d], 0 + 1, k)) = k - 0
      BY <1>5, <3>1, PieceType
    <3> QED
      BY <1>4, <1>5, <3>2
  <2>2. k + 1 \in Len(delivered[d]) + 1 .. Len(Source[d])
    BY <1>5, <1>7, <2>1
  <2> QED
    BY <1>1, <1>7, <2>2
<1> QED
  BY <1>9, <1>10, <1>11

\* The other callbacks, the endpoints and the task.
LEMMA OutsidePiped ==
  ASSUME Piped, NEW d \in Directions, NEW s \in Ends,
         Drained(d) \/ FlushEof(d) \/ EndpointFinishes(d) \/ Break(s) \/ ConnectionLost(s)
           \/ Return \/ Cancel
  PROVE  Streamed' /\ Over'
<1>1. CASE Break(s)
  <2>1. /\ closing' = closing \cup {s}
        /\ buffer' = [e \in Directions |-> IF Dst[e] = s THEN <<>> ELSE buffer[e]]
        /\ UNCHANGED <<unsent, finished, eof, delivered, shut, at, why>>
    BY <1>1 DEF Break, streams, pumps
  <2>2. Streamed'
    <3>1. \A e \in Directions : IsClosing(e)' \/ (~IsClosing(e) /\ buffer'[e] = buffer[e])
      BY <2>1 DEF IsClosing
    <3> QED
      BY <2>1, <3>1, KeptStreamed DEF Piped
  <2>3. Over'
    BY <2>1 DEF Piped, Over
  <2> QED
    BY <2>2, <2>3
<1>2. CASE Drained(d) \/ FlushEof(d) \/ EndpointFinishes(d) \/ ConnectionLost(s) \/ Return \/ Cancel
  <2>1. UNCHANGED <<unsent, buffer, delivered, eof, why, closing>>
    BY <1>2 DEF Drained, FlushEof, EndpointFinishes, ConnectionLost, Return, Cancel, streams,
                writers, pumps, faults
  <2>2. Streamed'
    <3>1. \A e \in Directions : IsClosing(e)' <=> IsClosing(e)
      BY <2>1 DEF IsClosing
    <3> QED
      BY <2>1, <3>1, KeptStreamed DEF Piped
  <2>3. finished \subseteq finished'
    BY <1>2 DEF Drained, FlushEof, EndpointFinishes, ConnectionLost, Return, Cancel, streams
  <2>4. shut' = shut \/ (d \notin shut /\ shut' = shut \cup {d} /\ buffer[d] = <<>>)
    BY <1>2 DEF Drained, FlushEof, EndpointFinishes, ConnectionLost, Return, Cancel, writers
  <2>5. at' = at \/ (at[d] = "drain" /\ at' = [at EXCEPT ![d] = "read"])
    BY <1>2 DEF Drained, FlushEof, EndpointFinishes, ConnectionLost, Return, Cancel, pumps
  <2>6. Over'
    BY <2>1, <2>3, <2>4, <2>5 DEF Piped, TypeOK, Over
  <2> QED
    BY <2>2, <2>6
<1> QED
  BY <1>1, <1>2

LEMMA NextPiped == Piped /\ [Next]_vars => Piped'
<1> SUFFICES ASSUME Piped, [Next]_vars PROVE Streamed' /\ Over'
  BY NextType DEF Piped
<1>1. "client" \in Ends /\ "in" \in Directions
  BY DEF Ends, Directions
<1>2. CASE UNCHANGED vars
  <2>1. /\ UNCHANGED <<unsent, finished, buffer, eof, delivered, shut, at, why>>
        /\ \A d \in Directions : IsClosing(d)' <=> IsClosing(d)
    BY <1>2 DEF vars, streams, writers, pumps, faults, IsClosing
  <2>2. Streamed'
    BY <2>1, KeptStreamed DEF Piped
  <2> QED
    BY <2>1, <2>2 DEF Piped, Over
<1> QED
  BY <1>1, <1>2, CopyPiped, CopyClosingPiped, StopPiped, FlushPiped, OutsidePiped DEF Next, Pump

-----------------------------------------------------------------------------
(* Two pipes. *)

\* An ending is for good.
LEMMA EndingKept ==
  ASSUME shut' = shut, \A d \in shut : why'[d] = why[d]
  PROVE  Ending' = Ending
BY DEF Ending

LEMMA InitIsTwoPipes == Init => Relay!Init
BY DEF Init, All, Ending, Relay!Init

\* A FIN that is sent.
LEMMA FinIsTwoPipes ==
  ASSUME Piped, NEW d \in Directions, FlushEof(d)
  PROVE  Relay!Complete(d) \/ Relay!Cut(d)
<1>1. /\ d \in eof \ shut /\ buffer[d] = <<>> /\ ~IsClosing(d) /\ shut' = shut \cup {d}
      /\ UNCHANGED <<finished, delivered, why>>
  BY DEF FlushEof, streams, pumps
<1>2. Ending[d] = "open"
  BY <1>1 DEF Ending
<1>3. CASE why[d] = "eof"
  <2>1. d \in finished /\ unsent[d] = <<>>
    BY <1>3 DEF Piped, Over
  <2>2. delivered[d] = Source[d]
    <3>1. PICK k \in 0 .. Len(Source[d]) : \E m \in k .. Len(Source[d]) : InPlace(d, k, m)
      BY Positions DEF Piped
    <3>2. PICK m \in k .. Len(Source[d]) : InPlace(d, k, m)
      BY <3>1
    <3>3. /\ delivered[d] = SubSeq(Source[d], 1, k)
          /\ SubSeq(Source[d], k + 1, m) = <<>>
          /\ SubSeq(Source[d], m + 1, Len(Source[d])) = <<>>
      BY <1>1, <2>1, <3>2 DEF InPlace
    <3>4. Source[d] \in Seq(Nat) /\ Len(Source[d]) \in Nat
      BY DirectionFacts, LenProperties
    <3>5. k = m
      BY <3>3, <3>4, PieceEmpty
    <3>6. m \in 0 .. Len(Source[d]) /\ Len(Source[d]) \in m .. Len(Source[d])
      BY <3>4
    <3>7. m = Len(Source[d])
      <4>1. \A i \in m .. Len(Source[d]) : SubSeq(Source[d], m + 1, i) = <<>> <=> m = i
        BY <3>4, <3>6, PieceEmpty
      <4> QED
        BY <3>3, <3>6, <4>1, Zenon
    <3>8. SubSeq(Source[d], 1, Len(Source[d])) = Source[d]
      BY <3>4, SubSeqFull
    <3> QED
      BY <3>3, <3>5, <3>7, <3>8, Zenon
  <2>3. Ending' = [Ending EXCEPT ![d] = "complete"]
    BY <1>1, <1>3 DEF Ending
  <2> QED
    BY <1>1, <1>2, <2>1, <2>2, <2>3 DEF Relay!Complete
<1>4. CASE why[d] # "eof"
  <2>1. Ending' = [Ending EXCEPT ![d] = "cut"]
    BY <1>1, <1>4 DEF Ending
  <2> QED
    BY <1>1, <1>2, <2>1 DEF Relay!Cut
<1> QED
  BY <1>3, <1>4

LEMMA StepIsTwoPipes ==
  ASSUME Piped, [Next]_vars
  PROVE  [Relay!Next]_(Relay!pipeVars)
<1>1. CASE \E d \in Directions : Copy(d) \/ Drained(d)
  <2>1. UNCHANGED <<finished, delivered, shut, why>>
    BY <1>1 DEF Copy, Drained, streams, writers
  <2> QED
    BY <2>1, EndingKept DEF Relay!pipeVars
<1>2. CASE \E d \in Directions : CopyClosing(d) \/ ReadEof(d) \/ ReadRaises(d) \/ DrainRaises(d)
                                   \/ PumpCancelled(d)
  <2>1. PICK d \in Directions : CopyClosing(d) \/ ReadEof(d) \/ ReadRaises(d) \/ DrainRaises(d)
                                  \/ PumpCancelled(d)
    BY <1>2
  <2>2. d \notin shut
    BY <2>1 DEF CopyClosing, ReadEof, Reads, ReadRaises, DrainRaises, PumpCancelled, Piped,
                TypeOK, Over
  <2>3. /\ UNCHANGED <<finished, delivered, shut>>
        /\ \A e \in Directions \ {d} : why'[e] = why[e]
    BY <2>1 DEF CopyClosing, ReadEof, ReadRaises, DrainRaises, PumpCancelled, Stop, Piped, TypeOK
  <2>4. \A e \in shut : why'[e] = why[e]
    BY <2>2, <2>3 DEF Piped, TypeOK
  <2> QED
    BY <2>3, <2>4, EndingKept DEF Relay!pipeVars
<1>3. CASE \E d \in Directions : Flush(d)
  <2>1. PICK d \in Directions : Flush(d)
    BY <1>3
  <2>2. UNCHANGED <<finished, shut, why>>
    BY <2>1 DEF Flush, streams, pumps
  <2>3. Ending[d] = "open"
    BY <2>1 DEF Flush, Piped, Over, Ending
  <2>4. Relay!Deliver(d)
    BY <2>1, <2>2, <2>3, FlushPiped, EndingKept DEF Relay!Deliver
  <2> QED
    BY <2>1, <2>4 DEF Relay!Next
<1>4. CASE \E d \in Directions : FlushEof(d)
  BY <1>4, FinIsTwoPipes DEF Relay!Next
<1>5. CASE \E d \in Directions : EndpointFinishes(d)
  <2>1. PICK d \in Directions : EndpointFinishes(d)
    BY <1>5
  <2>2. UNCHANGED <<delivered, shut, why>>
    BY <2>1 DEF EndpointFinishes, writers, pumps
  <2>3. Relay!Finish(d)
    BY <2>1, <2>2, EndingKept DEF EndpointFinishes, Relay!Finish
  <2> QED
    BY <2>1, <2>3 DEF Relay!Next
<1>6. CASE (\E s \in Ends : Break(s) \/ ConnectionLost(s)) \/ Return \/ Cancel \/ UNCHANGED vars
  <2>1. UNCHANGED <<finished, delivered, shut, why>>
    BY <1>6 DEF Break, ConnectionLost, Return, Cancel, streams, writers, pumps, vars
  <2> QED
    BY <2>1, EndingKept DEF Relay!pipeVars
<1> QED
  BY <1>1, <1>2, <1>3, <1>4, <1>5, <1>6 DEF Next, Pump

\* The coroutines of async_splice(), with transports that buffer, a FIN that waits
\* behind the buffer, chunks that are dropped and a cancellation at any await,
\* implement the two pipes of StreamPipes: an endpoint that is told of an orderly end
\* was sent every byte before it.
THEOREM AsyncSpliceIsTwoPipes == Spec => IsTwoPipes
<1>1. Init => Piped
  BY InitPiped
<1>2. Piped /\ [Next]_vars => Piped'
  BY NextPiped
<1>3. Init => Relay!Init
  BY InitIsTwoPipes
<1>4. Piped /\ [Next]_vars => [Relay!Next]_(Relay!pipeVars)
  BY StepIsTwoPipes
<1> QED
  BY <1>1, <1>2, <1>3, <1>4, PTL DEF Spec, IsTwoPipes, Relay!Spec

=============================================================================
