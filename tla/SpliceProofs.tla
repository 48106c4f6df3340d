----------------------------- MODULE SpliceProofs -----------------------------
(***************************************************************************)
(* splice() implements two pipes, for streams of any length, any window    *)
(* and any chunk.                                                          *)
(***************************************************************************)
EXTENDS Splice, SequenceTheorems, TLAPS

-----------------------------------------------------------------------------
(* Sequences. *)

LEMMA SplitAnywhere ==
  ASSUME NEW s \in Seq(Nat), NEW n \in 0 .. Len(s)
  PROVE  /\ SubSeq(s, 1, n) \in Seq(Nat) /\ SubSeq(s, n + 1, Len(s)) \in Seq(Nat)
         /\ Len(SubSeq(s, 1, n)) = n
         /\ SubSeq(s, 1, n) \o SubSeq(s, n + 1, Len(s)) = s
<1>1. Len(s) \in Nat /\ \A i \in 1 .. Len(s) : s[i] \in Nat
  BY LenProperties, ElementOfSeq
<1>2. SubSeq(s, 1, n) \in Seq(Nat) /\ Len(SubSeq(s, 1, n)) = n
  <2>1. \A i \in 1 .. n : s[i] \in Nat
    BY <1>1
  <2> QED
    BY <1>1, <2>1, SubSeqProperties
<1>3. SubSeq(s, n + 1, Len(s)) \in Seq(Nat)
  <2>1. \A i \in n + 1 .. Len(s) : s[i] \in Nat
    BY <1>1
  <2> QED
    BY <1>1, <2>1, SubSeqProperties
<1>4. SubSeq(s, 1, n) \o SubSeq(s, n + 1, Len(s)) = SubSeq(s, 1, Len(s))
  <2>1. 1 \in 1 .. Len(s) + 1 /\ n \in 1 - 1 .. Len(s) /\ Len(s) \in n .. Len(s)
    BY <1>1
  <2> QED
    BY <2>1, ConcatAdjacentSubSeq, Zenon
<1> QED
  BY <1>2, <1>3, <1>4, SubSeqFull

LEMMA MoveHead ==
  ASSUME NEW s \in Seq(Nat), NEW t \in Seq(Nat), t # <<>>
  PROVE  /\ Append(s, Head(t)) \in Seq(Nat) /\ Tail(t) \in Seq(Nat)
         /\ Len(Append(s, Head(t))) = Len(s) + 1
         /\ Tail(t) = <<>> <=> Len(t) = 1
         /\ Append(s, Head(t)) \o Tail(t) = s \o t
<1>1. Head(t) \in Nat /\ Tail(t) \in Seq(Nat) /\ Len(Tail(t)) = Len(t) - 1
  BY HeadTailProperties
<1>2. /\ Append(s, Head(t)) \in Seq(Nat)
      /\ Len(Append(s, Head(t))) = Len(s) + 1
      /\ \A i \in 1 .. Len(s) : Append(s, Head(t))[i] = s[i]
      /\ Append(s, Head(t))[Len(s) + 1] = Head(t)
  BY <1>1, AppendProperties
<1>3. Len(s) \in Nat /\ Len(t) \in Nat \ {0}
  BY LenProperties, EmptySeq
<1>4. Tail(t) = <<>> <=> Len(t) = 1
  <2>1. Len(<<>>) = 0 /\ \A seq \in Seq(Nat) : seq # <<>> => Len(seq) \in Nat \ {0}
    BY EmptySeq, Zenon
  <2>2. CASE Tail(t) = <<>>
    <3>1. Len(Tail(t)) = 0
      BY <2>1, <2>2, Zenon
    <3>2. Len(t) - 1 = 0 /\ Len(t) \in Nat
      BY <1>1, <1>3, <3>1, Zenon
    <3>3. Len(t) = 1
      BY <3>2
    <3> QED
      BY <2>2, <3>3, Zenon
  <2>3. CASE Tail(t) # <<>>
    <3>1. Len(Tail(t)) # 0
      BY <1>1, <2>1, <2>3
    <3> QED
      BY <1>1, <1>3, <2>3, <3>1
  <2> QED
    BY <2>2, <2>3
<1>5. Append(s, Head(t)) \o Tail(t) = s \o t
  <2>1. Append(s, Head(t)) = s \o <<Head(t)>>
    BY <1>1, AppendIsConcat
  <2>2. <<Head(t)>> \in Seq(Nat) /\ <<Head(t)>> \o Tail(t) = t
    <3>1. <<Head(t)>> \in Seq(Nat)
      BY <1>1
    <3>2. t = SubSeq(t, 1, Len(t)) /\ Tail(t) = SubSeq(t, 2, Len(t)) /\ Head(t) = t[1]
      BY SubSeqFull, TailIsSubSeq
    <3>3. 1 \in 1 .. Len(t) /\ Len(t) \in 1 .. Len(t)
      BY <1>3
    <3>4. SubSeq(t, 1, Len(t)) = <<t[1]>> \o SubSeq(t, 1 + 1, Len(t))
      BY <3>3, SubSeqRecursiveFirst
    <3> QED
      BY <3>1, <3>2, <3>4
  <2>3. (s \o <<Head(t)>>) \o Tail(t) = s \o (<<Head(t)>> \o Tail(t))
    BY <1>1, <2>2, ConcatAssociative
  <2> QED
    BY <2>1, <2>2, <2>3
<1> QED
  BY <1>1, <1>2, <1>4, <1>5

LEMMA Associative == \A a, b, c \in Seq(Nat) : (a \o b) \o c = a \o (b \o c)
<1> TAKE a, b, c \in Seq(Nat)
<1> QED
  BY ConcatAssociative

LEMMA MoveHeadBefore ==
  ASSUME NEW s \in Seq(Nat), NEW t \in Seq(Nat), NEW u \in Seq(Nat), t # <<>>
  PROVE  Append(s, Head(t)) \o (Tail(t) \o u) = s \o (t \o u)
<1>1. /\ Append(s, Head(t)) \in Seq(Nat) /\ Tail(t) \in Seq(Nat)
      /\ Append(s, Head(t)) \o Tail(t) = s \o t
  BY MoveHead
<1>2. (Append(s, Head(t)) \o Tail(t)) \o u = Append(s, Head(t)) \o (Tail(t) \o u)
  BY <1>1, Associative
<1>3. (s \o t) \o u = s \o (t \o u)
  BY Associative
<1> QED
  BY <1>1, <1>2, <1>3

LEMMA PrefixOfConcat ==
  ASSUME NEW s \in Seq(Nat), NEW t \in Seq(Nat)
  PROVE  /\ s \o t \in Seq(Nat)
         /\ Len(s) \in 0 .. Len(s \o t)
         /\ SubSeq(s \o t, 1, Len(s)) = s
<1>1. /\ s \o t \in Seq(Nat) /\ Len(s \o t) = Len(s) + Len(t)
      /\ Len(s) \in Nat /\ Len(t) \in Nat
      /\ \A i \in 1 .. Len(s) + Len(t) : (s \o t)[i] = IF i <= Len(s) THEN s[i] ELSE t[i - Len(s)]
  BY ConcatProperties, LenProperties
<1>2. /\ SubSeq(s \o t, 1, Len(s)) \in Seq(Nat)
      /\ Len(SubSeq(s \o t, 1, Len(s))) = Len(s)
      /\ \A i \in 1 .. Len(s) : SubSeq(s \o t, 1, Len(s))[i] = (s \o t)[i]
  <2>1. \A i \in 1 .. Len(s) : (s \o t)[i] \in Nat
    BY <1>1, ElementOfSeq
  <2> QED
    BY <1>1, <2>1, SubSeqProperties
<1>3. \A i \in 1 .. Len(s) : SubSeq(s \o t, 1, Len(s))[i] = s[i]
  BY <1>1, <1>2
<1>4. SubSeq(s \o t, 1, Len(s)) = s
  BY <1>2, <1>3, SeqEqual
<1> QED
  BY <1>1, <1>4

-----------------------------------------------------------------------------
(* Types. *)

LEMMA DirectionFacts ==
  ASSUME NEW d \in Directions
  PROVE  Source[d] \in Seq(Nat) /\ Src[d] \in Ends /\ Dst[d] \in Ends
BY SpliceAssumption DEF Directions, Ends, Src, Dst

LEMMA InitType == Init => TypeOK
<1> SUFFICES ASSUME Init PROVE TypeOK
  OBVIOUS
<1>1. <<>> \in Seq(Nat) /\ Len(<<>>) = 0
  BY EmptySeq
<1>2. \A d \in Directions :
        /\ chunk[d] = <<>> /\ delivered[d] = <<>> /\ consumed[d] = 0
        /\ at[d] = "recv" /\ why[d] = "running"
  BY DEF Init, All
<1>3. /\ unsent \in [Directions -> Seq(Nat)] /\ chunk \in [Directions -> Seq(Nat)]
      /\ delivered \in [Directions -> Seq(Nat)]
  BY <1>1, SpliceAssumption DEF Init, All
<1>4. /\ consumed \in [Directions -> Nat]
      /\ at \in [Directions -> {"recv", "send", "finally", "done"}]
      /\ why \in [Directions -> {"running", "eof", "error", "timeout"}]
      /\ finished = {} /\ shut = {} /\ broken = {}
      /\ idleTimeout \in BOOLEAN /\ returned \in BOOLEAN
  BY DEF Init, All
<1>5. \A d \in Directions : consumed[d] <= Len(delivered[d])
  <2> SUFFICES ASSUME NEW d \in Directions PROVE consumed[d] <= Len(delivered[d])
    OBVIOUS
  <2>1. Len(delivered[d]) = 0
    BY <1>1, <1>2, Zenon
  <2> QED
    BY <1>2, <2>1
<1> QED
  BY <1>2, <1>3, <1>4, <1>5 DEF TypeOK

LEMMA StopType ==
  ASSUME TypeOK, NEW d \in Directions, NEW reason \in {"eof", "error", "timeout"},
         Stop(d, reason)
  PROVE  TypeOK'
BY DEF Stop, endpoints, TypeOK

\* One recv().
LEMMA RecvType ==
  ASSUME TypeOK, NEW d \in Directions, Recv(d)
  PROVE  TypeOK'
<1>1. PICK n \in 1 .. Chunk :
        /\ n <= Len(unsent[d])
        /\ chunk' = [chunk EXCEPT ![d] = SubSeq(unsent[d], 1, n)]
        /\ unsent' = [unsent EXCEPT ![d] = SubSeq(@, n + 1, Len(@))]
  BY DEF Recv
<1>2. unsent[d] \in Seq(Nat) /\ Len(unsent[d]) \in Nat
  BY LenProperties DEF TypeOK
<1>3. n \in 0 .. Len(unsent[d]) /\ n # 0
  BY <1>1, <1>2, SpliceAssumption
<1>4. /\ SubSeq(unsent[d], 1, n) \in Seq(Nat)
      /\ SubSeq(unsent[d], n + 1, Len(unsent[d])) \in Seq(Nat)
      /\ SubSeq(unsent[d], 1, n) # <<>>
  <2>1. Len(SubSeq(unsent[d], 1, n)) # 0 /\ Len(<<>>) = 0
    BY <1>2, <1>3, SplitAnywhere, EmptySeq
  <2> QED
    BY <1>2, <1>3, <2>1, SplitAnywhere
<1>5. /\ unsent' \in [Directions -> Seq(Nat)] /\ chunk' \in [Directions -> Seq(Nat)]
      /\ at' = [at EXCEPT ![d] = "send"] /\ at[d] = "recv"
      /\ UNCHANGED <<idleTimeout, finished, consumed, broken, why, delivered, shut, returned>>
  BY <1>1, <1>4 DEF Recv, endpoints, TypeOK
<1>6. \A e \in Directions : at'[e] = "send" => chunk'[e] # <<>>
  BY <1>1, <1>4, <1>5 DEF TypeOK
<1>7. \A e \in Directions : at'[e] = "recv" => chunk'[e] = <<>>
  BY <1>1, <1>5 DEF TypeOK
<1> QED
  BY <1>5, <1>6, <1>7 DEF TypeOK

\* One byte of a sendall().
LEMMA SendByteType ==
  ASSUME TypeOK, NEW d \in Directions, SendByte(d)
  PROVE  TypeOK'
<1>1. /\ at[d] = "send" /\ chunk[d] # <<>>
      /\ chunk[d] \in Seq(Nat) /\ delivered[d] \in Seq(Nat)
  BY DEF SendByte, TypeOK
<1>2. /\ Append(delivered[d], Head(chunk[d])) \in Seq(Nat) /\ Tail(chunk[d]) \in Seq(Nat)
      /\ Len(Append(delivered[d], Head(chunk[d]))) = Len(delivered[d]) + 1
      /\ Tail(chunk[d]) = <<>> <=> Len(chunk[d]) = 1
  BY <1>1, MoveHead
<1>3. /\ delivered' = [delivered EXCEPT ![d] = Append(delivered[d], Head(chunk[d]))]
      /\ chunk' = [chunk EXCEPT ![d] = Tail(chunk[d])]
      /\ at' = IF Len(chunk[d]) = 1 THEN [at EXCEPT ![d] = "recv"] ELSE at
      /\ UNCHANGED <<idleTimeout, finished, consumed, broken, why, unsent, shut, returned>>
  BY DEF SendByte, endpoints
<1>4. /\ delivered' \in [Directions -> Seq(Nat)] /\ chunk' \in [Directions -> Seq(Nat)]
      /\ at' \in [Directions -> {"recv", "send", "finally", "done"}]
  BY <1>2, <1>3 DEF TypeOK
<1>5. \A e \in Directions : consumed[e] <= Len(delivered'[e])
  <2>1. Len(delivered[d]) \in Nat
    BY <1>1, LenProperties
  <2> QED
    BY <1>2, <1>3, <2>1 DEF TypeOK
<1>6. \A e \in Directions :
        /\ (why[e] = "running") <=> (at'[e] \in {"recv", "send"})
        /\ at'[e] = "recv" => chunk'[e] = <<>>
        /\ at'[e] = "send" => chunk'[e] # <<>>
  BY <1>1, <1>2, <1>3 DEF TypeOK
<1> QED
  BY <1>3, <1>4, <1>5, <1>6 DEF TypeOK

\* The end of a thread, of the relay, and the endpoints.
LEMMA EndType ==
  ASSUME TypeOK, NEW d \in Directions, NEW s \in Ends,
         Finally(d) \/ Return \/ EndpointReads(d) \/ EndpointFinishes(d) \/ Reset(s)
  PROVE  TypeOK'
<1>1. CASE Finally(d)
  BY <1>1 DEF Finally, endpoints, TypeOK
<1>2. CASE Return
  BY <1>2 DEF Return, endpoints, threads, TypeOK
<1>3. CASE EndpointReads(d)
  <2>1. Len(delivered[d]) \in Nat
    BY LenProperties DEF TypeOK
  <2> QED
    BY <1>3, <2>1 DEF EndpointReads, threads, TypeOK
<1>4. CASE EndpointFinishes(d) \/ Reset(s)
  BY <1>4 DEF EndpointFinishes, Reset, threads, TypeOK
<1> QED
  BY <1>1, <1>2, <1>3, <1>4

LEMMA NextType == TypeOK /\ [Next]_vars => TypeOK'
<1> SUFFICES ASSUME TypeOK, [Next]_vars PROVE TypeOK'
  OBVIOUS
<1>1. CASE \E d \in Directions : Copy(d)
  <2>1. PICK d \in Directions : Copy(d)
    BY <1>1
  <2>2. "client" \in Ends
    BY DEF Ends
  <2> QED
    BY <2>1, <2>2, RecvType, SendByteType, StopType, EndType DEF Copy, RecvEOF, Error
<1>2. CASE \E d \in Directions : Timeout(d)
  BY <1>2, StopType DEF Timeout
<1>3. CASE Return \/ \E d \in Directions : EndpointReads(d) \/ EndpointFinishes(d)
  <2>1. "client" \in Ends /\ "in" \in Directions
    BY DEF Ends, Directions
  <2> QED
    BY <1>3, <2>1, EndType
<1>4. CASE \E s \in Ends : Reset(s)
  <2>1. "in" \in Directions
    BY DEF Directions
  <2> QED
    BY <1>4, <2>1, EndType
<1>5. CASE UNCHANGED vars
  BY <1>5 DEF vars, endpoints, threads, TypeOK
<1> QED
  BY <1>1, <1>2, <1>3, <1>4, <1>5 DEF Next

\* The buffers and states of the two threads of splice() have their types, whatever
\* the endpoints send.
THEOREM RelayTypes == Spec => []TypeOK
<1>1. Init => TypeOK
  BY InitType
<1>2. TypeOK /\ [Next]_vars => TypeOK'
  BY NextType
<1> QED
  BY <1>1, <1>2, PTL DEF Spec

-----------------------------------------------------------------------------
(* The streams. *)

\* In each direction what was delivered, what the thread holds and what it has still
\* to receive make up exactly what was sent.
StreamIntact ==
  \A d \in Directions : delivered[d] \o (chunk[d] \o unsent[d]) = Source[d]

\* Who is behind its loop stays there, and one that saw a FIN has nothing left.
Over ==
  \A d \in Directions :
    /\ d \in shut => at[d] = "done"
    /\ returned => at[d] = "done"
    /\ why[d] = "eof" => d \in finished /\ chunk[d] = <<>> /\ unsent[d] = <<>>

Copied == TypeOK /\ StreamIntact /\ Over

LEMMA InitCopied == Init => Copied
<1> SUFFICES ASSUME Init PROVE StreamIntact /\ Over
  BY InitType DEF Copied
<1>1. ASSUME NEW d \in Directions
      PROVE  delivered[d] \o (chunk[d] \o unsent[d]) = Source[d]
  <2>1. delivered[d] = <<>> /\ chunk[d] = <<>> /\ unsent[d] = Source[d]
    BY DEF Init, All
  <2>2. <<>> \o Source[d] = Source[d]
    BY DirectionFacts, ConcatEmptySeq
  <2> QED
    BY <2>1, <2>2
<1> QED
  BY <1>1 DEF Init, All, StreamIntact, Over

LEMMA RecvCopied ==
  ASSUME Copied, NEW d \in Directions, Recv(d)
  PROVE  StreamIntact' /\ Over'
<1>1. PICK n \in 1 .. Chunk :
        /\ n <= Len(unsent[d])
        /\ chunk' = [chunk EXCEPT ![d] = SubSeq(unsent[d], 1, n)]
        /\ unsent' = [unsent EXCEPT ![d] = SubSeq(@, n + 1, Len(@))]
  BY DEF Recv
<1>2. /\ unsent[d] \in Seq(Nat) /\ Len(unsent[d]) \in Nat
      /\ unsent \in [Directions -> Seq(Nat)] /\ chunk \in [Directions -> Seq(Nat)]
      /\ chunk[d] = <<>> /\ why[d] = "running"
      /\ at \in [Directions -> {"recv", "send", "finally", "done"}]
      /\ at[d] = "recv" /\ at' = [at EXCEPT ![d] = "send"]
      /\ UNCHANGED <<finished, why, delivered, shut, returned>>
  BY LenProperties DEF Recv, endpoints, Copied, TypeOK
<1>3. chunk'[d] \o unsent'[d] = chunk[d] \o unsent[d]
  <2>1. n \in 0 .. Len(unsent[d])
    BY <1>1, <1>2, SpliceAssumption
  <2>2. chunk'[d] \o unsent'[d] = unsent[d]
    BY <1>1, <1>2, <2>1, SplitAnywhere
  <2>3. <<>> \o unsent[d] = unsent[d]
    BY <1>2, ConcatEmptySeq
  <2> QED
    BY <1>2, <2>2, <2>3
<1>4. StreamIntact'
  <2> SUFFICES ASSUME NEW e \in Directions
               PROVE  delivered[e] \o (chunk'[e] \o unsent'[e]) = Source[e]
    BY <1>2 DEF StreamIntact
  <2>1. CASE e = d
    BY <1>3, <2>1 DEF Copied, StreamIntact
  <2>2. CASE e # d
    BY <1>1, <1>2, <2>2 DEF Copied, StreamIntact
  <2> QED
    BY <2>1, <2>2
<1>5. Over'
  BY <1>1, <1>2 DEF Copied, Over
<1> QED
  BY <1>4, <1>5

LEMMA SendByteCopied ==
  ASSUME Copied, NEW d \in Directions, SendByte(d)
  PROVE  StreamIntact' /\ Over'
<1>1. /\ at[d] = "send" /\ chunk[d] # <<>> /\ why[d] = "running"
      /\ chunk[d] \in Seq(Nat) /\ delivered[d] \in Seq(Nat) /\ unsent[d] \in Seq(Nat)
      /\ chunk \in [Directions -> Seq(Nat)] /\ delivered \in [Directions -> Seq(Nat)]
      /\ at \in [Directions -> {"recv", "send", "finally", "done"}]
      /\ delivered' = [delivered EXCEPT ![d] = Append(delivered[d], Head(chunk[d]))]
      /\ chunk' = [chunk EXCEPT ![d] = Tail(chunk[d])]
      /\ at' = IF Len(chunk[d]) = 1 THEN [at EXCEPT ![d] = "recv"] ELSE at
      /\ UNCHANGED <<finished, why, unsent, shut, returned>>
  BY DEF SendByte, endpoints, Copied, TypeOK
<1>2. delivered'[d] \o (chunk'[d] \o unsent[d]) = delivered[d] \o (chunk[d] \o unsent[d])
  BY <1>1, MoveHeadBefore
<1>3. StreamIntact'
  <2> SUFFICES ASSUME NEW e \in Directions
               PROVE  delivered'[e] \o (chunk'[e] \o unsent[e]) = Source[e]
    BY <1>1 DEF StreamIntact
  <2>1. CASE e = d
    BY <1>2, <2>1 DEF Copied, StreamIntact
  <2>2. CASE e # d
    BY <1>1, <2>2 DEF Copied, StreamIntact
  <2> QED
    BY <2>1, <2>2
<1>4. Over'
  BY <1>1 DEF Copied, Over
<1> QED
  BY <1>3, <1>4

LEMMA StopCopied ==
  ASSUME Copied, NEW d \in Directions, RecvEOF(d) \/ Error(d) \/ Timeout(d)
  PROVE  StreamIntact' /\ Over'
<1>1. /\ at \in [Directions -> {"recv", "send", "finally", "done"}]
      /\ why \in [Directions -> {"running", "eof", "error", "timeout"}]
      /\ at[d] \in {"recv", "send"} /\ at' = [at EXCEPT ![d] = "finally"]
      /\ UNCHANGED <<finished, unsent, chunk, delivered, shut, returned>>
  BY DEF RecvEOF, Error, Timeout, Stop, endpoints, Copied, TypeOK
<1>2. \/ why' = [why EXCEPT ![d] = "eof"] /\ d \in finished /\ chunk[d] = <<>> /\ unsent[d] = <<>>
      \/ why' = [why EXCEPT ![d] = "error"]
      \/ why' = [why EXCEPT ![d] = "timeout"]
  BY DEF RecvEOF, Error, Timeout, Stop, Copied, TypeOK
<1>3. StreamIntact'
  BY <1>1 DEF Copied, StreamIntact
<1>4. Over'
  BY <1>1, <1>2 DEF Copied, Over
<1> QED
  BY <1>3, <1>4

LEMMA EndCopied ==
  ASSUME Copied, NEW d \in Directions, NEW s \in Ends,
         Finally(d) \/ Return \/ EndpointReads(d) \/ EndpointFinishes(d) \/ Reset(s)
  PROVE  StreamIntact' /\ Over'
<1>1. StreamIntact'
  BY DEF Finally, Return, EndpointReads, EndpointFinishes, Reset, threads, Copied, StreamIntact
<1>2. CASE Finally(d)
  BY <1>1, <1>2 DEF Finally, endpoints, Copied, TypeOK, Over
<1>3. CASE Return
  BY <1>1, <1>3 DEF Return, endpoints, threads, Copied, Over, Directions
<1>4. CASE EndpointReads(d) \/ EndpointFinishes(d) \/ Reset(s)
  BY <1>1, <1>4 DEF EndpointReads, EndpointFinishes, Reset, threads, Copied, Over
<1> QED
  BY <1>1, <1>2, <1>3, <1>4

LEMMA NextCopied == Copied /\ [Next]_vars => Copied'
<1> SUFFICES ASSUME Copied, [Next]_vars PROVE StreamIntact' /\ Over'
  BY NextType DEF Copied
<1>1. CASE \E d \in Directions : Copy(d)
  <2>1. PICK d \in Directions : Copy(d)
    BY <1>1
  <2>2. "client" \in Ends
    BY DEF Ends
  <2> QED
    BY <2>1, <2>2, RecvCopied, SendByteCopied, StopCopied, EndCopied DEF Copy
<1>2. CASE \E d \in Directions : Timeout(d)
  BY <1>2, StopCopied
<1>3. CASE Return \/ \E d \in Directions : EndpointReads(d) \/ EndpointFinishes(d)
  <2>1. "client" \in Ends /\ "in" \in Directions
    BY DEF Ends, Directions
  <2> QED
    BY <1>3, <2>1, EndCopied
<1>4. CASE \E s \in Ends : Reset(s)
  <2>1. "in" \in Directions
    BY DEF Directions
  <2> QED
    BY <1>4, <2>1, EndCopied
<1>5. CASE UNCHANGED vars
  BY <1>5 DEF vars, endpoints, threads, Copied, StreamIntact, Over
<1> QED
  BY <1>1, <1>2, <1>3, <1>4, <1>5 DEF Next

-----------------------------------------------------------------------------
(* Two pipes. *)

\* An ending is for good.
LEMMA EndingKept ==
  ASSUME shut' = shut, \A d \in shut : why'[d] = why[d]
  PROVE  Ending' = Ending
BY DEF Ending

LEMMA InitIsTwoPipes == Init => Relay!Init
BY DEF Init, All, Ending, Relay!Init

LEMMA StepIsTwoPipes ==
  ASSUME Copied, Copied', [Next]_vars
  PROVE  [Relay!Next]_(Relay!pipeVars)
<1>1. CASE \E d \in Directions : Recv(d) \/ EndpointReads(d)
  <2>1. UNCHANGED <<finished, delivered, shut, why>>
    BY <1>1 DEF Recv, EndpointReads, endpoints, threads
  <2> QED
    BY <2>1, EndingKept DEF Relay!pipeVars
<1>2. CASE \E d \in Directions : SendByte(d)
  <2>1. PICK d \in Directions : SendByte(d)
    BY <1>2
  <2>2. UNCHANGED <<finished, shut, why>>
    BY <2>1 DEF SendByte, endpoints
  <2>3. Ending[d] = "open"
    BY <2>1 DEF SendByte, Copied, Over, Ending
  <2>4. /\ delivered[d] \in Seq(Nat) /\ chunk[d] \in Seq(Nat) /\ chunk[d] # <<>>
        /\ delivered' = [delivered EXCEPT ![d] = Append(delivered[d], Head(chunk[d]))]
        /\ delivered \in [Directions -> Seq(Nat)]
    BY <2>1 DEF SendByte, Copied, TypeOK
  <2>5. /\ delivered'[d] \in Seq(Nat) /\ Len(delivered'[d]) = Len(delivered[d]) + 1
        /\ Len(delivered[d]) \in Nat
    BY <2>4, MoveHead, LenProperties
  <2>6. /\ delivered'[d] \o (chunk'[d] \o unsent'[d]) = Source[d]
        /\ chunk'[d] \o unsent'[d] \in Seq(Nat)
    <3>1. /\ delivered'[d] \o (chunk'[d] \o unsent'[d]) = Source[d]
          /\ chunk'[d] \in Seq(Nat) /\ unsent'[d] \in Seq(Nat)
      BY DEF Copied, StreamIntact, TypeOK
    <3> QED
      BY <3>1, ConcatProperties
  <2>7. /\ Len(delivered'[d]) \in 0 .. Len(Source[d])
        /\ SubSeq(Source[d], 1, Len(delivered'[d])) = delivered'[d]
    BY <2>5, <2>6, PrefixOfConcat
  <2>8. Len(Source[d]) \in Nat
    BY DirectionFacts, LenProperties
  <2>9. \E n \in Len(delivered[d]) + 1 .. Len(Source[d]) :
          delivered' = [delivered EXCEPT ![d] = SubSeq(Source[d], 1, n)]
    <3>1. Len(delivered'[d]) \in Len(delivered[d]) + 1 .. Len(Source[d])
      BY <2>5, <2>7, <2>8
    <3>2. delivered' = [delivered EXCEPT ![d] = SubSeq(Source[d], 1, Len(delivered'[d]))]
      BY <2>4, <2>7
    <3> QED
      BY <3>1, <3>2
  <2>10. Relay!Deliver(d)
    BY <2>2, <2>3, <2>9, EndingKept DEF Relay!Deliver
  <2> QED
    BY <2>1, <2>10 DEF Relay!Next
<1>3. CASE \E d \in Directions : RecvEOF(d) \/ Error(d) \/ Timeout(d)
  <2>1. PICK d \in Directions : RecvEOF(d) \/ Error(d) \/ Timeout(d)
    BY <1>3
  <2>2. d \notin shut
    BY <2>1 DEF RecvEOF, Error, Timeout, Copied, Over
  <2>3. /\ UNCHANGED <<finished, delivered, shut>>
        /\ \A e \in Directions \ {d} : why'[e] = why[e]
    BY <2>1 DEF RecvEOF, Error, Timeout, Stop, endpoints, Copied, TypeOK
  <2>4. \A e \in shut : why'[e] = why[e]
    BY <2>2, <2>3 DEF Copied, TypeOK
  <2> QED
    BY <2>3, <2>4, EndingKept DEF Relay!pipeVars
<1>4. CASE \E d \in Directions : Finally(d)
  <2>1. PICK d \in Directions : Finally(d)
    BY <1>4
  <2>2. d \notin shut /\ UNCHANGED <<finished, delivered, why>>
    BY <2>1 DEF Finally, endpoints, Copied, Over
  <2>3. CASE shut' = shut
    BY <2>2, <2>3, EndingKept DEF Relay!pipeVars
  <2>4. CASE shut' = shut \cup {d}
    <3>1. Ending[d] = "open"
      BY <2>2 DEF Ending
    <3>2. CASE why[d] = "eof"
      <4>1. delivered[d] = Source[d] /\ d \in finished
        <5>1. d \in finished /\ chunk[d] = <<>> /\ unsent[d] = <<>>
          BY <3>2 DEF Copied, Over
        <5>2. delivered[d] \o (<<>> \o <<>>) = Source[d]
          BY <5>1 DEF Copied, StreamIntact
        <5>3. delivered[d] \in Seq(Nat) /\ <<>> \in Seq(Nat)
          BY EmptySeq DEF Copied, TypeOK
        <5>4. <<>> \o <<>> = <<>> /\ delivered[d] \o <<>> = delivered[d]
          BY <5>3, ConcatEmptySeq
        <5> QED
          BY <5>1, <5>2, <5>4
      <4>2. Ending' = [Ending EXCEPT ![d] = "complete"]
        BY <2>2, <2>4, <3>2 DEF Ending
      <4> QED
        BY <2>1, <2>2, <3>1, <4>1, <4>2 DEF Relay!Next, Relay!Complete
    <3>3. CASE why[d] # "eof"
      <4>1. Ending' = [Ending EXCEPT ![d] = "cut"]
        BY <2>2, <2>4, <3>3 DEF Ending
      <4> QED
        BY <2>1, <2>2, <3>1, <4>1 DEF Relay!Next, Relay!Cut
    <3> QED
      BY <3>2, <3>3
  <2> QED
    BY <2>1, <2>3, <2>4 DEF Finally
<1>5. CASE \E d \in Directions : EndpointFinishes(d)
  <2>1. PICK d \in Directions : EndpointFinishes(d)
    BY <1>5
  <2>2. UNCHANGED <<delivered, shut, why>>
    BY <2>1 DEF EndpointFinishes, threads
  <2>3. Relay!Finish(d)
    BY <2>1, <2>2, EndingKept DEF EndpointFinishes, Relay!Finish
  <2> QED
    BY <2>1, <2>3 DEF Relay!Next
<1>6. CASE Return \/ (\E s \in Ends : Reset(s)) \/ UNCHANGED vars
  <2>1. UNCHANGED <<finished, delivered, shut, why>>
    BY <1>6 DEF Return, Reset, endpoints, threads, vars
  <2> QED
    BY <2>1, EndingKept DEF Relay!pipeVars
<1> QED
  BY <1>1, <1>2, <1>3, <1>4, <1>5, <1>6 DEF Next, Copy

\* The threads of splice(), their half-closes and their errors implement the two pipes of
\* StreamPipes: what a destination gets is a prefix of what its peer sent, and an
\* orderly FIN that no timeout or reset caused is behind the last byte.
THEOREM SpliceIsTwoPipes == Spec => IsTwoPipes
<1>1. Init => Copied
  BY InitCopied
<1>2. Copied /\ [Next]_vars => Copied'
  BY NextCopied
<1>3. Init => Relay!Init
  BY InitIsTwoPipes
<1>4. Copied /\ Copied' /\ [Next]_vars => [Relay!Next]_(Relay!pipeVars)
  BY StepIsTwoPipes
<1> QED
  BY <1>1, <1>2, <1>3, <1>4, PTL DEF Spec, IsTwoPipes, Relay!Spec

-----------------------------------------------------------------------------
(* Errors. *)

Blamed == Copied /\ ErrorHasCause

LEMMA NextBlamed == Blamed /\ [Next]_vars => Blamed'
<1> SUFFICES ASSUME Blamed, [Next]_vars PROVE ErrorHasCause'
  BY NextCopied DEF Blamed
<1> USE DEF Blamed, ErrorHasCause
<1>1. CASE \E d \in Directions : Error(d)
  <2>1. PICK d \in Directions : Error(d)
    BY <1>1
  <2>2. ~returned
    BY <2>1 DEF Error, Copied, Over
  <2> QED
    BY <2>1, <2>2 DEF Error, Fails, Stop, endpoints
<1>2. CASE \E d \in Directions : RecvEOF(d) \/ Timeout(d)
  BY <1>2 DEF RecvEOF, Timeout, Stop, endpoints, Copied, TypeOK
<1>3. CASE \E d \in Directions : Recv(d) \/ SendByte(d) \/ Finally(d)
  BY <1>3 DEF Recv, SendByte, Finally, endpoints
<1>4. CASE Return \/ (\E d \in Directions : EndpointReads(d) \/ EndpointFinishes(d))
             \/ (\E s \in Ends : Reset(s)) \/ UNCHANGED vars
  BY <1>4 DEF Return, EndpointReads, EndpointFinishes, Reset, endpoints, threads, vars
<1> QED
  BY <1>1, <1>2, <1>3, <1>4 DEF Next, Copy

\* No thread of splice() has an OSError that an endpoint did not cause: t.join() keeps
\* the sockets open until both are done.
THEOREM NoSelfInflictedError == Spec => []ErrorHasCause
<1>1. Init => Blamed
  BY InitCopied DEF Init, All, Blamed, ErrorHasCause
<1>2. Blamed /\ [Next]_vars => Blamed'
  BY NextBlamed
<1>3. Blamed => ErrorHasCause
  BY DEF Blamed
<1> QED
  BY <1>1, <1>2, <1>3, PTL DEF Spec

=============================================================================
