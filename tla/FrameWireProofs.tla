--------------------------- MODULE FrameWireProofs ---------------------------
(***************************************************************************)
(* Proof that the codec and the buffers of a Connection implement          *)
(* FrameChannel, for every size of header, frame, buffer and payload.      *)
(*                                                                         *)
(* All bytes ever buffered are numbered from 1; a function B gives the     *)
(* number of the last byte of each frame.  The invariant says which number *)
(* each byte of the read buffer, of the stream and of the write buffer     *)
(* has: they follow on one another, and the first byte of the read buffer  *)
(* is the first of the frame after those received.  B is a history         *)
(* variable that the invariant hides behind an existential quantifier.     *)
(***************************************************************************)
EXTENDS FrameWire, SequenceTheorems, TLAPS

Bytes == [frame : Frames, at : Nat]

ByteOf(f, k) == [frame |-> f, at |-> k]

\* Byte number q of the frames S, whose last bytes have the numbers B.
IsByte(S, B, b, q) ==
    \E i \in 1 .. Len(S) : \E k \in 1 .. HeaderSize + S[i].payload :
        q = B[i - 1] + k /\ b = ByteOf(S[i], k)

\* s holds the bytes that follow number n.
Carries(S, B, s, n) == \A p \in 1 .. Len(s) : IsByte(S, B, s[p], n + p)

Borders(S, B) ==
    /\ B \in [Nat -> Nat]
    /\ B[0] = 0
    /\ \A i \in 1 .. Len(S) : B[i] = B[i - 1] + HeaderSize + S[i].payload
    /\ \A i, j \in 0 .. Len(S) : i < j => B[i] < B[j]

WireTyped ==
    /\ write_buffer \in Seq(Bytes) /\ wire \in Seq(Bytes) /\ read_buffer \in Seq(Bytes)
    /\ broken \in BOOLEAN
    /\ sent \in Seq(Frames) /\ received \in Seq(Frames)
    /\ Len(received) <= Len(sent)
    /\ \A i \in 1 .. Len(sent) : EncodeAccepts(sent[i])

\* What was flushed is carried to the end, what is buffered only while it may be flushed.
Aligned(B) ==
    /\ Borders(sent, B)
    /\ Carries(sent, B, read_buffer, B[Len(received)])
    /\ Carries(sent, B, wire, B[Len(received)] + Len(read_buffer))
    /\ ~broken =>
         /\ Carries(sent, B, write_buffer, B[Len(received)] + Len(read_buffer) + Len(wire))
         /\ B[Len(received)] + Len(read_buffer) + Len(wire) + Len(write_buffer) = B[Len(sent)]

WireInv == WireTyped /\ \E B : Aligned(B)

-----------------------------------------------------------------------------
(* Frames and bytes.                                                       *)

\* The fields of a frame that count are numbers.
LEMMA FrameFields ==
    ASSUME NEW f \in Frames
    PROVE  f.payload \in Nat /\ f.payload_length \in Nat
<1>1. PICK t \in {"Ping", "Data"}, c \in BOOLEAN, n \in Payloads : f = NewFrame(t, c, n)
  BY DEF Frames
<1>2. n \in Nat /\ LengthModulus \in Nat \ {0}
  BY WireAssumption
<1>3. n % LengthModulus \in Nat
  BY <1>2
<1> QED
  BY <1>1, <1>2, <1>3 DEF NewFrame

\* The bytes of a frame are a sequence of bytes.
LEMMA EncodedBytes ==
    ASSUME NEW f \in Frames
    PROVE  /\ Encoded(f) \in Seq(Bytes)
           /\ Len(Encoded(f)) = HeaderSize + f.payload
           /\ \A k \in 1 .. HeaderSize + f.payload : Encoded(f)[k] = ByteOf(f, k)
<1> DEFINE n == HeaderSize + f.payload
<1>1. n \in Nat
  BY FrameFields, WireAssumption
<1>2. Encoded(f) = [k \in 1 .. n |-> [frame |-> f, at |-> k]]
  BY DEF Encoded
<1>3. \A k \in 1 .. n : [frame |-> f, at |-> k] \in Bytes
  BY <1>1 DEF Bytes
<1> HIDE DEF n
<1>4. Encoded(f) \in [1 .. n -> Bytes]
  BY <1>2, <1>3
<1>5. Encoded(f) \in Seq(Bytes)
  BY <1>1, <1>4, SeqDef
<1>6. Len(Encoded(f)) = n
  BY <1>1, <1>4, <1>5, LenProperties
<1> QED
  BY <1>2, <1>5, <1>6 DEF n, ByteOf

\* What follows on what a sequence carries, it carries with it.
LEMMA CarriesConcat ==
    ASSUME NEW S, NEW B, NEW s \in Seq(Bytes), NEW t \in Seq(Bytes), NEW n \in Nat,
           Carries(S, B, s, n), Carries(S, B, t, n + Len(s))
    PROVE  Carries(S, B, s \o t, n)
<1>1. s \o t \in Seq(Bytes) /\ Len(s \o t) = Len(s) + Len(t)
  OBVIOUS
<1>2. SUFFICES ASSUME NEW p \in 1 .. Len(s \o t)
               PROVE  IsByte(S, B, (s \o t)[p], n + p)
  BY DEF Carries
<1>3. CASE p <= Len(s)
  <2>1. (s \o t)[p] = s[p] /\ p \in 1 .. Len(s)
    BY <1>1, <1>3
  <2> QED
    BY <2>1 DEF Carries
<1>4. CASE p > Len(s)
  <2> DEFINE k == p - Len(s)
  <2>1. (s \o t)[p] = t[k] /\ k \in 1 .. Len(t) /\ n + Len(s) + k = n + p
    BY <1>1, <1>4
  <2> HIDE DEF k
  <2>2. IsByte(S, B, t[k], n + Len(s) + k)
    BY <2>1 DEF Carries
  <2> QED
    BY <2>1, <2>2
<1> QED
  BY <1>1, <1>3, <1>4

\* A piece of what a sequence carries is carried further on.
LEMMA CarriesPiece ==
    ASSUME NEW S, NEW B, NEW s \in Seq(Bytes), NEW n \in Nat,
           Carries(S, B, s, n), NEW i \in Nat, NEW j \in Nat, i <= j, j <= Len(s)
    PROVE  /\ SubSeq(s, i + 1, j) \in Seq(Bytes)
           /\ Len(SubSeq(s, i + 1, j)) = j - i
           /\ Carries(S, B, SubSeq(s, i + 1, j), n + i)
<1> DEFINE t == SubSeq(s, i + 1, j)
<1>1. \A k \in i + 1 .. j : k \in 1 .. Len(s)
  OBVIOUS
<1>2. t \in Seq(Bytes) /\ Len(t) = j - i
  BY <1>1, SubSeqProperties
<1>3. \A p \in 1 .. j - i : t[p] = s[i + p]
  BY <1>1, SubSeqProperties
<1> HIDE DEF t
<1>4. ASSUME NEW p \in 1 .. Len(t) PROVE IsByte(S, B, t[p], n + i + p)
  <2> DEFINE k == i + p
  <2>1. k \in 1 .. Len(s) /\ t[p] = s[k] /\ n + i + p = n + k
    BY <1>2, <1>3
  <2> HIDE DEF k
  <2> QED
    BY <2>1 DEF Carries
<1>5. Carries(S, B, t, n + i)
  BY <1>4 DEF Carries
<1> QED
  BY <1>2, <1>5 DEF t

\* The borders when the frame f is buffered after the frames S.
Extended(S, B, f) ==
    [i \in Nat |-> IF i = Len(S) + 1 THEN B[Len(S)] + HeaderSize + f.payload ELSE B[i]]

\* A frame buffered gets the numbers after all others: bytes keep theirs.
LEMMA BordersExtend ==
    ASSUME NEW S \in Seq(Frames), NEW B, Borders(S, B), NEW f \in Frames,
           NEW C, C = Extended(S, B, f)
    PROVE  /\ Borders(Append(S, f), C)
           /\ \A i \in 0 .. Len(S) : C[i] = B[i]
           /\ C[Len(S) + 1] = B[Len(S)] + HeaderSize + f.payload
<1> DEFINE N == Len(S)
           R == Append(S, f)
<1>1. N \in Nat /\ HeaderSize \in Nat \ {0} /\ f.payload \in Nat
  BY FrameFields, WireAssumption
<1>2. B \in [Nat -> Nat] /\ B[N] \in Nat
  BY <1>1 DEF Borders
<1>3. /\ C \in [Nat -> Nat] /\ C[N + 1] = B[N] + HeaderSize + f.payload
      /\ \A i \in 0 .. N : C[i] = B[i] /\ B[i] \in Nat
  <2> DEFINE n == N + 1
             m == f.payload
             b == B[N] + HeaderSize + m
  <2>1. m \in Nat /\ B[N] \in Nat /\ HeaderSize \in Nat /\ n \in Nat
    BY <1>1, <1>2
  <2> HIDE DEF m
  <2>2. b \in Nat
    BY <2>1
  <2>3. \A i \in 0 .. N : i \in Nat /\ i # n
    BY <1>1
  <2>4. C = [i \in Nat |-> IF i = n THEN b ELSE B[i]]
    BY DEF Extended, m
  <2> HIDE DEF n, b
  <2>5. C \in [Nat -> Nat] /\ C[n] = b /\ \A i \in Nat : i # n => C[i] = B[i]
    BY <1>2, <2>1, <2>2, <2>4
  <2> QED
    BY <1>2, <2>3, <2>5 DEF n, b, m
<1>4. \A i \in 0 .. N : C[i] = B[i] /\ B[i] \in Nat
  BY <1>3
<1>5. Len(R) = N + 1 /\ R[N + 1] = f /\ \A i \in 1 .. N : R[i] = S[i]
  OBVIOUS
<1> HIDE DEF R
<1>6. C[0] = 0
  BY <1>1, <1>4 DEF Borders
<1>7. \A i \in 1 .. N + 1 : C[i] = C[i - 1] + HeaderSize + R[i].payload
  <2>1. SUFFICES ASSUME NEW i \in 1 .. N + 1
                 PROVE  C[i] = C[i - 1] + HeaderSize + R[i].payload
    OBVIOUS
  <2>2. CASE i = N + 1
    <3>1. i - 1 = N /\ N \in 0 .. N
      BY <1>1, <2>2
    <3>2. C[i - 1] = B[N] /\ R[i] = f
      BY <1>4, <1>5, <2>2, <3>1
    <3> QED
      BY <1>3, <2>2, <3>2
  <2>3. CASE i \in 1 .. N
    <3>1. i \in 0 .. N /\ i - 1 \in 0 .. N
      BY <1>1, <2>3
    <3>2. B[i] = B[i - 1] + HeaderSize + S[i].payload
      BY <2>3 DEF Borders
    <3> QED
      BY <1>4, <1>5, <2>3, <3>1, <3>2
  <2> QED
    BY <1>1, <2>2, <2>3
<1>8. \A i, j \in 0 .. N + 1 : i < j => C[i] < C[j]
  <2>1. SUFFICES ASSUME NEW i \in 0 .. N + 1, NEW j \in 0 .. N + 1, i < j
                 PROVE  C[i] < C[j]
    OBVIOUS
  <2>2. CASE j \in 0 .. N
    <3>1. i \in 0 .. N
      BY <1>1, <2>1, <2>2
    <3> QED
      BY <1>4, <2>1, <2>2, <3>1 DEF Borders
  <2>3. CASE j = N + 1
    <3>1. i \in 0 .. N /\ N \in 0 .. N
      BY <1>1, <2>1, <2>3
    <3>2. B[i] <= B[N]
      <4>1. i < N => B[i] < B[N]
        BY <3>1 DEF Borders
      <4> QED
        BY <1>1, <1>4, <3>1, <4>1
    <3>3. C[i] = B[i] /\ B[i] \in Nat
      BY <1>4, <3>1
    <3> DEFINE b == B[N]
               n == f.payload
    <3>4. b \in Nat /\ n \in Nat /\ B[i] <= b /\ C[j] = b + HeaderSize + n
      BY <1>1, <1>2, <1>3, <2>3, <3>2
    <3> HIDE DEF b, n
    <3>5. B[i] < b + HeaderSize + n
      BY <1>1, <3>3, <3>4
    <3> QED
      BY <3>3, <3>4, <3>5
  <2> QED
    BY <1>1, <2>2, <2>3
<1>9. Borders(R, C)
  BY <1>3, <1>5, <1>6, <1>7, <1>8 DEF Borders
<1> QED
  BY <1>3, <1>4, <1>9 DEF R

\* A byte keeps its number when a frame is added.
LEMMA CarriesExtend ==
    ASSUME NEW S \in Seq(Frames), NEW f \in Frames, NEW B, NEW C,
           \A i \in 0 .. Len(S) : C[i] = B[i],
           NEW s \in Seq(Bytes), NEW n \in Nat, Carries(S, B, s, n)
    PROVE  Carries(Append(S, f), C, s, n)
<1> DEFINE R == Append(S, f)
<1>1. SUFFICES ASSUME NEW p \in 1 .. Len(s)
               PROVE  IsByte(R, C, s[p], n + p)
  BY DEF Carries
<1>2. IsByte(S, B, s[p], n + p)
  BY DEF Carries
<1>3. PICK i \in 1 .. Len(S) : \E k \in 1 .. HeaderSize + S[i].payload :
             n + p = B[i - 1] + k /\ s[p] = ByteOf(S[i], k)
  BY <1>2 DEF IsByte
<1>3a. PICK k \in 1 .. HeaderSize + S[i].payload :
             n + p = B[i - 1] + k /\ s[p] = ByteOf(S[i], k)
  BY <1>3
<1>4. i - 1 \in 0 .. Len(S)
  OBVIOUS
<1>5. i \in 1 .. Len(R) /\ R[i] = S[i]
  OBVIOUS
<1>6. C[i - 1] = B[i - 1]
  BY <1>4
<1> HIDE DEF R
<1> QED
  BY <1>3a, <1>5, <1>6 DEF IsByte

\* The bytes of a frame have the numbers after its border.
LEMMA CarriesEncoded ==
    ASSUME NEW S \in Seq(Frames), NEW B, NEW i \in 1 .. Len(S)
    PROVE  Carries(S, B, Encoded(S[i]), B[i - 1])
<1>1. S[i] \in Frames
  OBVIOUS
<1>2. Len(Encoded(S[i])) = HeaderSize + S[i].payload
  BY <1>1, EncodedBytes
<1>3. SUFFICES ASSUME NEW p \in 1 .. HeaderSize + S[i].payload
               PROVE  IsByte(S, B, Encoded(S[i])[p], B[i - 1] + p)
  BY <1>2 DEF Carries
<1>4. Encoded(S[i])[p] = ByteOf(S[i], p)
  BY <1>1, EncodedBytes
<1> QED
  BY <1>4 DEF IsByte

\* The first byte of a buffer that starts at a border is that of the next frame.
LEMMA FirstByte ==
    ASSUME NEW S \in Seq(Frames), NEW B, Borders(S, B), NEW s \in Seq(Bytes), s # <<>>,
           NEW r \in 0 .. Len(S), Carries(S, B, s, B[r])
    PROVE  r < Len(S) /\ s[1].frame = S[r + 1]
<1>1. 1 \in 1 .. Len(s)
  OBVIOUS
<1>2. IsByte(S, B, s[1], B[r] + 1)
  BY <1>1 DEF Carries
<1>3. PICK i \in 1 .. Len(S) : \E k \in 1 .. HeaderSize + S[i].payload :
             B[r] + 1 = B[i - 1] + k /\ s[1] = ByteOf(S[i], k)
  BY <1>2 DEF IsByte
<1>3a. PICK k \in 1 .. HeaderSize + S[i].payload :
             B[r] + 1 = B[i - 1] + k /\ s[1] = ByteOf(S[i], k)
  BY <1>3
<1>4. i \in 0 .. Len(S) /\ i - 1 \in 0 .. Len(S)
  OBVIOUS
<1>5. B[i] \in Nat /\ B[i - 1] \in Nat /\ B[r] \in Nat
  BY <1>4 DEF Borders
<1>6. B[i] = B[i - 1] + HeaderSize + S[i].payload
  BY DEF Borders
<1>7. HeaderSize + S[i].payload \in Nat
  BY FrameFields, WireAssumption
<1>8. B[i - 1] <= B[r] /\ B[r] < B[i]
  <2> DEFINE m == S[i].payload
             x == B[i - 1]
             y == B[r]
  <2>1. S[i] \in Frames
    OBVIOUS
  <2>2. m \in Nat /\ HeaderSize \in Nat
    BY <2>1, FrameFields, WireAssumption
  <2>3. k \in 1 .. HeaderSize + m /\ B[i] = x + HeaderSize + m /\ y + 1 = x + k
    BY <1>3a, <1>6
  <2>4. x \in Nat /\ y \in Nat
    BY <1>5
  <2> HIDE DEF m, x, y
  <2>5. k <= HeaderSize + m /\ 1 <= k /\ k \in Int
    BY <2>2, <2>3
  <2>6. x <= y /\ y < x + HeaderSize + m
    BY <2>2, <2>3, <2>4, <2>5
  <2> QED
    BY <2>3, <2>6 DEF x, y
<1>9. ~(i < r) /\ i # r
  <2>1. i < r => B[i] < B[r]
    BY <1>4 DEF Borders
  <2> QED
    BY <1>5, <1>8, <2>1
<1>10. ~(r < i - 1)
  <2>1. r < i - 1 => B[r] < B[i - 1]
    BY <1>4 DEF Borders
  <2> QED
    BY <1>5, <1>8, <2>1
<1>11. i = r + 1
  BY <1>9, <1>10
<1> QED
  BY <1>3a, <1>11 DEF ByteOf

-----------------------------------------------------------------------------
(* The invariant holds at the start and after every step.                  *)

\* Empty sequences carry the bytes after any number.
LEMMA CarriesNothing ==
    ASSUME NEW S, NEW B, NEW n
    PROVE  Carries(S, B, << >>, n)
BY DEF Carries

\* At the start no frame has a border.
LEMMA InitHolds == Init => WireInv
<1> SUFFICES ASSUME Init PROVE WireInv
  OBVIOUS
<1>1. WireTyped
  <2>1. << >> \in Seq(Bytes) /\ << >> \in Seq(Frames) /\ Len(<< >>) = 0
    OBVIOUS
  <2>2. Len(received) <= Len(sent) /\ \A i \in 1 .. Len(sent) : EncodeAccepts(sent[i])
    <3>1. Len(received) = 0 /\ Len(sent) = 0
      BY DEF Init
    <3> QED
      BY <3>1
  <2> QED
    BY <2>1, <2>2 DEF Init, WireTyped
<1> DEFINE B == [n \in Nat |-> 0]
<1>2. B \in [Nat -> Nat] /\ B[0] = 0
  OBVIOUS
<1> HIDE DEF B
<1>3. Borders(<< >>, B)
  BY <1>2 DEF Borders
<1>4. Aligned(B)
  BY <1>2, <1>3, CarriesNothing DEF Init, Aligned
<1> QED
  BY <1>1, <1>4 DEF WireInv

\* The numbers at which the buffers start.
LEMMA Starts ==
    ASSUME WireTyped, NEW B, Aligned(B)
    PROVE  /\ Len(received) \in 0 .. Len(sent) /\ Len(sent) \in Nat
           /\ B[Len(received)] \in Nat /\ B[Len(sent)] \in Nat
           /\ Len(read_buffer) \in Nat /\ Len(wire) \in Nat /\ Len(write_buffer) \in Nat
<1>1. Len(received) \in Nat /\ Len(sent) \in Nat /\ Len(received) <= Len(sent)
  BY DEF WireTyped
<1>2. Len(read_buffer) \in Nat /\ Len(wire) \in Nat /\ Len(write_buffer) \in Nat
  BY DEF WireTyped
<1>3. B \in [Nat -> Nat]
  BY DEF Aligned, Borders
<1> QED
  BY <1>1, <1>2, <1>3

\* buffer_frame puts the bytes of a frame behind all others.
LEMMA BufferFrameStep ==
    ASSUME WireTyped, NEW B, Aligned(B), NEW f \in Frames, BufferFrame(f)
    PROVE  WireInv'
<1> DEFINE N == Len(sent)
           r == Len(received)
           n == B[r] + Len(read_buffer) + Len(wire)
<1>1. /\ sent' = Append(sent, f) /\ write_buffer' = write_buffer \o Encoded(f)
      /\ UNCHANGED <<wire, read_buffer, broken, received>> /\ EncodeAccepts(f)
  BY DEF BufferFrame
<1>2. sent \in Seq(Frames) /\ Borders(sent, B)
  BY DEF WireTyped, Aligned
<1>2a. PICK C : C = Extended(sent, B, f)
  OBVIOUS
<1>3. /\ Borders(sent', C) /\ \A i \in 0 .. N : C[i] = B[i]
      /\ C[N + 1] = B[N] + HeaderSize + f.payload
  <2>1. /\ Borders(Append(sent, f), C) /\ \A i \in 0 .. Len(sent) : C[i] = B[i]
        /\ C[Len(sent) + 1] = B[Len(sent)] + HeaderSize + f.payload
    BY <1>2, <1>2a, BordersExtend
  <2> QED
    BY <1>1, <2>1
<1>4. /\ r \in 0 .. N /\ N \in Nat /\ B[r] \in Nat /\ B[N] \in Nat
      /\ Len(read_buffer) \in Nat /\ Len(wire) \in Nat /\ Len(write_buffer) \in Nat
  BY Starts
<1>5. Encoded(f) \in Seq(Bytes) /\ Len(Encoded(f)) = HeaderSize + f.payload
  BY EncodedBytes
<1>6. sent' \in Seq(Frames) /\ Len(sent') = N + 1 /\ sent'[N + 1] = f
  BY <1>1, <1>2
<1>7. WireTyped'
  <2>1. write_buffer' \in Seq(Bytes)
    BY <1>1, <1>5 DEF WireTyped
  <2>2. Len(received') <= Len(sent')
    BY <1>1, <1>4, <1>6
  <2>3. \A i \in 1 .. Len(sent') : EncodeAccepts(sent'[i])
    <3>1. ASSUME NEW i \in 1 .. N + 1 PROVE EncodeAccepts(sent'[i])
      <4>1. CASE i = N + 1
        BY <1>1, <1>6, <4>1
      <4>2. CASE i \in 1 .. N
        BY <1>1, <1>2, <4>2 DEF WireTyped
      <4> QED
        BY <1>4, <4>1, <4>2
    <3> QED
      BY <1>6, <3>1
  <2> QED
    BY <1>1, <1>6, <2>1, <2>2, <2>3 DEF WireTyped
<1>8. /\ read_buffer \in Seq(Bytes) /\ wire \in Seq(Bytes) /\ write_buffer \in Seq(Bytes)
      /\ broken \in BOOLEAN
  BY DEF WireTyped
<1>9. C[r] = B[r] /\ C[N] = B[N]
  BY <1>3, <1>4
<1>10. Carries(sent', C, read_buffer, B[r])
  <2>1. Carries(sent, B, read_buffer, B[r])
    BY DEF Aligned
  <2> QED
    BY <1>1, <1>2, <1>3, <1>4, <1>8, <2>1, CarriesExtend
<1>11. Carries(sent', C, wire, B[r] + Len(read_buffer))
  <2>1. Carries(sent, B, wire, B[r] + Len(read_buffer)) /\ B[r] + Len(read_buffer) \in Nat
    BY <1>4 DEF Aligned
  <2> QED
    BY <1>1, <1>2, <1>3, <1>8, <2>1, CarriesExtend
<1>12. ASSUME ~broken
       PROVE  /\ Carries(sent', C, write_buffer \o Encoded(f), n)
              /\ n + Len(write_buffer \o Encoded(f)) = C[N + 1]
  <2>1. /\ Carries(sent, B, write_buffer, n) /\ n \in Nat
        /\ n + Len(write_buffer) = B[N]
    BY <1>4, <1>12 DEF Aligned
  <2> HIDE DEF n
  <2>2. Carries(sent', C, write_buffer, n)
    BY <1>1, <1>2, <1>3, <1>8, <2>1, CarriesExtend
  <2>3. Carries(sent', C, Encoded(f), C[N])
    <3>1. N + 1 \in 1 .. Len(sent') /\ N + 1 - 1 = N
      BY <1>4, <1>6
    <3>2. Carries(sent', C, Encoded(sent'[N + 1]), C[N + 1 - 1])
      BY <1>6, <3>1, CarriesEncoded
    <3> QED
      BY <1>6, <3>1, <3>2
  <2>4. Carries(sent', C, Encoded(f), n + Len(write_buffer))
    BY <1>9, <2>1, <2>3
  <2>5. Carries(sent', C, write_buffer \o Encoded(f), n)
    BY <1>5, <1>8, <2>1, <2>2, <2>4, CarriesConcat
  <2>6. Len(write_buffer \o Encoded(f)) = Len(write_buffer) + Len(Encoded(f))
    BY <1>5, <1>8, ConcatProperties
  <2>7. n + Len(write_buffer \o Encoded(f)) = C[N + 1]
    <3> DEFINE m == f.payload
    <3>1. m \in Nat /\ HeaderSize \in Nat
      BY FrameFields, WireAssumption
    <3>2. Len(Encoded(f)) = HeaderSize + m /\ C[N + 1] = B[N] + HeaderSize + m
      BY <1>3, <1>5
    <3> HIDE DEF m
    <3> QED
      BY <1>4, <2>1, <2>6, <3>1, <3>2
  <2> QED
    BY <2>5, <2>7
<1>13. Aligned(C)'
  BY <1>1, <1>3, <1>6, <1>9, <1>10, <1>11, <1>12 DEF Aligned
<1> QED
  BY <1>7, <1>13 DEF WireInv

\* The beginning of what a sequence carries is carried in the same place.
LEMMA CarriesPrefix ==
    ASSUME NEW S, NEW B, NEW s \in Seq(Bytes), NEW n \in Nat,
           Carries(S, B, s, n), NEW j \in 0 .. Len(s)
    PROVE  /\ SubSeq(s, 1, j) \in Seq(Bytes) /\ Len(SubSeq(s, 1, j)) = j
           /\ Carries(S, B, SubSeq(s, 1, j), n)
<1>1. 0 \in Nat /\ j \in Nat /\ 0 <= j /\ j <= Len(s) /\ 0 + 1 = 1 /\ j - 0 = j /\ n + 0 = n
  OBVIOUS
<1>2. /\ SubSeq(s, 0 + 1, j) \in Seq(Bytes) /\ Len(SubSeq(s, 0 + 1, j)) = j - 0
      /\ Carries(S, B, SubSeq(s, 0 + 1, j), n + 0)
  BY <1>1, CarriesPiece
<1> QED
  BY <1>1, <1>2

\* The stream has the bytes of the write buffer, all of them or the first,
\* behind those it had.
LEMMA WireGrows ==
    ASSUME WireTyped, NEW B, Aligned(B), ~broken, NEW j \in 0 .. Len(write_buffer)
    PROVE  /\ wire \o SubSeq(write_buffer, 1, j) \in Seq(Bytes)
           /\ Len(wire \o SubSeq(write_buffer, 1, j)) = Len(wire) + j
           /\ Carries(sent, B, wire \o SubSeq(write_buffer, 1, j),
                      B[Len(received)] + Len(read_buffer))
<1> DEFINE n == B[Len(received)] + Len(read_buffer)
           t == SubSeq(write_buffer, 1, j)
<1>1. n \in Nat /\ n + Len(wire) \in Nat
  BY Starts
<1>2. /\ Carries(sent, B, wire, n) /\ Carries(sent, B, write_buffer, n + Len(wire))
      /\ wire \in Seq(Bytes) /\ write_buffer \in Seq(Bytes)
  BY DEF Aligned, WireTyped
<1> HIDE DEF n
<1>3. t \in Seq(Bytes) /\ Len(t) = j /\ Carries(sent, B, t, n + Len(wire))
  BY <1>1, <1>2, CarriesPrefix
<1> HIDE DEF t
<1>4. wire \o t \in Seq(Bytes) /\ Len(wire \o t) = Len(wire) + j
  BY <1>2, <1>3, ConcatProperties
<1>5. Carries(sent, B, wire \o t, n)
  BY <1>1, <1>2, <1>3, CarriesConcat
<1> QED
  BY <1>4, <1>5 DEF n, t

\* flush puts all of the write buffer behind what the stream has.
LEMMA FlushStep ==
    ASSUME WireTyped, NEW B, Aligned(B), Flush
    PROVE  WireInv'
<1>1. /\ wire' = wire \o write_buffer /\ write_buffer' = << >> /\ ~broken
      /\ UNCHANGED <<read_buffer, broken, sent, received>>
  BY DEF Flush
<1>2. write_buffer \in Seq(Bytes) /\ Len(write_buffer) \in 0 .. Len(write_buffer)
  BY DEF WireTyped
<1>3. SubSeq(write_buffer, 1, Len(write_buffer)) = write_buffer
  BY <1>2
<1>4. /\ wire' \in Seq(Bytes) /\ Len(wire') = Len(wire) + Len(write_buffer)
      /\ Carries(sent, B, wire', B[Len(received)] + Len(read_buffer))
  BY <1>1, <1>2, <1>3, WireGrows
<1>5. write_buffer' \in Seq(Bytes) /\ Len(write_buffer') = 0
  BY <1>1
<1>6. WireTyped'
  BY <1>1, <1>4, <1>5 DEF WireTyped
<1>7. B[Len(received)] + Len(read_buffer) + Len(wire') + Len(write_buffer') = B[Len(sent)]
  <2>1. B[Len(received)] + Len(read_buffer) + Len(wire) + Len(write_buffer) = B[Len(sent)]
    BY <1>1 DEF Aligned
  <2> QED
    BY <1>4, <1>5, <2>1, Starts
<1>8. Carries(sent, B, write_buffer', B[Len(received)] + Len(read_buffer) + Len(wire'))
  BY <1>1, CarriesNothing
<1>9. Aligned(B)'
  BY <1>1, <1>4, <1>7, <1>8 DEF Aligned
<1> QED
  BY <1>6, <1>9 DEF WireInv

\* A flush that fails puts some of them there, and nothing follows.
LEMMA FlushFailsStep ==
    ASSUME WireTyped, NEW B, Aligned(B), FlushFails
    PROVE  WireInv'
<1>1. PICK j \in 0 .. Len(write_buffer) - 1 : wire' = wire \o SubSeq(write_buffer, 1, j)
  BY DEF FlushFails
<1>2. ~broken /\ broken' = TRUE /\ UNCHANGED <<write_buffer, read_buffer, sent, received>>
  BY DEF FlushFails
<1>3. j \in 0 .. Len(write_buffer)
  BY <1>1, Starts
<1>4. /\ wire' \in Seq(Bytes)
      /\ Carries(sent, B, wire', B[Len(received)] + Len(read_buffer))
  BY <1>1, <1>2, <1>3, WireGrows
<1>5. WireTyped'
  BY <1>2, <1>4 DEF WireTyped
<1>6. Aligned(B)'
  BY <1>2, <1>4 DEF Aligned
<1> QED
  BY <1>5, <1>6 DEF WireInv

\* A stream that breaks keeps the first of its bytes.
LEMMA BreakStep ==
    ASSUME WireTyped, NEW B, Aligned(B), Break
    PROVE  WireInv'
<1>1. PICK j \in 0 .. Len(wire) : wire' = SubSeq(wire, 1, j)
  BY DEF Break
<1>2. broken' = TRUE /\ UNCHANGED <<write_buffer, read_buffer, sent, received>>
  BY DEF Break
<1>3. B[Len(received)] + Len(read_buffer) \in Nat
  BY Starts
<1>4. wire \in Seq(Bytes) /\ Carries(sent, B, wire, B[Len(received)] + Len(read_buffer))
  BY DEF WireTyped, Aligned
<1>5. /\ wire' \in Seq(Bytes)
      /\ Carries(sent, B, wire', B[Len(received)] + Len(read_buffer))
  BY <1>1, <1>3, <1>4, CarriesPrefix
<1>6. WireTyped'
  BY <1>2, <1>5 DEF WireTyped
<1>7. Aligned(B)'
  BY <1>2, <1>5 DEF Aligned
<1> QED
  BY <1>6, <1>7 DEF WireInv

\* The next frame is the one that recv_frame returns, and it was accepted.
LEMMA NextFrame ==
    ASSUME WireTyped, NEW B, Aligned(B), RecvFrame
    PROVE  /\ Len(received) < Len(sent)
           /\ read_buffer[1].frame = sent[Len(received) + 1]
           /\ Validates(read_buffer[1].frame)
           /\ FrameSize(read_buffer[1].frame) \in 0 .. Len(read_buffer)
           /\ B[Len(received) + 1] = B[Len(received)] + FrameSize(read_buffer[1].frame)
<1> DEFINE f == read_buffer[1].frame
           r == Len(received)
<1>1. Validates(f) /\ Complete(read_buffer) /\ Len(read_buffer) >= HeaderSize
  <2>1. Decode(read_buffer) = "Frame"
    BY DEF RecvFrame
  <2>2. ~(Len(read_buffer) < HeaderSize) /\ Validates(f) /\ Complete(read_buffer)
    BY <2>1 DEF Decode
  <2> QED
    BY <2>2, Starts, WireAssumption
<1>2. read_buffer \in Seq(Bytes) /\ sent \in Seq(Frames) /\ r \in 0 .. Len(sent)
  BY Starts DEF WireTyped
<1>3. read_buffer # << >>
  BY <1>1, <1>2, WireAssumption
<1>4. Borders(sent, B) /\ Carries(sent, B, read_buffer, B[r])
  BY DEF Aligned
<1>5. r < Len(sent) /\ f = sent[r + 1]
  BY <1>2, <1>3, <1>4, FirstByte
<1>6. r + 1 \in 1 .. Len(sent) /\ r + 1 - 1 = r
  BY <1>2, <1>5
<1>7. f \in Frames /\ EncodeAccepts(f)
  <2>1. sent[r + 1] \in Frames
    BY <1>2, <1>6
  <2>2. EncodeAccepts(sent[r + 1])
    BY <1>6 DEF WireTyped
  <2> QED
    BY <1>5, <2>1, <2>2
<1>8. B[r + 1] = B[r] + HeaderSize + f.payload
  BY <1>4, <1>5, <1>6 DEF Borders
<1>9. FrameSize(f) \in Nat /\ HeaderSize + f.payload = FrameSize(f)
  BY <1>7, FrameFields, WireAssumption DEF EncodeAccepts, FrameSize
<1>10. Len(read_buffer) >= FrameSize(f)
  BY <1>1 DEF Complete
<1>11. FrameSize(f) \in 0 .. Len(read_buffer)
  BY <1>2, <1>9, <1>10
<1>12. B[r + 1] = B[r] + FrameSize(f)
  <2> DEFINE m == f.payload
  <2>1. m \in Nat /\ HeaderSize \in Nat /\ B[r] \in Nat
    BY <1>7, FrameFields, WireAssumption, Starts
  <2>2. B[r + 1] = B[r] + HeaderSize + m /\ HeaderSize + m = FrameSize(f)
    BY <1>8, <1>9
  <2> HIDE DEF m, f
  <2> QED
    BY <2>1, <2>2
<1> QED
  BY <1>1, <1>5, <1>11, <1>12

\* recv_frame takes the bytes of a frame off the front, and no more.
LEMMA RecvFrameStep ==
    ASSUME WireTyped, NEW B, Aligned(B), RecvFrame
    PROVE  WireInv'
<1> DEFINE f == read_buffer[1].frame
           r == Len(received)
           z == FrameSize(f)
<1>1. /\ read_buffer' = SubSeq(read_buffer, z + 1, Len(read_buffer))
      /\ received' = Append(received, f)
      /\ UNCHANGED <<write_buffer, wire, broken, sent>>
  BY DEF RecvFrame, Rest
<1>2. /\ r < Len(sent) /\ f = sent[r + 1] /\ z \in 0 .. Len(read_buffer)
      /\ B[r + 1] = B[r] + z
  BY NextFrame
<1>3. /\ read_buffer \in Seq(Bytes) /\ received \in Seq(Frames) /\ sent \in Seq(Frames)
      /\ r \in Nat /\ Len(sent) \in Nat /\ B[r] \in Nat /\ Len(read_buffer) \in Nat
  BY Starts DEF WireTyped
<1>4. f \in Frames
  <2>1. r + 1 \in 1 .. Len(sent)
    BY <1>2, <1>3
  <2>2. sent[r + 1] \in Frames
    BY <1>3, <2>1
  <2> QED
    BY <1>2, <2>2
<1> HIDE DEF f, z
<1>5. received' \in Seq(Frames) /\ Len(received') = r + 1
  BY <1>1, <1>3, <1>4
<1>6. Carries(sent, B, read_buffer, B[r])
  BY DEF Aligned
<1>7. /\ read_buffer' \in Seq(Bytes) /\ Len(read_buffer') = Len(read_buffer) - z
      /\ Carries(sent, B, read_buffer', B[r] + z)
  <2>1. z \in Nat /\ z <= Len(read_buffer) /\ Len(read_buffer) <= Len(read_buffer)
    BY <1>2, <1>3
  <2> QED
    BY <1>1, <1>3, <1>6, <2>1, CarriesPiece
<1>8. B[r + 1] + Len(read_buffer') = B[r] + Len(read_buffer)
  BY <1>2, <1>3, <1>7
<1>9. WireTyped'
  <2>1. Len(received') <= Len(sent')
    BY <1>1, <1>2, <1>3, <1>5
  <2> QED
    BY <1>1, <1>5, <1>7, <2>1 DEF WireTyped
<1>10. /\ Carries(sent', B, read_buffer', B[Len(received')])
       /\ B[Len(received')] + Len(read_buffer') = B[r] + Len(read_buffer)
  BY <1>1, <1>2, <1>5, <1>7, <1>8
<1>11. Aligned(B)'
  BY <1>1, <1>10 DEF Aligned
<1> QED
  BY <1>9, <1>11 DEF WireInv

\* A read moves bytes from the front of the stream behind those read before.
LEMMA RecvMoreStep ==
    ASSUME WireTyped, NEW B, Aligned(B), RecvMore
    PROVE  WireInv'
<1> DEFINE n == B[Len(received)] + Len(read_buffer)
<1>1. PICK j \in 1 .. Len(wire) : /\ read_buffer' = read_buffer \o SubSeq(wire, 1, j)
                                  /\ wire' = SubSeq(wire, j + 1, Len(wire))
  BY DEF RecvMore
<1>2. UNCHANGED <<write_buffer, broken, sent, received>>
  BY DEF RecvMore
<1>3. /\ read_buffer \in Seq(Bytes) /\ wire \in Seq(Bytes)
      /\ B[Len(received)] \in Nat /\ Len(read_buffer) \in Nat /\ Len(wire) \in Nat
      /\ n \in Nat
  BY Starts DEF WireTyped
<1>4. /\ Carries(sent, B, read_buffer, B[Len(received)])
      /\ Carries(sent, B, wire, B[Len(received)] + Len(read_buffer))
  BY DEF Aligned
<1>5. /\ j \in 0 .. Len(wire) /\ j \in Nat /\ j <= Len(wire) /\ Len(wire) <= Len(wire)
  BY <1>1, <1>3
<1> DEFINE t == SubSeq(wire, 1, j)
<1>6. t \in Seq(Bytes) /\ Len(t) = j /\ Carries(sent, B, t, n)
  BY <1>3, <1>4, <1>5, CarriesPrefix
<1>7. /\ wire' \in Seq(Bytes) /\ Len(wire') = Len(wire) - j
      /\ Carries(sent, B, wire', n + j)
  BY <1>1, <1>3, <1>4, <1>5, CarriesPiece
<1>8. read_buffer' = read_buffer \o t
  BY <1>1
<1> HIDE DEF t
<1>9. /\ read_buffer' \in Seq(Bytes) /\ Len(read_buffer') = Len(read_buffer) + j
  BY <1>3, <1>6, <1>8, ConcatProperties
<1>10. Carries(sent, B, read_buffer', B[Len(received)])
  BY <1>3, <1>4, <1>6, <1>8, CarriesConcat
<1>11. /\ B[Len(received)] + Len(read_buffer') = n + j
       /\ B[Len(received)] + Len(read_buffer') + Len(wire') = n + Len(wire)
  BY <1>3, <1>5, <1>7, <1>9
<1>12. WireTyped'
  BY <1>2, <1>7, <1>9 DEF WireTyped
<1>13. Aligned(B)'
  BY <1>2, <1>7, <1>10, <1>11 DEF Aligned
<1> QED
  BY <1>12, <1>13 DEF WireInv

\* The invariant holds after every step.
LEMMA NextHolds == WireInv /\ [Next]_vars => WireInv'
<1> SUFFICES ASSUME WireInv, [Next]_vars
             PROVE  WireInv'
  OBVIOUS
<1>1. WireTyped
  BY DEF WireInv
<1>2. PICK B : Aligned(B)
  BY DEF WireInv
<1>3. ASSUME NEW f \in Frames, BufferFrame(f) PROVE WireInv'
  BY <1>1, <1>2, <1>3, BufferFrameStep
<1>4. CASE Flush
  BY <1>1, <1>2, <1>4, FlushStep
<1>5. CASE FlushFails
  BY <1>1, <1>2, <1>5, FlushFailsStep
<1>6. CASE Break
  BY <1>1, <1>2, <1>6, BreakStep
<1>7. CASE RecvFrame
  BY <1>1, <1>2, <1>7, RecvFrameStep
<1>8. CASE RecvMore
  BY <1>1, <1>2, <1>8, RecvMoreStep
<1>9. CASE UNCHANGED vars
  <2>1. WireTyped'
    BY <1>1, <1>9 DEF WireTyped, vars
  <2>2. Aligned(B)'
    BY <1>2, <1>9 DEF Aligned, vars
  <2> QED
    BY <2>1, <2>2 DEF WireInv
<1> QED
  BY <1>3, <1>4, <1>5, <1>6, <1>7, <1>8, <1>9 DEF Next

-----------------------------------------------------------------------------
(* The theorem.                                                            *)

\* The frames returned by recv_frame are those given to buffer_frame, whole, each
\* once, in the order of the calls and none past one that validate refuses,
\* whatever the sizes of headers, frames and buffers, however the stream cuts
\* the bytes into pieces and wherever it breaks.
THEOREM WireImplementsChannel == WireSpec => ImplementsFrameChannel
<1>1. Init => Channel!ChannelInit
  BY DEF Init, Channel!ChannelInit
<1>2. WireInv /\ [Next]_vars => [Channel!ChannelNext]_<<sent, received>>
  <2> SUFFICES ASSUME WireInv, [Next]_vars
               PROVE  [Channel!ChannelNext]_<<sent, received>>
    OBVIOUS
  <2>1. ASSUME NEW f \in Frames, BufferFrame(f) PROVE Channel!ChannelNext
    BY <2>1 DEF BufferFrame, Channel!ChannelNext, Channel!Send
  <2>2. CASE RecvFrame
    <3>1. WireTyped
      BY DEF WireInv
    <3>2. PICK B : Aligned(B)
      BY DEF WireInv
    <3>3. /\ Len(received) < Len(sent)
          /\ read_buffer[1].frame = sent[Len(received) + 1]
          /\ Validates(read_buffer[1].frame)
      BY <2>2, <3>1, <3>2, NextFrame
    <3>4. received' = Append(received, read_buffer[1].frame) /\ UNCHANGED sent
      BY <2>2 DEF RecvFrame
    <3> QED
      BY <3>3, <3>4 DEF Channel!ChannelNext, Channel!Receive
  <2>3. CASE Flush \/ FlushFails \/ Break \/ RecvMore \/ UNCHANGED vars
    BY <2>3 DEF Flush, FlushFails, Break, RecvMore, vars
  <2> QED
    BY <2>1, <2>2, <2>3 DEF Next
<1> QED
  BY InitHolds, NextHolds, <1>1, <1>2, PTL
     DEF WireSpec, ImplementsFrameChannel, Channel!ChannelSpec
=============================================================================
