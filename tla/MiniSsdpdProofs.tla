--------------------------- MODULE MiniSsdpdProofs ---------------------------
(***************************************************************************)
(* Theorems about MiniSsdpd, for any bytes the daemon may send and any     *)
(* size of the buffer, and about the coding of lengths.                    *)
(***************************************************************************)
EXTENDS MiniSsdpd, Induction, SequenceTheorems

\* A first part of an answer is made of bytes.
LEMMA FirstPart ==
  ASSUME NEW S, NEW s \in Seq(S), NEW n \in 1 .. Len(s)
  PROVE  SubSeq(s, 1, n) \in Seq(S)
<1>1. Len(s) \in Nat /\ \A k \in 1 .. Len(s) : s[k] \in S
  BY LenProperties, ElementOfSeq
<1>2. \A k \in 1 .. n : s[k] \in S
  BY <1>1
<1> QED
  BY <1>1, <1>2, SubSeqProperties

\* A device in front of the list.
LEMMA PutFirst ==
  ASSUME NEW S, NEW l \in Seq(S), NEW e \in S
  PROVE  <<e>> \o l \in Seq(S)
<1>1. <<e>> \in Seq(S)
  OBVIOUS
<1> QED
  BY <1>1, ConcatProperties

\* A turn of the decoder keeps the value in the word.
LEMMA ShiftedWord ==
  ASSUME NEW v \in Nat, NEW b \in 0 .. 255
  PROVE  Shifted(v, b) \in 0 .. Word - 1
<1> DEFINE x == v * 128 + (b % 128)
<1>1. b % 128 \in 0 .. 127
  OBVIOUS
<1>2. x \in Nat
  BY <1>1
<1> HIDE DEF x
<1>3. x % Word \in 0 .. Word - 1
  BY <1>2, BufferAssumption
<1> QED
  BY <1>3 DEF Shifted, x

\* A string that fits is inside.
LEMMA FitsInside ==
  ASSUME NEW at \in Nat \ {0}, NEW size \in Nat, at + size + 1 < BufSize
  PROVE  [at |-> at, size |-> size] \in Place
<1>1. at \in 1 .. BufSize /\ size \in 0 .. BufSize /\ at + size < BufSize
  BY BufferAssumption
<1> QED
  BY <1>1 DEF Place

\* Whatever bytes arrive, and whatever was in the buffer before, the strings
\* of each device lie inside the buffer (minissdpc.c:100-128).
THEOREM InsideBuffer == Spec => []TypeOK
<1>1. Init => TypeOK
  BY BufferAssumption DEF Init, TypeOK, Place
<1>2. TypeOK /\ [Next]_vars => TypeOK'
  <2> SUFFICES ASSUME TypeOK, [Next]_vars PROVE TypeOK'
    OBVIOUS
  <2> USE DEF TypeOK
  <2>1. CASE Read
    <3>1. PICK n \in 1 .. Len(answer.bytes) : buffer' = SubSeq(answer.bytes, 1, n)
      BY <2>1 DEF Read
    <3>2. answer.bytes \in Seq(0 .. 255)
      BY BufferAssumption
    <3>3. buffer' \in Seq(0 .. 255)
      BY <3>1, <3>2, FirstPart
    <3>4. i' = i /\ p' = p /\ value' = value /\ url' = url /\ devlist' = devlist
          /\ answer' = answer /\ pc' = "entry" /\ pc = "read"
      BY <2>1 DEF Read
    <3> QED
      BY <3>3, <3>4
  <2>2. CASE ReadFails
    BY <2>2 DEF ReadFails
  <2>3. CASE Entry
    BY <2>3, BufferAssumption DEF Entry
  <2>4. CASE Decode
    <3>1. PICK b \in ByteAt(p) : value' = Shifted(value, b)
      BY <2>4 DEF Decode
    <3>2. b \in 0 .. 255
      <4>1. CASE p <= Len(buffer)
        <5>1. p \in 1 .. Len(buffer)
          BY <4>1, LenProperties
        <5>2. buffer[p] \in 0 .. 255
          BY <5>1, ElementOfSeq
        <5> QED
          BY <3>1, <4>1, <5>2 DEF ByteAt
      <4>2. CASE ~(p <= Len(buffer))
        BY <3>1, <4>2, BufferAssumption DEF ByteAt
      <4> QED
        BY <4>1, <4>2
    <3>3. value' \in 0 .. Word - 1
      <4>1. value \in Nat
        BY BufferAssumption
      <4> QED
        BY <3>1, <3>2, <4>1, ShiftedWord
    <3>4. pc \in {"url", "st", "usn"} /\ pc' \in {pc, "haveurl", "havest", "haveusn"}
      <4>1. CASE pc = "url"
        BY <2>4, <4>1 DEF Decode
      <4>2. CASE pc = "st"
        BY <2>4, <4>2 DEF Decode
      <4>3. CASE pc = "usn"
        BY <2>4, <4>3 DEF Decode
      <4> QED
        BY <2>4, <4>1, <4>2, <4>3 DEF Decode
    <3>5. p' = p + 1 /\ i' = i /\ url' = url /\ devlist' = devlist /\ answer' = answer
          /\ buffer' = buffer
      BY <2>4 DEF Decode
    <3>6. p' \in Nat \ {0}
      BY <3>5
    <3> QED
      BY <3>3, <3>4, <3>5, <3>6
  <2>5. CASE HaveUrl
    <3>1. [at |-> p, size |-> value] \in Place
      BY <2>5, BufferAssumption, FitsInside DEF HaveUrl, Fits
    <3> QED
      BY <2>5, <3>1, BufferAssumption DEF HaveUrl
  <2>6. CASE HaveSt
    <3> DEFINE d == [url |-> url, st |-> [at |-> p, size |-> value]]
    <3>1. [at |-> p, size |-> value] \in Place
      BY <2>6, BufferAssumption, FitsInside DEF HaveSt, Fits
    <3>2. d \in [url : Place, st : Place]
      BY <3>1
    <3>3. <<d>> \o devlist \in Seq([url : Place, st : Place])
      BY <3>2, PutFirst
    <3> QED
      BY <2>6, <3>3, BufferAssumption DEF HaveSt
  <2>7. CASE TooLong
    BY <2>7 DEF TooLong
  <2>8. CASE HaveUsn
    BY <2>8, BufferAssumption DEF HaveUsn
  <2>9. CASE Done \/ UNCHANGED vars
    BY <2>9 DEF Done, vars
  <2> QED
    BY <2>1, <2>2, <2>3, <2>4, <2>5, <2>6, <2>7, <2>8, <2>9 DEF Next
<1>3. QED
  BY <1>1, <1>2, PTL DEF Spec

-----------------------------------------------------------------------------
\* The decoder undoes the coding of the seven bits at k.
LEMMA ByteDecoded ==
  ASSUME NEW n \in 0 .. Word - 1, NEW k \in Nat \ {0}, NEW v \in Nat,
         v = (n \div k) \div 128
  PROVE  /\ GoesOn(Top(n, k)) /\ Top(n, k) \in Int
         /\ Shifted(v, Top(n, k)) = n \div k
         /\ n \div k \in Nat
<1> DEFINE x == n \div k
<1>1. n \in Nat
  BY BufferAssumption
<1>2. x \in Nat /\ x <= n
  BY <1>1
<1>3. x < Word
  BY <1>1, <1>2, BufferAssumption
<1> DEFINE b == x % 128
<1> HIDE DEF x
<1>4. b \in 0 .. 127 /\ x = (x \div 128) * 128 + b
  BY <1>2
<1> HIDE DEF b
<1>5. (128 + b) % 128 = b /\ 128 + b >= 128
  BY <1>4
<1>6. x % Word = x
  BY <1>2, <1>3, BufferAssumption
<1>7. Top(n, k) = 128 + b
  BY DEF Top, x, b
<1>8. v * 128 + b = x
  BY <1>4 DEF x
<1>9. Shifted(v, Top(n, k)) = x
  BY <1>5, <1>6, <1>7, <1>8 DEF Shifted
<1> QED
  BY <1>2, <1>4, <1>5, <1>7, <1>9 DEF GoesOn, x

LEMMA LastDecoded ==
  ASSUME NEW n \in 0 .. Word - 1, NEW v \in Nat, v = n \div 128
  PROVE  ~GoesOn(n % 128) /\ Shifted(v, n % 128) = n
<1> DEFINE b == n % 128
<1>1. n \in Nat /\ n < Word
  BY BufferAssumption
<1>2. b \in 0 .. 127 /\ n = v * 128 + b
  BY <1>1
<1> HIDE DEF b
<1>3. b % 128 = b /\ ~(b >= 128)
  BY <1>2
<1>4. n % Word = n
  BY <1>1, BufferAssumption
<1>5. Shifted(v, b) = n
  BY <1>2, <1>3, <1>4 DEF Shifted
<1> QED
  BY <1>3, <1>5 DEF GoesOn, b

\* A byte behind others.
LEMMA Longer ==
  ASSUME NEW s \in Seq(Int), NEW e \in Int
  PROVE  /\ s \o <<e>> \in Seq(Int) /\ Len(s \o <<e>>) = Len(s) + 1
         /\ (s \o <<e>>)[Len(s) + 1] = e
         /\ \A k \in 1 .. Len(s) : (s \o <<e>>)[k] = s[k]
<1>1. <<e>> \in Seq(Int) /\ Len(<<e>>) = 1 /\ <<e>>[1] = e
  OBVIOUS
<1>2. Len(s) \in Nat
  BY LenProperties
<1> QED
  BY <1>1, <1>2, ConcatProperties

\* The bytes of a code of one byte, and of up to five.
LEMMA One ==
  ASSUME NEW v, NEW w, NEW x, NEW y, NEW z,
         v = <<>>, w = <<>>, x = <<>>, y = <<>>
  PROVE  v \o w \o x \o y \o <<z>> = <<z>>
<1>1. <<>> \o <<>> \o <<>> \o <<>> \o <<z>> = <<z>>
  OBVIOUS
<1> QED
  BY <1>1

LEMMA Two ==
  ASSUME NEW v \in Int, NEW w \in Int
  PROVE  LET s == <<v>> \o <<w>>
         IN  s \in Seq(Int) /\ Len(s) = 2 /\ s[1] = v /\ s[2] = w
<1> DEFINE r == <<v>>
<1>1. r \in Seq(Int) /\ Len(r) = 1 /\ r[1] = v
  OBVIOUS
<1> HIDE DEF r
<1>2. /\ r \o <<w>> \in Seq(Int) /\ Len(r \o <<w>>) = Len(r) + 1
      /\ (r \o <<w>>)[Len(r) + 1] = w
      /\ \A k \in 1 .. Len(r) : (r \o <<w>>)[k] = r[k]
  BY <1>1, Longer
<1>3. /\ Len(r \o <<w>>) = 2 /\ (r \o <<w>>)[2] = w
      /\ (r \o <<w>>)[1] = v
  BY <1>1, <1>2
<1> QED
  BY <1>2, <1>3 DEF r

LEMMA Three ==
  ASSUME NEW v \in Int, NEW w \in Int, NEW x \in Int
  PROVE  LET s == <<v>> \o <<w>> \o <<x>>
         IN  s \in Seq(Int) /\ Len(s) = 3 /\ s[1] = v /\ s[2] = w /\ s[3] = x
<1> DEFINE r == <<v>> \o <<w>>
<1>1. r \in Seq(Int) /\ Len(r) = 2 /\ r[1] = v /\ r[2] = w
  BY Two
<1> HIDE DEF r
<1>2. /\ r \o <<x>> \in Seq(Int) /\ Len(r \o <<x>>) = Len(r) + 1
      /\ (r \o <<x>>)[Len(r) + 1] = x
      /\ \A k \in 1 .. Len(r) : (r \o <<x>>)[k] = r[k]
  BY <1>1, Longer
<1>3. /\ Len(r \o <<x>>) = 3 /\ (r \o <<x>>)[3] = x
      /\ (r \o <<x>>)[1] = v /\ (r \o <<x>>)[2] = w
  BY <1>1, <1>2
<1> QED
  BY <1>2, <1>3 DEF r

LEMMA Four ==
  ASSUME NEW v \in Int, NEW w \in Int, NEW x \in Int, NEW y \in Int
  PROVE  LET s == <<v>> \o <<w>> \o <<x>> \o <<y>>
         IN  s \in Seq(Int) /\ Len(s) = 4 /\ s[1] = v /\ s[2] = w /\ s[3] = x /\ s[4] = y
<1> DEFINE r == <<v>> \o <<w>> \o <<x>>
<1>1. r \in Seq(Int) /\ Len(r) = 3 /\ r[1] = v /\ r[2] = w /\ r[3] = x
  BY Three
<1> HIDE DEF r
<1>2. /\ r \o <<y>> \in Seq(Int) /\ Len(r \o <<y>>) = Len(r) + 1
      /\ (r \o <<y>>)[Len(r) + 1] = y
      /\ \A k \in 1 .. Len(r) : (r \o <<y>>)[k] = r[k]
  BY <1>1, Longer
<1>3. /\ Len(r \o <<y>>) = 4 /\ (r \o <<y>>)[4] = y
      /\ (r \o <<y>>)[1] = v /\ (r \o <<y>>)[2] = w /\ (r \o <<y>>)[3] = x
  BY <1>1, <1>2
<1> QED
  BY <1>2, <1>3 DEF r

LEMMA Five ==
  ASSUME NEW v \in Int, NEW w \in Int, NEW x \in Int, NEW y \in Int, NEW z \in Int
  PROVE  LET s == <<v>> \o <<w>> \o <<x>> \o <<y>> \o <<z>>
         IN  s \in Seq(Int) /\ Len(s) = 5 /\ s[1] = v /\ s[2] = w /\ s[3] = x /\ s[4] = y /\ s[5] = z
<1> DEFINE r == <<v>> \o <<w>> \o <<x>> \o <<y>>
<1>1. r \in Seq(Int) /\ Len(r) = 4 /\ r[1] = v /\ r[2] = w /\ r[3] = x /\ r[4] = y
  BY Four
<1> HIDE DEF r
<1>2. /\ r \o <<z>> \in Seq(Int) /\ Len(r \o <<z>>) = Len(r) + 1
      /\ (r \o <<z>>)[Len(r) + 1] = z
      /\ \A k \in 1 .. Len(r) : (r \o <<z>>)[k] = r[k]
  BY <1>1, Longer
<1>3. /\ Len(r \o <<z>>) = 5 /\ (r \o <<z>>)[5] = z
      /\ (r \o <<z>>)[1] = v /\ (r \o <<z>>)[2] = w /\ (r \o <<z>>)[3] = x /\ (r \o <<z>>)[4] = y
  BY <1>1, <1>2
<1> QED
  BY <1>2, <1>3 DEF r

\* What DECODELENGTH makes of the bytes of CODELENGTH is the length they were
\* made of, for every length of at most 35 bits that the word holds, and it
\* stops at the last of them (codelength.h:13-21).
THEOREM LengthDecoded ==
  ASSUME NEW n, Codable(n),
         NEW val, val[0] = 0,
         \A k \in 1 .. Len(Code(n)) : val[k] = Shifted(val[k - 1], Code(n)[k])
  PROVE  /\ val[Len(Code(n))] = n
         /\ \A k \in 1 .. Len(Code(n)) : GoesOn(Code(n)[k]) <=> k < Len(Code(n))
<1> DEFINE c == Code(n)
<1>0. n \in Nat /\ n \in 0 .. Word - 1 /\ n \div 268435456 < 128
  BY BufferAssumption DEF Codable
<1>6. n % 128 \in Int /\ \A k \in Nat \ {0} : Top(n, k) \in Int
  BY <1>0 DEF Top
<1>1. CASE n >= 268435456
  <2>1. c = <<Top(n, 268435456)>> \o <<Top(n, 2097152)>> \o <<Top(n, 16384)>> \o <<Top(n, 128)>> \o <<n % 128>>
    BY <1>0, <1>1 DEF Code
  <2>2. Len(c) = 5 /\ c[1] = Top(n, 268435456) /\ c[2] = Top(n, 2097152) /\ c[3] = Top(n, 16384) /\ c[4] = Top(n, 128) /\ c[5] = n % 128
    BY <2>1, <1>6, Five
  <2>3. GoesOn(c[1]) /\ val[1] = n \div 268435456 /\ val[1] \in Nat
    <3>1. val[0] \in Nat /\ val[0] = (n \div 268435456) \div 128
      BY <1>0, <1>1
    <3>2. val[1] = Shifted(val[0], Top(n, 268435456))
      BY <2>2
    <3> QED
      BY <1>0, <2>2, <3>1, <3>2, ByteDecoded
  <2>4. GoesOn(c[2]) /\ val[2] = n \div 2097152 /\ val[2] \in Nat
    <3>1. val[1] \in Nat /\ val[1] = (n \div 2097152) \div 128
      BY <1>0, <1>1, <2>3
    <3>2. val[2] = Shifted(val[1], Top(n, 2097152))
      BY <2>2
    <3> QED
      BY <1>0, <2>2, <3>1, <3>2, ByteDecoded
  <2>5. GoesOn(c[3]) /\ val[3] = n \div 16384 /\ val[3] \in Nat
    <3>1. val[2] \in Nat /\ val[2] = (n \div 16384) \div 128
      BY <1>0, <1>1, <2>4
    <3>2. val[3] = Shifted(val[2], Top(n, 16384))
      BY <2>2
    <3> QED
      BY <1>0, <2>2, <3>1, <3>2, ByteDecoded
  <2>6. GoesOn(c[4]) /\ val[4] = n \div 128 /\ val[4] \in Nat
    <3>1. val[3] \in Nat /\ val[3] = (n \div 128) \div 128
      BY <1>0, <1>1, <2>5
    <3>2. val[4] = Shifted(val[3], Top(n, 128))
      BY <2>2
    <3> QED
      BY <1>0, <2>2, <3>1, <3>2, ByteDecoded
  <2>7. ~GoesOn(c[5]) /\ val[5] = n
    <3>1. val[4] \in Nat /\ val[4] = n \div 128
      BY <1>0, <1>1, <2>6
    <3>2. val[5] = Shifted(val[4], n % 128)
      BY <2>2
    <3> QED
      BY <1>0, <2>2, <3>1, <3>2, LastDecoded
  <2> QED
    BY <2>2, <2>3, <2>4, <2>5, <2>6, <2>7
<1>2. CASE n < 268435456 /\ n >= 2097152
  <2>1. c = <<Top(n, 2097152)>> \o <<Top(n, 16384)>> \o <<Top(n, 128)>> \o <<n % 128>>
    BY <1>0, <1>2 DEF Code
  <2>2. Len(c) = 4 /\ c[1] = Top(n, 2097152) /\ c[2] = Top(n, 16384) /\ c[3] = Top(n, 128) /\ c[4] = n % 128
    BY <2>1, <1>6, Four
  <2>3. GoesOn(c[1]) /\ val[1] = n \div 2097152 /\ val[1] \in Nat
    <3>1. val[0] \in Nat /\ val[0] = (n \div 2097152) \div 128
      BY <1>0, <1>2
    <3>2. val[1] = Shifted(val[0], Top(n, 2097152))
      BY <2>2
    <3> QED
      BY <1>0, <2>2, <3>1, <3>2, ByteDecoded
  <2>4. GoesOn(c[2]) /\ val[2] = n \div 16384 /\ val[2] \in Nat
    <3>1. val[1] \in Nat /\ val[1] = (n \div 16384) \div 128
      BY <1>0, <1>2, <2>3
    <3>2. val[2] = Shifted(val[1], Top(n, 16384))
      BY <2>2
    <3> QED
      BY <1>0, <2>2, <3>1, <3>2, ByteDecoded
  <2>5. GoesOn(c[3]) /\ val[3] = n \div 128 /\ val[3] \in Nat
    <3>1. val[2] \in Nat /\ val[2] = (n \div 128) \div 128
      BY <1>0, <1>2, <2>4
    <3>2. val[3] = Shifted(val[2], Top(n, 128))
      BY <2>2
    <3> QED
      BY <1>0, <2>2, <3>1, <3>2, ByteDecoded
  <2>6. ~GoesOn(c[4]) /\ val[4] = n
    <3>1. val[3] \in Nat /\ val[3] = n \div 128
      BY <1>0, <1>2, <2>5
    <3>2. val[4] = Shifted(val[3], n % 128)
      BY <2>2
    <3> QED
      BY <1>0, <2>2, <3>1, <3>2, LastDecoded
  <2> QED
    BY <2>2, <2>3, <2>4, <2>5, <2>6
<1>3. CASE n < 2097152 /\ n >= 16384
  <2>1. c = <<Top(n, 16384)>> \o <<Top(n, 128)>> \o <<n % 128>>
    BY <1>0, <1>3 DEF Code
  <2>2. Len(c) = 3 /\ c[1] = Top(n, 16384) /\ c[2] = Top(n, 128) /\ c[3] = n % 128
    BY <2>1, <1>6, Three
  <2>3. GoesOn(c[1]) /\ val[1] = n \div 16384 /\ val[1] \in Nat
    <3>1. val[0] \in Nat /\ val[0] = (n \div 16384) \div 128
      BY <1>0, <1>3
    <3>2. val[1] = Shifted(val[0], Top(n, 16384))
      BY <2>2
    <3> QED
      BY <1>0, <2>2, <3>1, <3>2, ByteDecoded
  <2>4. GoesOn(c[2]) /\ val[2] = n \div 128 /\ val[2] \in Nat
    <3>1. val[1] \in Nat /\ val[1] = (n \div 128) \div 128
      BY <1>0, <1>3, <2>3
    <3>2. val[2] = Shifted(val[1], Top(n, 128))
      BY <2>2
    <3> QED
      BY <1>0, <2>2, <3>1, <3>2, ByteDecoded
  <2>5. ~GoesOn(c[3]) /\ val[3] = n
    <3>1. val[2] \in Nat /\ val[2] = n \div 128
      BY <1>0, <1>3, <2>4
    <3>2. val[3] = Shifted(val[2], n % 128)
      BY <2>2
    <3> QED
      BY <1>0, <2>2, <3>1, <3>2, LastDecoded
  <2> QED
    BY <2>2, <2>3, <2>4, <2>5
<1>4. CASE n < 16384 /\ n >= 128
  <2>1. c = <<Top(n, 128)>> \o <<n % 128>>
    BY <1>0, <1>4 DEF Code
  <2>2. Len(c) = 2 /\ c[1] = Top(n, 128) /\ c[2] = n % 128
    BY <2>1, <1>6, Two
  <2>3. GoesOn(c[1]) /\ val[1] = n \div 128 /\ val[1] \in Nat
    <3>1. val[0] \in Nat /\ val[0] = (n \div 128) \div 128
      BY <1>0, <1>4
    <3>2. val[1] = Shifted(val[0], Top(n, 128))
      BY <2>2
    <3> QED
      BY <1>0, <2>2, <3>1, <3>2, ByteDecoded
  <2>4. ~GoesOn(c[2]) /\ val[2] = n
    <3>1. val[1] \in Nat /\ val[1] = n \div 128
      BY <1>0, <1>4, <2>3
    <3>2. val[2] = Shifted(val[1], n % 128)
      BY <2>2
    <3> QED
      BY <1>0, <2>2, <3>1, <3>2, LastDecoded
  <2> QED
    BY <2>2, <2>3, <2>4
<1>5. CASE n < 128
  <2>1. c = <<n % 128>>
    <3> DEFINE part(k) == IF n >= k THEN <<Top(n, k)>> ELSE <<>>
    <3>1. /\ part(268435456) = <<>> /\ part(2097152) = <<>>
          /\ part(16384) = <<>> /\ part(128) = <<>>
      BY <1>0, <1>5
    <3>2. c = part(268435456) \o part(2097152) \o part(16384) \o part(128) \o <<n % 128>>
      BY DEF Code
    <3> HIDE DEF c, part
    <3> QED
      BY <3>1, <3>2, One
  <2>2. Len(c) = 1 /\ c[1] = n % 128
    <3> DEFINE r == n % 128
    <3>1. Len(<<r>>) = 1 /\ <<r>>[1] = r
      OBVIOUS
    <3> QED
      BY <2>1, <3>1
  <2>3. ~GoesOn(c[1]) /\ val[1] = n
    <3>1. val[0] \in Nat /\ val[0] = n \div 128
      BY <1>0, <1>5
    <3>2. val[1] = Shifted(val[0], n % 128)
      BY <2>2
    <3> QED
      BY <1>0, <2>2, <3>1, <3>2, LastDecoded
  <2> QED
    BY <2>2, <2>3
<1> QED
  BY <1>0, <1>1, <1>2, <1>3, <1>4, <1>5

-----------------------------------------------------------------------------
(* Where the parts of a sequence of sequences are once they are joined.     *)

\* f[q] is the first q of them, joined.
Joins(f, S, ss) ==
  /\ f \in [0 .. Len(ss) -> Seq(S)] /\ f[0] = <<>>
  /\ \A q \in 1 .. Len(ss) : f[q] = f[q - 1] \o ss[q]

LEMMA Flattened ==
  ASSUME NEW S, NEW ss \in Seq(Seq(S))
  PROVE  \E f : Joins(f, S, ss) /\ f[Len(ss)] = FlattenSeq(ss)
<1> DEFINE
      n == Len(ss)
      Q == Seq(S)
      F == [q \in 1 .. n |-> [s \in Q |-> s \o ss[q]]]
      Is(g) == g = [q \in 1 .. Len(ss) |-> IF q = 1 THEN ss[q] ELSE g[q - 1] \o ss[q]]
      w == CHOOSE g : Is(g)
<1>1. n \in Nat /\ <<>> \in Q /\ \A q \in 1 .. n : ss[q] \in Q
  BY LenProperties, ElementOfSeq, EmptySeq
<1>2. F \in [1 .. n -> [Q -> Q]]
  <2>1. \A q \in 1 .. n, s \in Q : s \o ss[q] \in Q
    BY <1>1, ConcatProperties
  <2> HIDE DEF n, Q
  <2> QED BY <2>1
<1>3. HasRecursion(Q, <<>>, n, F)
  <2> HIDE DEF n, Q, F
  <2> QED BY <1>1, <1>2, RecursionExists
<1>4. PICK f \in [0 .. n -> Q] :
        f[0] = <<>> /\ \A q \in 1 .. n : f[q] = F[q][f[q - 1]]
  BY <1>3 DEF HasRecursion
<1>5. ASSUME NEW q \in 1 .. n
      PROVE  f[q] = f[q - 1] \o ss[q]
  <2>1. f[q - 1] \in Q /\ f[q] = F[q][f[q - 1]]
    <3>1. n \in Nat
      BY <1>1
    <3> HIDE DEF Q, F, n
    <3>2. q - 1 \in 0 .. n
      BY <3>1
    <3> QED BY <1>4, <3>2
  <2>2. F[q] = [s \in Q |-> s \o ss[q]]
    <3> HIDE DEF Q
    <3> QED OBVIOUS
  <2> HIDE DEF Q, F
  <2> QED BY <2>1, <2>2
<1>6. Joins(f, S, ss)
  BY <1>4, <1>5 DEF Joins
<1>7. CASE n = 0
  <2>1. ss = <<>>
    BY <1>7, EmptySeq, SeqEqual
  <2>2. FlattenSeq(ss) = <<>>
    BY <1>7, <2>1 DEF FlattenSeq
  <2> QED
    BY <1>4, <1>6, <1>7, <2>2
<1>8. CASE n # 0
  <2> DEFINE e == [q \in 1 .. n |-> f[q]]
  <2>1. Is(e)
    <3>1. f[1] = ss[1]
      <4>1. f[1] = f[0] \o ss[1] /\ ss[1] \in Q
        <5>1. 1 \in 1 .. n /\ 1 - 1 = 0
          BY <1>1, <1>8
        <5> HIDE DEF Q, F, n
        <5>2. f[1] = f[1 - 1] \o ss[1] /\ ss[1] \in Q
          BY <1>1, <1>5, <5>1
        <5> QED
          BY <5>1, <5>2
      <4> QED
        BY <1>4, <4>1, ConcatEmptySeq
    <3>2. \A q \in 1 .. n : e[q] = IF q = 1 THEN ss[q] ELSE e[q - 1] \o ss[q]
      <4> TAKE q \in 1 .. n
      <4>1. CASE q = 1
        BY <3>1, <4>1
      <4>2. CASE q # 1
        <5>1. q - 1 \in 1 .. n
          BY <1>1, <4>2
        <5>2. e[q] = f[q] /\ e[q - 1] = f[q - 1]
          BY <5>1
        <5> HIDE DEF e
        <5> QED
          BY <1>5, <4>2, <5>2
      <4> QED
        BY <4>1, <4>2
    <3>3. e = [q \in 1 .. n |-> e[q]]
      OBVIOUS
    <3> HIDE DEF e
    <3> QED
      BY <3>2, <3>3
  <2>2. Is(w)
    <3> HIDE DEF Is, e
    <3> QED BY <2>1, Zenon
  <2> HIDE DEF w
  <2> DEFINE T == {q \in 0 .. n : q = 0 \/ w[q] = f[q]}
  <2>3. 0 \in T
    BY <1>1
  <2>4. ASSUME NEW k \in 0 .. n - 1, k \in T
        PROVE  k + 1 \in T
    <3>1. k + 1 \in 1 .. n /\ (k + 1) - 1 = k
      BY <1>1
    <3>2. w[k + 1] = IF k + 1 = 1 THEN ss[k + 1] ELSE w[k] \o ss[k + 1]
      BY <2>2, <3>1
    <3>3. f[k + 1] = f[k] \o ss[k + 1] /\ ss[k + 1] \in Q
      BY <1>1, <1>5, <3>1
    <3>4. CASE k = 0
      <4>1. f[k + 1] = ss[k + 1]
        BY <1>4, <3>3, <3>4, ConcatEmptySeq
      <4> QED
        BY <1>1, <3>1, <3>2, <3>4, <4>1
    <3>5. CASE k # 0
      <4>1. w[k] = f[k]
        BY <2>4, <3>5
      <4>2. k + 1 # 1
        BY <3>5
      <4>3. w[k + 1] = f[k + 1]
        BY <3>2, <3>3, <4>1, <4>2
      <4> QED
        BY <1>1, <3>1, <4>3
    <3> QED
      BY <3>4, <3>5
  <2>5. \A k \in 0 .. n : k \in T
    <3> HIDE DEF T, n
    <3> QED BY <1>1, <2>3, <2>4, Upward
  <2>6. w[n] = f[n]
    BY <1>1, <1>8, <2>5
  <2>7. FlattenSeq(ss) = w[n]
    BY <1>8, Zenon DEF FlattenSeq, w
  <2> QED
    BY <1>6, <2>6, <2>7
<1> QED
  BY <1>7, <1>8

\* The same parts, joined, are the same.
LEMMA SameJoins ==
  ASSUME NEW S, NEW ss, NEW tt, NEW f, NEW g, Joins(f, S, ss), Joins(g, S, tt),
         Len(ss) \in Nat, Len(tt) \in 0 .. Len(ss),
         \A q \in 1 .. Len(tt) : tt[q] = ss[q]
  PROVE  g[Len(tt)] = f[Len(tt)]
<1> DEFINE m == Len(tt)
           T == {k \in 0 .. m : g[k] = f[k]}
<1>1. m \in Nat /\ m <= Len(ss)
  OBVIOUS
<1>2. 0 \in T
  BY <1>1 DEF Joins
<1>3. ASSUME NEW k \in 0 .. m - 1, k \in T
      PROVE  k + 1 \in T
  <2>1. k + 1 \in 1 .. m /\ k + 1 \in 1 .. Len(ss) /\ (k + 1) - 1 = k
    BY <1>1
  <2>2. g[k + 1] = g[k] \o tt[k + 1] /\ f[k + 1] = f[k] \o ss[k + 1]
    BY <2>1 DEF Joins
  <2>3. g[k] = f[k] /\ tt[k + 1] = ss[k + 1]
    BY <1>3, <2>1
  <2>4. g[k + 1] = f[k + 1] /\ k + 1 \in 0 .. m
    BY <1>1, <2>1, <2>2, <2>3
  <2> QED
    BY <2>4
<1>4. \A k \in 0 .. m : k \in T
  <2> HIDE DEF T, m
  <2> QED BY <1>1, <1>2, <1>3, Upward
<1> QED
  BY <1>1, <1>4

\* How long the joined parts are, and where each of them is.
Grows(f, ss, q) ==
  /\ Len(ss[q]) \in Nat /\ Len(f[q - 1]) \in Nat
  /\ Len(f[q]) = Len(f[q - 1]) + Len(ss[q])
  /\ \A t \in 1 .. Len(f[q - 1]) : f[q][t] = f[q - 1][t]
  /\ \A t \in 1 .. Len(ss[q]) : f[q][Len(f[q - 1]) + t] = ss[q][t]

LEMMA Grown ==
  ASSUME NEW S, NEW ss \in Seq(Seq(S)), NEW f, Joins(f, S, ss), NEW q \in 1 .. Len(ss)
  PROVE  Grows(f, ss, q)
<1>1. Len(ss) \in Nat
  BY LenProperties
<1>2. ss[q] \in Seq(S)
  BY ElementOfSeq
<1>3. f[q - 1] \in Seq(S) /\ f[q] = f[q - 1] \o ss[q]
  <2> DEFINE n == Len(ss)
             Q == Seq(S)
  <2>1. q - 1 \in 0 .. n
    BY <1>1
  <2>2. f \in [0 .. n -> Q] /\ \A j \in 1 .. n : f[j] = f[j - 1] \o ss[j]
    BY DEF Joins
  <2> HIDE DEF n, Q
  <2>3. f[q - 1] \in Q
    BY <2>1, <2>2
  <2> QED
    BY <2>2, <2>3 DEF n, Q
<1>4. Len(ss[q]) \in Nat /\ Len(f[q - 1]) \in Nat
  BY <1>2, <1>3, LenProperties
<1> DEFINE a == f[q - 1]
           b == ss[q]
           c == f[q]
<1>5. /\ c \in Seq(S) /\ Len(c) = Len(a) + Len(b)
      /\ \A t \in 1 .. Len(a) + Len(b) : c[t] = IF t <= Len(a) THEN a[t] ELSE b[t - Len(a)]
  <2>1. a \in Seq(S) /\ b \in Seq(S) /\ c = a \o b
    BY <1>2, <1>3
  <2> HIDE DEF a, b, c
  <2> QED
    BY <2>1, ConcatProperties
<1> HIDE DEF a, b, c
<1>6. Len(a) \in Nat /\ Len(b) \in Nat
  BY <1>4 DEF a, b
<1>7. \A t \in 1 .. Len(a) : c[t] = a[t]
  <2> TAKE t \in 1 .. Len(a)
  <2>1. t \in 1 .. Len(a) + Len(b) /\ t <= Len(a)
    BY <1>6
  <2> QED
    BY <1>5, <2>1
<1>8. \A t \in 1 .. Len(b) : c[Len(a) + t] = b[t]
  <2> TAKE t \in 1 .. Len(b)
  <2>1. /\ Len(a) + t \in 1 .. Len(a) + Len(b) /\ ~(Len(a) + t <= Len(a))
        /\ (Len(a) + t) - Len(a) = t
    BY <1>6
  <2> QED
    BY <1>5, <2>1
<1> QED
  BY <1>5, <1>6, <1>7, <1>8 DEF a, b, c, Grows

Stays(f, ss, q, j) ==
  /\ Len(f[j]) \in Nat /\ Len(f[j]) >= Len(f[q])
  /\ \A t \in 1 .. Len(ss[q]) : f[j][Len(f[q - 1]) + t] = ss[q][t]

LEMMA Placed ==
  ASSUME NEW S, NEW ss \in Seq(Seq(S)), NEW f, Joins(f, S, ss), NEW q \in 1 .. Len(ss)
  PROVE  \A j \in q .. Len(ss) : Stays(f, ss, q, j)
<1> DEFINE
      n == Len(ss)
      l == Len(f[q - 1])
      r == Len(ss[q])
      At(j) == /\ Len(f[j]) \in Nat /\ Len(f[j]) >= l + r
               /\ \A t \in 1 .. r : f[j][l + t] = ss[q][t]
      T == {d \in 0 .. n - q : At(q + d)}
<1>1. n \in Nat /\ q \in Nat /\ n - q \in Nat
  BY LenProperties
<1>9. Grows(f, ss, q)
  BY Grown
<1>2. l \in Nat /\ r \in Nat
  BY <1>9 DEF Grows
<1>3. Len(f[q]) = l + r
  BY <1>9 DEF Grows
<1>4. \A t \in 1 .. r : f[q][l + t] = ss[q][t]
  BY <1>9 DEF Grows
<1> HIDE DEF l, r
<1>5. 0 \in T
  <2>1. At(q)
    BY <1>2, <1>3, <1>4
  <2>2. q + 0 = q /\ 0 \in 0 .. n - q
    BY <1>1
  <2> HIDE DEF At
  <2> QED BY <2>1, <2>2
<1>6. ASSUME NEW d \in 0 .. (n - q) - 1, d \in T
      PROVE  d + 1 \in T
  <2> DEFINE j == q + d
             k == j + 1
  <2>1. /\ k \in 1 .. n /\ k - 1 = j /\ q + (d + 1) = k /\ d + 1 \in 0 .. n - q
    <3>1. d \in Nat /\ d + 1 <= n - q /\ q >= 1
      BY <1>1
    <3> HIDE DEF n
    <3>2. q + d + 1 \in 1 .. n
      BY <1>1, <3>1
    <3>3. (q + d + 1) - 1 = q + d /\ q + (d + 1) = q + d + 1
      BY <1>1, <3>1
    <3>4. d + 1 \in 0 .. n - q
      BY <1>1, <3>1
    <3> QED
      BY <3>2, <3>3, <3>4
  <2>10. Grows(f, ss, k)
    <3> HIDE DEF j, k
    <3> QED
      BY <2>1, Grown
  <2>2. At(j)
    BY <1>6
  <2> HIDE DEF j, k
  <2> DEFINE g == f[j]
             h == f[k]
             u == ss[k]
  <2>3. Len(u) \in Nat
    BY <2>10 DEF Grows
  <2>4. Len(h) = Len(g) + Len(u)
    BY <2>1, <2>10 DEF Grows
  <2>5. \A t \in 1 .. Len(g) : h[t] = g[t]
    BY <2>1, <2>10 DEF Grows
  <2>6. Len(g) \in Nat /\ Len(g) >= l + r /\ \A t \in 1 .. r : g[l + t] = ss[q][t]
    BY <2>2
  <2> HIDE DEF g, h, u
  <2>7. Len(h) \in Nat /\ Len(h) >= l + r
    BY <1>2, <2>3, <2>4, <2>6
  <2>8. ASSUME NEW t \in 1 .. r
        PROVE  h[l + t] = ss[q][t]
    <3>1. l + t \in 1 .. Len(g)
      BY <1>2, <2>6
    <3> QED
      BY <2>5, <2>6, <3>1
  <2>9. At(k)
    BY <2>7, <2>8 DEF h
  <2> HIDE DEF At
  <2> QED
    BY <2>1, <2>9
<1>7. \A d \in 0 .. n - q : d \in T
  <2> DEFINE m == n - q
  <2>1. \A d \in 0 .. m - 1 : d \in T => d + 1 \in T
    <3> HIDE DEF T
    <3> QED BY <1>6
  <2>2. m \in Nat /\ 0 \in T
    BY <1>1, <1>5
  <2> HIDE DEF T, m
  <2>3. \A d \in 0 .. m : d \in T
    BY <2>1, <2>2, Upward
  <2> QED BY <2>3 DEF m
<1>8. ASSUME NEW j \in q .. n
      PROVE  At(j)
  <2>1. j - q \in 0 .. n - q /\ q + (j - q) = j
    BY <1>1
  <2>2. j - q \in T
    <3> HIDE DEF T
    <3> QED BY <1>7, <2>1
  <2>3. At(q + (j - q))
    <3> HIDE DEF At
    <3> QED BY <2>2
  <2> HIDE DEF At
  <2> QED
    BY <2>1, <2>3
<1> QED
  BY <1>3, <1>8 DEF l, r, Stays

-----------------------------------------------------------------------------
(* How the bytes of an answer are laid out.                                 *)

Byte == 0 .. 255

\* Three sequences, joined.
LEMMA ThreeParts ==
  ASSUME NEW S, NEW x \in Seq(S), NEW y \in Seq(S), NEW z \in Seq(S)
  PROVE  /\ x \o y \o z \in Seq(S) /\ Len(x \o y \o z) = Len(x) + Len(y) + Len(z)
         /\ \A t \in 1 .. Len(x) : (x \o y \o z)[t] = x[t]
         /\ \A t \in 1 .. Len(y) : (x \o y \o z)[Len(x) + t] = y[t]
         /\ \A t \in 1 .. Len(z) : (x \o y \o z)[(Len(x) + Len(y)) + t] = z[t]
<1> DEFINE u == x \o y
           v == u \o z
<1>1. /\ u \in Seq(S) /\ Len(u) = Len(x) + Len(y)
      /\ \A t \in 1 .. Len(x) + Len(y) : u[t] = IF t <= Len(x) THEN x[t] ELSE y[t - Len(x)]
  BY ConcatProperties
<1>2. Len(x) \in Nat /\ Len(y) \in Nat /\ Len(z) \in Nat
  BY LenProperties
<1>7. u \in Seq(S)
  BY <1>1
<1> HIDE DEF u
<1>3. /\ v \in Seq(S) /\ Len(v) = Len(u) + Len(z)
      /\ \A t \in 1 .. Len(u) + Len(z) : v[t] = IF t <= Len(u) THEN u[t] ELSE z[t - Len(u)]
  BY <1>7, ConcatProperties
<1> HIDE DEF v
<1>4. ASSUME NEW t \in 1 .. Len(x)
      PROVE  v[t] = x[t]
  <2>1. /\ t \in 1 .. Len(x) + Len(y) /\ t <= Len(x)
        /\ t \in 1 .. Len(u) + Len(z) /\ t <= Len(u)
    BY <1>1, <1>2
  <2> QED
    BY <1>1, <1>3, <2>1
<1>5. ASSUME NEW t \in 1 .. Len(y)
      PROVE  v[Len(x) + t] = y[t]
  <2>1. /\ Len(x) + t \in 1 .. Len(x) + Len(y) /\ ~(Len(x) + t <= Len(x))
        /\ Len(x) + t \in 1 .. Len(u) + Len(z) /\ Len(x) + t <= Len(u)
        /\ (Len(x) + t) - Len(x) = t
    BY <1>1, <1>2
  <2>2. v[Len(x) + t] = u[Len(x) + t]
    BY <1>3, <2>1
  <2>3. u[Len(x) + t] = y[t]
    BY <1>1, <2>1
  <2> QED
    BY <2>2, <2>3
<1>6. ASSUME NEW t \in 1 .. Len(z)
      PROVE  v[(Len(x) + Len(y)) + t] = z[t]
  <2>1. /\ Len(u) + t \in 1 .. Len(u) + Len(z) /\ ~(Len(u) + t <= Len(u))
        /\ (Len(u) + t) - Len(u) = t
    BY <1>1, <1>2
  <2>2. v[Len(u) + t] = z[t]
    BY <1>3, <2>1
  <2> QED
    BY <1>1, <2>2
<1> QED
  BY <1>1, <1>2, <1>3, <1>4, <1>5, <1>6 DEF u, v

\* The code of a length.
LEMMA CodeTyped ==
  ASSUME NEW n, Codable(n)
  PROVE  Code(n) \in Seq(Byte) /\ Len(Code(n)) \in Nat \ {0}
<1> DEFINE
      part(k) == IF n >= k THEN <<Top(n, k)>> ELSE <<>>
      a == part(268435456)
      b == part(2097152)
      c == part(16384)
      d == part(128)
      e == <<n % 128>>
<1>1. n \in Nat
  BY BufferAssumption DEF Codable
<1>2. ASSUME NEW k \in Nat \ {0}
      PROVE  part(k) \in Seq(Byte)
  <2> DEFINE x == n \div k
  <2>1. x \in Nat
    BY <1>1
  <2> HIDE DEF x
  <2>2. 128 + (x % 128) \in Byte
    BY <2>1 DEF Byte
  <2>3. Top(n, k) \in Byte
    BY <2>2 DEF Top, x
  <2>4. <<Top(n, k)>> \in Seq(Byte)
    BY <2>3
  <2> QED
    BY <2>4, EmptySeq
<1>3. a \in Seq(Byte) /\ b \in Seq(Byte) /\ c \in Seq(Byte) /\ d \in Seq(Byte)
  <2> HIDE DEF part
  <2> QED BY <1>2
<1>4. e \in Seq(Byte) /\ Len(e) = 1
  <2>1. n % 128 \in Byte
    BY <1>1 DEF Byte
  <2> QED
    BY <2>1
<1>5. Code(n) = a \o b \o c \o d \o e
  BY DEF Code
<1> HIDE DEF a, b, c, d, e
<1>6. a \o b \o c \in Seq(Byte)
  BY <1>3, ConcatProperties
<1>7. (a \o b \o c) \o d \o e \in Seq(Byte)
      /\ Len((a \o b \o c) \o d \o e) = Len(a \o b \o c) + Len(d) + Len(e)
  <2> DEFINE f == a \o b \o c
  <2> HIDE DEF f
  <2>1. f \in Seq(Byte)
    BY <1>6 DEF f
  <2>2. f \o d \o e \in Seq(Byte) /\ Len(f \o d \o e) = Len(f) + Len(d) + Len(e)
    <3>1. f \o d \in Seq(Byte) /\ Len(f \o d) = Len(f) + Len(d)
      BY <1>3, <2>1, ConcatProperties
    <3> DEFINE g == f \o d
    <3>2. g \in Seq(Byte)
      BY <3>1
    <3> HIDE DEF g
    <3>3. g \o e \in Seq(Byte) /\ Len(g \o e) = Len(g) + Len(e)
      BY <1>4, <3>2, ConcatProperties
    <3> QED
      BY <3>1, <3>3 DEF g
  <2> QED
    BY <2>2 DEF f
<1>8. Len(a \o b \o c) \in Nat /\ Len(d) \in Nat
  BY <1>3, <1>6, LenProperties
<1> QED
  BY <1>4, <1>5, <1>7, <1>8

\* A length and the string behind it.
Size(n) == Len(Code(n)) + n

LEMMA FilledTyped ==
  ASSUME NEW n, Codable(n)
  PROVE  /\ Filled(n) \in Seq(Byte) /\ Len(Filled(n)) = Size(n) /\ Size(n) \in Nat
         /\ \A t \in 1 .. Len(Code(n)) : Filled(n)[t] = Code(n)[t]
<1> DEFINE c == Code(n)
           s == [k \in 1 .. n |-> 65]
<1>1. c \in Seq(Byte) /\ Len(c) \in Nat /\ n \in Nat
  BY CodeTyped, BufferAssumption DEF Codable
<1>2. s \in Seq(Byte) /\ Len(s) = n
  BY <1>1 DEF Byte
<1>3. Filled(n) = c \o s
  BY DEF Filled
<1> HIDE DEF c, s
<1>4. /\ c \o s \in Seq(Byte) /\ Len(c \o s) = Len(c) + Len(s)
      /\ \A t \in 1 .. Len(c) + Len(s) :
           (c \o s)[t] = IF t <= Len(c) THEN c[t] ELSE s[t - Len(c)]
  BY <1>1, <1>2, ConcatProperties
<1>5. \A t \in 1 .. Len(c) : t \in 1 .. Len(c) + Len(s) /\ t <= Len(c)
  BY <1>1, <1>2
<1> QED
  BY <1>1, <1>2, <1>3, <1>4, <1>5 DEF Size, c

LEMMA StringsTyped ==
  ASSUME NEW d, Codable(d.url), Codable(d.st), Codable(d.usn)
  PROVE  /\ Strings(d) \in Seq(Byte)
         /\ Size(d.url) \in Nat /\ Size(d.st) \in Nat /\ Size(d.usn) \in Nat
         /\ Len(Strings(d)) = Size(d.url) + Size(d.st) + Size(d.usn)
         /\ \A t \in 1 .. Len(Code(d.url)) : Strings(d)[t] = Code(d.url)[t]
         /\ \A t \in 1 .. Len(Code(d.st)) :
              Strings(d)[Size(d.url) + t] = Code(d.st)[t]
         /\ \A t \in 1 .. Len(Code(d.usn)) :
              Strings(d)[(Size(d.url) + Size(d.st)) + t] = Code(d.usn)[t]
<1> DEFINE x == Filled(d.url)
           y == Filled(d.st)
           z == Filled(d.usn)
           s == x \o y \o z
<1>1. x \in Seq(Byte) /\ y \in Seq(Byte) /\ z \in Seq(Byte)
  BY FilledTyped
<1>2. /\ Len(x) = Size(d.url) /\ Len(y) = Size(d.st) /\ Len(z) = Size(d.usn)
      /\ Size(d.url) \in Nat /\ Size(d.st) \in Nat /\ Size(d.usn) \in Nat
  BY FilledTyped
<1>3. /\ \A t \in 1 .. Len(Code(d.url)) : x[t] = Code(d.url)[t]
      /\ \A t \in 1 .. Len(Code(d.st)) : y[t] = Code(d.st)[t]
      /\ \A t \in 1 .. Len(Code(d.usn)) : z[t] = Code(d.usn)[t]
  BY FilledTyped
<1>4. Strings(d) = s
  BY DEF Strings
<1>5. ASSUME NEW n, Codable(n)
      PROVE  1 .. Len(Code(n)) \subseteq 1 .. Size(n)
  <2>1. Len(Code(n)) \in Nat /\ n \in Nat
    BY <1>5, CodeTyped, BufferAssumption DEF Codable
  <2> QED
    BY <2>1 DEF Size
<1>6. /\ 1 .. Len(Code(d.url)) \subseteq 1 .. Len(x)
      /\ 1 .. Len(Code(d.st)) \subseteq 1 .. Len(y)
      /\ 1 .. Len(Code(d.usn)) \subseteq 1 .. Len(z)
  BY <1>2, <1>5
<1> HIDE DEF x, y, z
<1>7. s \in Seq(Byte) /\ Len(s) = Len(x) + Len(y) + Len(z)
  BY <1>1, ThreeParts
<1>8. \A t \in 1 .. Len(x) : s[t] = x[t]
  BY <1>1, ThreeParts
<1>9. \A t \in 1 .. Len(y) : s[Len(x) + t] = y[t]
  BY <1>1, ThreeParts
<1>10. \A t \in 1 .. Len(z) : s[(Len(x) + Len(y)) + t] = z[t]
  BY <1>1, ThreeParts
<1> HIDE DEF s
<1>11. \A t \in 1 .. Len(Code(d.url)) : s[t] = Code(d.url)[t]
  BY <1>3, <1>6, <1>8
<1>12. \A t \in 1 .. Len(Code(d.st)) : s[Size(d.url) + t] = Code(d.st)[t]
  BY <1>2, <1>3, <1>6, <1>9
<1>13. \A t \in 1 .. Len(Code(d.usn)) :
         s[(Size(d.url) + Size(d.st)) + t] = Code(d.usn)[t]
  BY <1>2, <1>3, <1>6, <1>10
<1> QED
  BY <1>2, <1>4, <1>7, <1>11, <1>12, <1>13

\* The strings of all devices.
AllStrings(a) == [k \in DOMAIN a |-> Strings(a[k])]

Devices(a) ==
  /\ Len(a) \in 0 .. 255 /\ DOMAIN a = 1 .. Len(a)
  /\ \A k \in 1 .. Len(a) : Codable(a[k].url) /\ Codable(a[k].st) /\ Codable(a[k].usn)
  /\ AllStrings(a) \in Seq(Seq(Byte)) /\ Len(AllStrings(a)) = Len(a)
  /\ \A k \in 1 .. Len(a) : AllStrings(a)[k] = Strings(a[k])

LEMMA AnswerTyped ==
  ASSUME NEW m \in Answers, WellFormed(m)
  PROVE  Devices(m.devices)
<1> DEFINE a == m.devices
           n == Len(a)
<1>1. n \in Nat /\ n <= 255 /\ DOMAIN a = 1 .. n
  BY LenProperties DEF WellFormed
<1>2. \A k \in 1 .. n : Codable(a[k].url) /\ Codable(a[k].st) /\ Codable(a[k].usn)
  BY <1>1 DEF WellFormed
<1> HIDE DEF a
<1>3. \A k \in 1 .. n : Strings(a[k]) \in Seq(Byte)
  BY <1>2, StringsTyped
<1>4. AllStrings(a) = [k \in 1 .. n |-> Strings(a[k])]
  BY <1>1 DEF AllStrings
<1> HIDE DEF n
<1> DEFINE Q == Seq(Byte)
<1>5. [k \in 1 .. n |-> Strings(a[k])] \in Seq(Q)
  <2> HIDE DEF Q
  <2>1. \A k \in 1 .. n : Strings(a[k]) \in Q
    BY <1>3 DEF Q
  <2> QED
    BY <1>1, <2>1
<1>6. Len([k \in 1 .. n |-> Strings(a[k])]) = n
  BY <1>1
<1>7. AllStrings(a) \in Seq(Q) /\ Len(AllStrings(a)) = n
  <2> HIDE DEF Q
  <2> QED BY <1>4, <1>5, <1>6
<1>8. \A k \in 1 .. n : AllStrings(a)[k] = Strings(a[k])
  BY <1>4
<1>9. n \in 0 .. 255
  BY <1>1
<1> HIDE DEF Q
<1>10. Devices(a)
  BY <1>1, <1>2, <1>7, <1>8, <1>9 DEF n, Q, Devices
<1> QED
  BY <1>10 DEF a

LEMMA Laying ==
  ASSUME NEW m \in Answers, WellFormed(m)
  PROVE  \E f : /\ Joins(f, Byte, AllStrings(m.devices))
                /\ m.bytes = <<Len(m.devices)>> \o f[Len(m.devices)]
                /\ \A k \in 1 .. Len(m.devices) + 1 :
                     Before(m.devices, k) = 1 + Len(f[k - 1])
<1> DEFINE a == m.devices
           n == Len(a)
           ss == AllStrings(a)
           Q == Seq(Byte)
<1>1. /\ n \in Nat /\ ss \in Seq(Q) /\ Len(ss) = n
      /\ \A k \in 1 .. n : ss[k] = Strings(a[k])
  <2>1. Devices(a)
    BY AnswerTyped
  <2> HIDE DEF a
  <2> QED BY <2>1 DEF Devices
<1>2. PICK f : Joins(f, Byte, ss) /\ f[Len(ss)] = FlattenSeq(ss)
  <2> HIDE DEF ss
  <2> QED BY <1>1, Flattened
<1>3. m.bytes = <<n>> \o f[n]
  BY <1>1, <1>2 DEF WellFormed, Bytes, AllStrings
<1>4. ASSUME NEW k \in 1 .. n + 1
      PROVE  Before(a, k) = 1 + Len(f[k - 1])
  <2> DEFINE l == k - 1
             tt == [q \in 1 .. l |-> Strings(a[q])]
  <2>1. l \in Nat /\ l <= n
    BY <1>1
  <2> HIDE DEF l
  <2>2. \A q \in 1 .. l : q \in 1 .. n
    BY <1>1, <2>1
  <2>3. \A q \in 1 .. l : Strings(a[q]) \in Q
    <3>1. \A q \in 1 .. n : ss[q] \in Q
      <4> HIDE DEF ss, Q
      <4> QED BY <1>1, ElementOfSeq
    <3> QED
      BY <1>1, <2>2, <3>1
  <2>4. tt \in Seq(Q) /\ Len(tt) = l
    <3> HIDE DEF Q
    <3> QED BY <2>1, <2>3
  <2>5. \A q \in 1 .. l : tt[q] = ss[q]
    BY <1>1, <2>2
  <2> HIDE DEF tt, ss
  <2>6. PICK g : Joins(g, Byte, tt) /\ g[Len(tt)] = FlattenSeq(tt)
    BY <2>4, Flattened
  <2>7. g[Len(tt)] = f[Len(tt)]
    <3>1. Len(ss) \in Nat /\ Len(tt) \in 0 .. Len(ss)
      BY <1>1, <2>1, <2>4
    <3>2. \A q \in 1 .. Len(tt) : tt[q] = ss[q]
      BY <2>4, <2>5
    <3> QED
      BY <1>2, <2>6, <3>1, <3>2, SameJoins
  <2>8. FlattenSeq(tt) = f[l]
    BY <2>4, <2>6, <2>7
  <2>9. Before(a, k) = 1 + Len(FlattenSeq(tt))
    BY DEF Before, tt, l
  <2> QED
    BY <2>8, <2>9 DEF l
<1> QED
  BY <1>2, <1>3, <1>4

\* The last byte of each string of the k-th device.
UrlEnd(a, k) == Before(a, k) + Size(a[k].url)
StEnd(a, k) == UrlEnd(a, k) + Size(a[k].st)
UsnEnd(a, k) == StEnd(a, k) + Size(a[k].usn)

\* The bytes of the code of n are behind the l-th byte of x, and with a string
\* of that length inside it.
CodeAt(x, l, n) ==
  /\ l \in Nat \ {0} /\ Codable(n) /\ l + Size(n) <= Len(x)
  /\ \A t \in 1 .. Len(Code(n)) : x[l + t] = Code(n)[t]

Laid(m, k) ==
  LET a == m.devices
  IN  /\ CodeAt(m.bytes, Before(a, k), a[k].url)
      /\ CodeAt(m.bytes, UrlEnd(a, k), a[k].st)
      /\ CodeAt(m.bytes, StEnd(a, k), a[k].usn)
      /\ Before(a, k + 1) = UsnEnd(a, k)

LEMMA BytesLaid ==
  ASSUME NEW m \in Answers, WellFormed(m), NEW k \in 1 .. Len(m.devices)
  PROVE  Laid(m, k)
<1> DEFINE a == m.devices
           n == Len(a)
           ss == AllStrings(a)
           x == m.bytes
           s == Strings(a[k])
<1>1. PICK f : /\ Joins(f, Byte, ss) /\ x = <<n>> \o f[n]
               /\ \A q \in 1 .. n + 1 : Before(a, q) = 1 + Len(f[q - 1])
  BY Laying
<1>2. Devices(a)
  BY AnswerTyped
<1> HIDE DEF a
<1>3. n \in Nat /\ n <= 255 /\ ss \in Seq(Seq(Byte)) /\ Len(ss) = n /\ ss[k] = s
  <2>1. n \in 0 .. 255 /\ k \in 1 .. n
    BY <1>2, Zenon DEF Devices, a
  <2>2. ss \in Seq(Seq(Byte)) /\ Len(ss) = n
    BY <1>2, Zenon DEF Devices
  <2>3. ss[k] = s
    BY <1>2, <2>1, Zenon DEF Devices
  <2> HIDE DEF n, ss, s
  <2> QED
    BY <2>1, <2>2, <2>3
<1>4. Codable(a[k].url) /\ Codable(a[k].st) /\ Codable(a[k].usn)
  BY <1>2 DEF Devices, a
<1> DEFINE l == Len(f[k - 1])
           r == Len(s)
           u == Size(a[k].url)
           v == Size(a[k].st)
           w == Size(a[k].usn)
<1>5. u \in Nat /\ v \in Nat /\ w \in Nat /\ r = u + v + w
  BY <1>4, StringsTyped
<1>6. Len(f[k]) = l + r /\ l \in Nat /\ k \in 1 .. n
  <2>1. k \in 1 .. Len(ss)
    BY <1>3 DEF a
  <2>2. Grows(f, ss, k)
    <3> HIDE DEF ss
    <3> QED BY <1>1, <1>3, <2>1, Grown
  <2> QED
    BY <1>3, <2>1, <2>2 DEF Grows
<1>7. /\ Len(f[n]) \in Nat /\ Len(f[n]) >= l + r
      /\ \A t \in 1 .. r : f[n][l + t] = s[t]
  <2>1. k \in 1 .. Len(ss) /\ Len(ss) \in k .. Len(ss)
    BY <1>3, <1>6
  <2>2. /\ Len(f[Len(ss)]) \in Nat /\ Len(f[Len(ss)]) >= Len(f[k])
        /\ \A t \in 1 .. Len(ss[k]) : f[Len(ss)][Len(f[k - 1]) + t] = ss[k][t]
    <3>1. Stays(f, ss, k, Len(ss))
      <4> HIDE DEF ss
      <4> QED BY <1>1, <1>3, <2>1, Placed
    <3> HIDE DEF ss
    <3> QED BY <3>1 DEF Stays
  <2> QED
    BY <1>3, <1>6, <2>2
<1>8. f[n] \in Seq(Byte)
  <2> DEFINE Q == Seq(Byte)
  <2>1. f \in [0 .. n -> Q] /\ n \in 0 .. n
    BY <1>1, <1>3 DEF Joins
  <2> HIDE DEF Q, n
  <2>2. f[n] \in Q
    BY <2>1
  <2> QED
    BY <2>2 DEF Q
<1>9. /\ Len(x) = 1 + Len(f[n])
      /\ \A t \in 1 .. Len(f[n]) : x[1 + t] = f[n][t]
  <2> DEFINE g == f[n]
             h == <<n>>
  <2>1. h \in Seq(Byte) /\ Len(h) = 1
    <3>1. n \in Nat /\ n <= 255
      BY <1>3
    <3> HIDE DEF n
    <3>2. n \in Byte
      BY <3>1 DEF Byte
    <3> QED BY <3>2
  <2>2. g \in Seq(Byte) /\ Len(g) \in Nat
    BY <1>7, <1>8
  <2>3. x = h \o g
    BY <1>1
  <2> HIDE DEF g, h, x
  <2>4. /\ Len(x) = Len(h) + Len(g)
        /\ \A t \in 1 .. Len(h) + Len(g) :
             x[t] = IF t <= Len(h) THEN h[t] ELSE g[t - Len(h)]
    BY <2>1, <2>2, <2>3, ConcatProperties
  <2>5. ASSUME NEW t \in 1 .. Len(g)
        PROVE  x[1 + t] = g[t]
    <3>1. 1 + t \in 1 .. Len(h) + Len(g) /\ ~(1 + t <= Len(h)) /\ (1 + t) - Len(h) = t
      BY <2>1, <2>2
    <3> QED
      BY <2>4, <3>1
  <2> QED
    BY <2>1, <2>4, <2>5 DEF g
<1>10. Before(a, k) = 1 + l
  BY <1>1, <1>3, <1>6
<1>11. Before(a, k + 1) = 1 + (l + r)
  <2>1. k + 1 \in 1 .. n + 1 /\ (k + 1) - 1 = k
    BY <1>3, <1>6
  <2> QED
    BY <1>1, <1>6, <2>1
<1>12. ASSUME NEW t \in 1 .. r
       PROVE  x[(1 + l) + t] = s[t]
  <2>1. l + t \in 1 .. Len(f[n]) /\ 1 + (l + t) = (1 + l) + t
    <3> DEFINE z == Len(f[n])
    <3>1. z \in Nat /\ z >= l + r /\ l \in Nat /\ r \in Nat
      BY <1>5, <1>6, <1>7
    <3> HIDE DEF z, l, r
    <3>2. l + t \in 1 .. z /\ 1 + (l + t) = (1 + l) + t
      BY <3>1
    <3> QED BY <3>2 DEF z
  <2> QED
    BY <1>7, <1>9, <2>1
<1>13. ASSUME NEW c, Codable(c)
       PROVE  1 .. Len(Code(c)) \subseteq 1 .. Size(c)
  <2>1. Len(Code(c)) \in Nat /\ c \in Nat
    BY <1>13, CodeTyped, BufferAssumption DEF Codable
  <2> QED
    BY <2>1 DEF Size
<1>14. Len(x) \in Nat /\ 1 + l + r <= Len(x)
  <2> DEFINE z == Len(f[n])
             y == Len(x)
  <2>1. r \in Nat
    BY <1>5
  <2>2. l \in Nat /\ z \in Nat /\ z >= l + r
    BY <1>6, <1>7
  <2>3. y = 1 + z
    BY <1>9
  <2> HIDE DEF l, r, y, z
  <2>4. y \in Nat /\ 1 + l + r <= y
    BY <2>1, <2>2, <2>3
  <2> QED BY <2>4 DEF y
<1> DEFINE cu == Code(a[k].url)
           cv == Code(a[k].st)
           cw == Code(a[k].usn)
<1>15. /\ \A t \in 1 .. Len(cu) : t \in 1 .. u /\ s[t] = cu[t]
       /\ \A t \in 1 .. Len(cv) : t \in 1 .. v /\ s[u + t] = cv[t]
       /\ \A t \in 1 .. Len(cw) : t \in 1 .. w /\ s[(u + v) + t] = cw[t]
  <2> DEFINE d == a[k]
  <2>1. Codable(d.url) /\ Codable(d.st) /\ Codable(d.usn)
    BY <1>4
  <2> HIDE DEF d
  <2>2. \A t \in 1 .. Len(Code(d.url)) : Strings(d)[t] = Code(d.url)[t]
    BY <2>1, StringsTyped
  <2>3. \A t \in 1 .. Len(Code(d.st)) : Strings(d)[Size(d.url) + t] = Code(d.st)[t]
    BY <2>1, StringsTyped
  <2>4. \A t \in 1 .. Len(Code(d.usn)) :
          Strings(d)[(Size(d.url) + Size(d.st)) + t] = Code(d.usn)[t]
    BY <2>1, StringsTyped
  <2>5. /\ \A t \in 1 .. Len(Code(d.url)) : t \in 1 .. Size(d.url)
        /\ \A t \in 1 .. Len(Code(d.st)) : t \in 1 .. Size(d.st)
        /\ \A t \in 1 .. Len(Code(d.usn)) : t \in 1 .. Size(d.usn)
    BY <1>13, <2>1
  <2> QED
    BY <2>2, <2>3, <2>4, <2>5 DEF d
<1> HIDE DEF l, r, u, v, w, s, x, cu, cv, cw
<1>16. \A t \in 1 .. Len(cu) : x[(1 + l) + t] = cu[t]
  <2> TAKE t \in 1 .. Len(cu)
  <2>1. t \in 1 .. r
    BY <1>5, <1>15
  <2> QED
    BY <1>12, <1>15, <2>1
<1>17. \A t \in 1 .. Len(cv) : x[((1 + l) + u) + t] = cv[t]
  <2> TAKE t \in 1 .. Len(cv)
  <2>1. t \in 1 .. v
    BY <1>15
  <2>2. u + t \in 1 .. r /\ (1 + l) + (u + t) = ((1 + l) + u) + t
    BY <1>5, <1>6, <2>1
  <2>3. x[(1 + l) + (u + t)] = s[u + t]
    BY <1>12, <2>2
  <2> QED
    BY <1>15, <2>2, <2>3
<1>18. \A t \in 1 .. Len(cw) : x[(((1 + l) + u) + v) + t] = cw[t]
  <2> TAKE t \in 1 .. Len(cw)
  <2>1. t \in 1 .. w
    BY <1>15
  <2>2. (u + v) + t \in 1 .. r /\ (1 + l) + ((u + v) + t) = (((1 + l) + u) + v) + t
    BY <1>5, <1>6, <2>1
  <2>3. x[(1 + l) + ((u + v) + t)] = s[(u + v) + t]
    BY <1>12, <2>2
  <2> QED
    BY <1>15, <2>2, <2>3
<1>19. /\ 1 + l \in Nat \ {0} /\ (1 + l) + u <= Len(x)
       /\ (1 + l) + u \in Nat \ {0} /\ ((1 + l) + u) + v <= Len(x)
       /\ ((1 + l) + u) + v \in Nat \ {0} /\ (((1 + l) + u) + v) + w <= Len(x)
       /\ 1 + (l + r) = (((1 + l) + u) + v) + w
  BY <1>5, <1>6, <1>14
<1>20. /\ UrlEnd(a, k) = (1 + l) + u /\ StEnd(a, k) = ((1 + l) + u) + v
       /\ UsnEnd(a, k) = (((1 + l) + u) + v) + w
  BY <1>10 DEF UrlEnd, StEnd, UsnEnd, u, v, w
<1>21. CodeAt(x, Before(a, k), a[k].url)
  BY <1>4, <1>10, <1>16, <1>19 DEF CodeAt, cu, u
<1>22. CodeAt(x, UrlEnd(a, k), a[k].st)
  BY <1>4, <1>17, <1>19, <1>20 DEF CodeAt, cv, v
<1>23. CodeAt(x, StEnd(a, k), a[k].usn)
  BY <1>4, <1>18, <1>19, <1>20 DEF CodeAt, cw, w
<1>24. Before(a, k + 1) = UsnEnd(a, k)
  BY <1>11, <1>19, <1>20
<1> QED
  BY <1>21, <1>22, <1>23, <1>24 DEF Laid, a, x

LEMMA FirstBytes ==
  ASSUME NEW m \in Answers, WellFormed(m)
  PROVE  /\ m.bytes \in Seq(Byte) /\ Len(m.bytes) \in Nat \ {0}
         /\ m.bytes[1] = Len(m.devices) /\ Before(m.devices, 1) = 1
<1> DEFINE a == m.devices
           n == Len(a)
           ss == AllStrings(a)
           x == m.bytes
           Q == Seq(Byte)
<1>1. PICK f : /\ Joins(f, Byte, ss) /\ x = <<n>> \o f[n]
               /\ \A q \in 1 .. n + 1 : Before(a, q) = 1 + Len(f[q - 1])
  BY Laying
<1>2. n \in 0 .. 255 /\ Len(ss) = n
  <2>1. Devices(a)
    BY AnswerTyped
  <2> QED
    BY <2>1, Zenon DEF Devices
<1>3. f \in [0 .. n -> Q] /\ f[0] = <<>>
  BY <1>1, <1>2 DEF Joins
<1> HIDE DEF a, n, x
<1>4. f[n] \in Q
  <2> HIDE DEF Q
  <2> QED BY <1>2, <1>3
<1>5. Before(a, 1) = 1
  <2>1. 1 \in 1 .. n + 1 /\ 1 - 1 = 0
    BY <1>2
  <2>2. Before(a, 1) = 1 + Len(f[0])
    BY <1>1, <2>1
  <2> QED
    BY <1>3, <2>2
<1> DEFINE h == <<n>>
           g == f[n]
<1>6. h \in Seq(Byte) /\ Len(h) = 1 /\ h[1] = n /\ g \in Seq(Byte) /\ x = h \o g
  BY <1>1, <1>2, <1>4 DEF Byte
<1> HIDE DEF h, g
<1>7. /\ x \in Seq(Byte) /\ Len(x) = Len(h) + Len(g)
      /\ \A t \in 1 .. Len(h) + Len(g) :
           x[t] = IF t <= Len(h) THEN h[t] ELSE g[t - Len(h)]
  BY <1>6, ConcatProperties
<1>8. Len(g) \in Nat
  BY <1>6, LenProperties
<1>9. Len(x) \in Nat \ {0} /\ x[1] = n
  BY <1>6, <1>7, <1>8
<1> QED
  BY <1>5, <1>7, <1>9 DEF a, n, x

\* The numbers of a layout: each code has a byte at least.
Counts(a, k, l) ==
  /\ a[k].url \in Nat /\ a[k].st \in Nat /\ a[k].usn \in Nat
  /\ Len(Code(a[k].url)) \in Nat \ {0} /\ Len(Code(a[k].st)) \in Nat \ {0}
  /\ Len(Code(a[k].usn)) \in Nat \ {0}
  /\ Before(a, k) \in Nat \ {0}
  /\ UrlEnd(a, k) = Before(a, k) + Len(Code(a[k].url)) + a[k].url
  /\ StEnd(a, k) = UrlEnd(a, k) + Len(Code(a[k].st)) + a[k].st
  /\ UsnEnd(a, k) = StEnd(a, k) + Len(Code(a[k].usn)) + a[k].usn
  /\ UsnEnd(a, k) <= l /\ Before(a, k + 1) = UsnEnd(a, k)

LEMMA Counted ==
  ASSUME NEW m \in Answers, WellFormed(m), NEW k \in 1 .. Len(m.devices)
  PROVE  Counts(m.devices, k, Len(m.bytes))
<1> DEFINE a == m.devices
           d == a[k]
<1>1. Laid(m, k)
  BY BytesLaid
<1>2. Codable(d.url) /\ Codable(d.st) /\ Codable(d.usn)
  BY <1>1, Zenon DEF Laid, CodeAt
<1>3. d.url \in Nat /\ d.st \in Nat /\ d.usn \in Nat
  BY <1>2, BufferAssumption DEF Codable
<1> DEFINE cu == Len(Code(d.url))
           cs == Len(Code(d.st))
           cn == Len(Code(d.usn))
<1>4. cu \in Nat \ {0} /\ cs \in Nat \ {0} /\ cn \in Nat \ {0}
  BY <1>2, CodeTyped
<1>5. /\ Size(d.url) = cu + d.url /\ Size(d.st) = cs + d.st
      /\ Size(d.usn) = cn + d.usn
  BY DEF Size
<1>6. /\ Before(a, k) \in Nat \ {0} /\ Before(a, k + 1) = UsnEnd(a, k)
      /\ StEnd(a, k) + Size(d.usn) <= Len(m.bytes)
  BY <1>1, Zenon DEF Laid, CodeAt
<1> DEFINE b == Before(a, k)
           u == UrlEnd(a, k)
           s == StEnd(a, k)
           w == UsnEnd(a, k)
           nu == d.url
           ns == d.st
           nn == d.usn
           xu == Size(nu)
           xs == Size(ns)
           xn == Size(nn)
<1>7. u = b + xu /\ s = u + xs /\ w = s + xn
  BY Zenon DEF UrlEnd, StEnd, UsnEnd
<1>8. /\ b \in Nat /\ xu = cu + nu /\ xs = cs + ns /\ xn = cn + nn
      /\ nu \in Nat /\ ns \in Nat /\ nn \in Nat
      /\ cu \in Nat /\ cs \in Nat /\ cn \in Nat
  BY <1>3, <1>4, <1>5, <1>6
<1> HIDE DEF b, u, s, w, cu, cs, cn, nu, ns, nn, xu, xs, xn
<1>9. u = b + cu + nu /\ s = u + cs + ns /\ w = s + cn + nn
  BY <1>7, <1>8
<1>10. /\ UrlEnd(a, k) = Before(a, k) + cu + d.url
       /\ StEnd(a, k) = UrlEnd(a, k) + cs + d.st
       /\ UsnEnd(a, k) = StEnd(a, k) + cn + d.usn
  BY <1>9, Zenon DEF b, u, s, w, nu, ns, nn
<1>11. UsnEnd(a, k) <= Len(m.bytes)
  BY <1>6, Zenon DEF UsnEnd
<1> QED
  BY <1>3, <1>4, <1>6, <1>10, <1>11, Zenon DEF Counts, cu, cs, cn

\* Where the k-th device is.
LEMMA Placing ==
  ASSUME NEW a, NEW k, NEW l, Counts(a, k, l)
  PROVE  /\ PlaceOf(a, k).url =
              [at |-> Before(a, k) + Len(Code(a[k].url)) + 1, size |-> a[k].url]
         /\ PlaceOf(a, k).st =
              [at |-> UrlEnd(a, k) + Len(Code(a[k].st)) + 1, size |-> a[k].st]
         /\ PlaceOf(a, k) = [url |-> PlaceOf(a, k).url, st |-> PlaceOf(a, k).st]
         /\ EndOf(PlaceOf(a, k)) = StEnd(a, k)
<1> DEFINE b == Before(a, k)
           u == UrlEnd(a, k)
           s == StEnd(a, k)
           cu == Len(Code(a[k].url))
           cs == Len(Code(a[k].st))
           nu == a[k].url
           ns == a[k].st
           x == (b + cu + 1) + nu + cs
<1>1. PlaceOf(a, k) = [url |-> [at |-> b + cu + 1, size |-> nu],
                       st |-> [at |-> x, size |-> ns]]
  BY Zenon DEF PlaceOf
<1>2. /\ b \in Nat /\ cu \in Nat /\ cs \in Nat /\ nu \in Nat /\ ns \in Nat
      /\ u = b + cu + nu /\ s = u + cs + ns
  BY DEF Counts
<1> HIDE DEF b, u, s, cu, cs, nu, ns
<1>3. x = u + cs + 1 /\ x + ns - 1 = s
  BY <1>2
<1> HIDE DEF x
<1>4. /\ PlaceOf(a, k).url = [at |-> b + cu + 1, size |-> nu]
      /\ PlaceOf(a, k).st = [at |-> x, size |-> ns]
  BY <1>1
<1>5. PlaceOf(a, k) = [url |-> PlaceOf(a, k).url, st |-> PlaceOf(a, k).st]
  BY <1>1, <1>4
<1>6. EndOf(PlaceOf(a, k)) = x + ns - 1
  BY <1>4 DEF EndOf
<1> QED
  BY <1>3, <1>4, <1>5, <1>6 DEF b, u, s, cu, cs, nu, ns

\* A device that has not arrived, and what comes behind it.
Came(m, k, n) ==
  StEnd(m.devices, k) <= n /\ StEnd(m.devices, k) + 2 < BufSize

LEMMA EndsInOrder ==
  ASSUME NEW m \in Answers, WellFormed(m),
         NEW j \in 1 .. Len(m.devices), NEW k \in j .. Len(m.devices)
  PROVE  StEnd(m.devices, j) \in Nat /\ StEnd(m.devices, k) \in Nat
         /\ StEnd(m.devices, j) <= StEnd(m.devices, k)
<1> DEFINE a == m.devices
           n == Len(a)
           T == {d \in 0 .. n - j : StEnd(a, j) <= StEnd(a, j + d)}
<1>1. n \in Nat /\ j \in Nat /\ n - j \in Nat
  <2>1. Devices(a)
    BY AnswerTyped
  <2>2. n \in 0 .. 255
    BY <2>1, Zenon DEF Devices
  <2>3. j \in 1 .. n
    OBVIOUS
  <2> HIDE DEF n
  <2> QED BY <2>2, <2>3
<1>2. ASSUME NEW q \in 1 .. n
      PROVE  /\ StEnd(a, q) \in Nat /\ Before(a, q) \in Nat
             /\ Before(a, q) <= StEnd(a, q) /\ StEnd(a, q) <= Before(a, q + 1)
  <2>1. Counts(a, q, Len(m.bytes))
    BY Counted
  <2> DEFINE b == Before(a, q)
             u == UrlEnd(a, q)
             s == StEnd(a, q)
             w == UsnEnd(a, q)
             cu == Len(Code(a[q].url))
             cs == Len(Code(a[q].st))
             cn == Len(Code(a[q].usn))
             nu == a[q].url
             ns == a[q].st
             nn == a[q].usn
             e == Before(a, q + 1)
  <2>2. /\ b \in Nat /\ cu \in Nat /\ cs \in Nat /\ cn \in Nat
        /\ nu \in Nat /\ ns \in Nat /\ nn \in Nat
        /\ u = b + cu + nu /\ s = u + cs + ns /\ w = s + cn + nn /\ e = w
    BY <2>1 DEF Counts
  <2> HIDE DEF b, u, s, w, cu, cs, cn, nu, ns, nn, e
  <2>3. s \in Nat /\ b \in Nat /\ b <= s /\ s <= e
    BY <2>2
  <2> QED BY <2>3 DEF b, s, e
<1> HIDE DEF a, n
<1>3. j \in 1 .. n /\ k \in j .. n
  BY DEF a, n
<1>4. 0 \in T
  <2>1. StEnd(a, j) \in Nat /\ j + 0 = j /\ 0 \in 0 .. n - j
    BY <1>1, <1>2, <1>3
  <2> QED BY <2>1
<1>5. ASSUME NEW d \in 0 .. (n - j) - 1, d \in T
      PROVE  d + 1 \in T
  <2> DEFINE q == j + d
  <2>1. q \in 1 .. n /\ q + 1 \in 1 .. n /\ j + (d + 1) = q + 1 /\ d + 1 \in 0 .. n - j
    BY <1>1, <1>3
  <2>2. StEnd(a, j) <= StEnd(a, q)
    BY <1>5
  <2> HIDE DEF q
  <2> DEFINE x == StEnd(a, j)
             y == StEnd(a, q)
             z == StEnd(a, q + 1)
             b == Before(a, q + 1)
  <2>3. x \in Nat /\ y \in Nat /\ z \in Nat /\ b \in Nat /\ y <= b /\ b <= z
    BY <1>2, <1>3, <2>1
  <2>4. x <= y
    BY <2>2
  <2> HIDE DEF x, y, z, b
  <2>5. x <= z
    BY <2>3, <2>4
  <2> QED
    BY <2>1, <2>5 DEF x, z
<1>6. \A d \in 0 .. n - j : d \in T
  <2> DEFINE r == n - j
  <2>1. \A d \in 0 .. r - 1 : d \in T => d + 1 \in T
    <3> HIDE DEF T
    <3> QED BY <1>5
  <2>2. r \in Nat /\ 0 \in T
    BY <1>1, <1>4
  <2> HIDE DEF T, r
  <2>3. \A d \in 0 .. r : d \in T
    BY <2>1, <2>2, Upward
  <2> QED BY <2>3 DEF r
<1>7. k - j \in 0 .. n - j /\ j + (k - j) = k
  BY <1>1, <1>3
<1>8. StEnd(a, j) <= StEnd(a, k)
  <2>1. k - j \in T
    <3> HIDE DEF T
    <3> QED BY <1>6, <1>7
  <2> QED
    BY <1>7, <2>1
<1>9. k \in 1 .. n
  BY <1>1, <1>3
<1> QED
  BY <1>2, <1>3, <1>8, <1>9 DEF a

LEMMA NothingBehind ==
  ASSUME NEW m \in Answers, WellFormed(m), NEW n \in Nat,
         NEW j \in 1 .. Len(m.devices), ~Came(m, j, n)
  PROVE  \A k \in j .. Len(m.devices) : ~Came(m, k, n)
<1> TAKE k \in j .. Len(m.devices)
<1> DEFINE x == StEnd(m.devices, j)
           y == StEnd(m.devices, k)
<1>1. x \in Nat /\ y \in Nat /\ x <= y
  BY EndsInOrder
<1>2. ~(x <= n /\ x + 2 < BufSize)
  BY DEF Came
<1> HIDE DEF x, y
<1>3. ~(y <= n /\ y + 2 < BufSize)
  BY <1>1, <1>2, BufferAssumption
<1> QED
  BY <1>3 DEF Came, y

-----------------------------------------------------------------------------
(* The decoder in the middle of a code.                                     *)

\* Its value after each byte.
Values(n, val) ==
  /\ val[0] = 0
  /\ \A k \in 1 .. Len(Code(n)) : val[k] = Shifted(val[k - 1], Code(n)[k])

Decoding(n, t, v) ==
  t \in 0 .. Len(Code(n)) - 1 /\ \E val : Values(n, val) /\ v = val[t]

LEMMA DecodingStarts ==
  ASSUME NEW n, Codable(n)
  PROVE  Decoding(n, 0, 0)
<1> DEFINE c == Code(n)
           l == Len(c)
           F == [k \in 1 .. l |-> [v \in Nat |-> Shifted(v, c[k])]]
<1>1. c \in Seq(Byte) /\ l \in Nat \ {0}
  BY CodeTyped
<1> HIDE DEF c
<1>2. ASSUME NEW k \in 1 .. l, NEW v \in Nat
      PROVE  Shifted(v, c[k]) \in Nat
  <2>1. c[k] \in 0 .. 255
    BY <1>1, ElementOfSeq DEF Byte
  <2>2. Shifted(v, c[k]) \in 0 .. Word - 1
    BY <2>1, ShiftedWord
  <2> QED
    BY <2>2, BufferAssumption
<1> HIDE DEF l
<1>3. F \in [1 .. l -> [Nat -> Nat]]
  BY <1>2
<1>4. HasRecursion(Nat, 0, l, F)
  <2> HIDE DEF F
  <2> QED BY <1>1, <1>3, RecursionExists
<1>5. PICK val \in [0 .. l -> Nat] :
        val[0] = 0 /\ \A k \in 1 .. l : val[k] = F[k][val[k - 1]]
  <2> HIDE DEF F
  <2> QED BY <1>4 DEF HasRecursion
<1>6. ASSUME NEW k \in 1 .. l
      PROVE  val[k] = Shifted(val[k - 1], c[k])
  <2>1. k - 1 \in 0 .. l
    BY <1>1
  <2>2. val[k - 1] \in Nat
    BY <2>1
  <2>3. val[k] = F[k][val[k - 1]]
    <3> HIDE DEF F
    <3> QED BY <1>5
  <2> QED
    BY <2>2, <2>3
<1>7. Values(n, val)
  BY <1>5, <1>6 DEF Values, c, l
<1>8. 0 \in 0 .. l - 1
  BY <1>1
<1> QED
  BY <1>5, <1>7, <1>8 DEF Decoding, c, l

LEMMA DecodingGoes ==
  ASSUME NEW n, Codable(n), NEW t, NEW v, Decoding(n, t, v)
  PROVE  IF GoesOn(Code(n)[t + 1])
         THEN Decoding(n, t + 1, Shifted(v, Code(n)[t + 1]))
         ELSE t + 1 = Len(Code(n)) /\ Shifted(v, Code(n)[t + 1]) = n
<1> DEFINE c == Code(n)
           l == Len(c)
           b == c[t + 1]
<1>1. l \in Nat \ {0}
  BY CodeTyped
<1>2. PICK val : Values(n, val) /\ v = val[t]
  BY DEF Decoding
<1>3. t \in 0 .. l - 1
  BY DEF Decoding
<1>4. /\ val[0] = 0
      /\ \A k \in 1 .. l : val[k] = Shifted(val[k - 1], c[k])
  BY <1>2 DEF Values
<1>5. val[l] = n /\ \A k \in 1 .. l : GoesOn(c[k]) <=> k < l
  BY <1>4, LengthDecoded
<1> HIDE DEF c, l
<1>6. t + 1 \in 1 .. l /\ (t + 1) - 1 = t
  BY <1>1, <1>3
<1>7. val[t + 1] = Shifted(v, b) /\ (GoesOn(b) <=> t + 1 < l)
  BY <1>2, <1>4, <1>5, <1>6
<1> HIDE DEF b
<1>8. CASE GoesOn(b)
  <2>1. t + 1 \in 0 .. l - 1
    BY <1>1, <1>3, <1>7, <1>8
  <2>2. Decoding(n, t + 1, Shifted(v, b))
    BY <1>2, <1>7, <2>1 DEF Decoding, c, l
  <2> QED
    BY <1>8, <2>2 DEF b, c
<1>9. CASE ~GoesOn(b)
  <2>1. t + 1 = l
    BY <1>1, <1>3, <1>7, <1>9
  <2>2. Shifted(v, b) = n
    BY <1>5, <1>7, <2>1
  <2> QED
    BY <1>9, <2>1, <2>2 DEF b, c, l
<1> QED
  BY <1>8, <1>9

-----------------------------------------------------------------------------
(* Where the reader is in an answer.                                        *)

AllWellFormed == \A m \in Answers : WellFormed(m)

Total == Len(answer.devices)

\* At q, with the value v, the reader is in the code of n behind byte l, of
\* which it has seen t bytes, or it is behind that code.
In(l, n, q, v) == \E t : q = l + t + 1 /\ Decoding(n, t, v)
Behind(l, n, q, v) == q = l + Len(Code(n)) + 1 /\ v = n

Position ==
  LET a == answer.devices
      k == i + 1
  IN  /\ pc = "entry" => p = Before(a, k) + 1
      /\ pc = "url" => In(Before(a, k), a[k].url, p, value)
      /\ pc = "haveurl" => Behind(Before(a, k), a[k].url, p, value)
      /\ pc = "st" => In(UrlEnd(a, k), a[k].st, p, value)
      /\ pc = "havest" => Behind(UrlEnd(a, k), a[k].st, p, value)
      /\ pc \in {"st", "havest"} => url = PlaceOf(a, k).url
      /\ pc = "usn" => In(StEnd(a, k), a[k].usn, p, value)
      /\ pc = "haveusn" => Behind(StEnd(a, k), a[k].usn, p, value)

\* The first m entries of the list are the first m devices.
Listed(m) ==
  /\ m \in 0 .. Len(devlist)
  /\ \A k \in 1 .. m : /\ Nth(k) = PlaceOf(answer.devices, k)
                       /\ StEnd(answer.devices, k) + 2 < BufSize

\* Nothing but devices is in the list, and the reader is at its place.
Clean == pc # "done" /\ Listed(Len(devlist)) /\ Position

\* No device behind the first m is to come, though entries may.
Settled(m) ==
  /\ m \in 0 .. Total /\ Listed(m)
  /\ \A k \in m + 1 .. Total : ~Came(answer, k, Len(buffer))
  /\ buffer = answer.bytes => pc = "done" /\ Len(devlist) = m

Sorted == Clean \/ \E m : Settled(m)

\* How many entries there are.
Numbered ==
  /\ i <= Total
  /\ pc = "entry" => Len(devlist) = i
  /\ pc \in {"url", "haveurl", "st", "havest"} => i < Total /\ Len(devlist) = i
  /\ pc \in {"usn", "haveusn"} => i < Total /\ Len(devlist) = i + 1
  /\ pc = "done" => Len(devlist) <= Total

\* What was read is a first part of the answer.
Buffered ==
  /\ Len(buffer) \in 1 .. Len(answer.bytes)
  /\ \A j \in 1 .. Len(buffer) : buffer[j] = answer.bytes[j]

\* The inductive invariant.
Reading ==
  \/ pc = "read" /\ buffer = <<>> /\ i = 0 /\ p = 2 /\ devlist = <<>>
  \/ pc = "done" /\ buffer = <<>>
  \/ pc # "read" /\ Buffered /\ Numbered /\ Sorted

Known == TypeOK /\ answer \in Answers /\ WellFormed(answer)

\* The numbers a step is about.
LEMMA Known_Total ==
  ASSUME Known
  PROVE  Total \in 0 .. 255 /\ Len(devlist) \in Nat /\ Len(buffer) \in Nat
<1>1. Devices(answer.devices)
  BY AnswerTyped DEF Known
<1>2. Total \in 0 .. 255
  BY <1>1, Zenon DEF Devices, Total
<1>3. Len(devlist) \in Nat /\ Len(buffer) \in Nat
  BY LenProperties DEF Known, TypeOK
<1> QED
  BY <1>2, <1>3

LEMMA Known_Device ==
  ASSUME Known, NEW k \in 1 .. Total
  PROVE  Laid(answer, k) /\ Counts(answer.devices, k, Len(answer.bytes))
  BY BytesLaid, Counted DEF Known, Total

\* An entry in front of the list.
LEMMA InFront ==
  ASSUME NEW S, NEW l \in Seq(S), NEW e \in S
  PROVE  /\ Len(<<e>> \o l) = Len(l) + 1 /\ (<<e>> \o l)[1] = e
         /\ \A k \in 1 .. Len(l) :
              (<<e>> \o l)[(Len(l) + 1) + 1 - k] = l[Len(l) + 1 - k]
<1> DEFINE h == <<e>>
           g == h \o l
<1>1. h \in Seq(S) /\ Len(h) = 1 /\ h[1] = e /\ Len(l) \in Nat
  BY LenProperties
<1> HIDE DEF h
<1>2. /\ g \in Seq(S) /\ Len(g) = Len(h) + Len(l)
      /\ \A t \in 1 .. Len(h) + Len(l) :
           g[t] = IF t <= Len(h) THEN h[t] ELSE l[t - Len(h)]
  BY <1>1, ConcatProperties
<1> HIDE DEF g
<1>3. Len(g) = Len(l) + 1 /\ g[1] = e
  BY <1>1, <1>2
<1>4. ASSUME NEW k \in 1 .. Len(l)
      PROVE  g[(Len(l) + 1) + 1 - k] = l[Len(l) + 1 - k]
  <2> DEFINE t == (Len(l) + 1) + 1 - k
  <2>1. t \in 1 .. Len(h) + Len(l) /\ ~(t <= Len(h)) /\ t - Len(h) = Len(l) + 1 - k
    BY <1>1
  <2> HIDE DEF t
  <2>2. g[t] = l[Len(l) + 1 - k]
    BY <1>2, <2>1
  <2> QED BY <2>2 DEF t
<1> QED
  BY <1>3, <1>4 DEF g, h

Entries == [url : Place, st : Place]

\* What is listed stays listed.
LEMMA StaysListed ==
  ASSUME Known, NEW m, Listed(m), answer' = answer,
         devlist' = devlist \/ \E e \in Entries : devlist' = <<e>> \o devlist
  PROVE  Listed(m)'
<1>1. devlist \in Seq(Entries) /\ Len(devlist) \in Nat
  BY Known_Total DEF Known, TypeOK, Entries
<1>2. /\ m \in 0 .. Len(devlist)
      /\ \A k \in 1 .. m : /\ Nth(k) = PlaceOf(answer.devices, k)
                           /\ StEnd(answer.devices, k) + 2 < BufSize
  BY DEF Listed
<1>3. CASE devlist' = devlist
  BY <1>2, <1>3 DEF Listed, Nth
<1>4. CASE \E e \in Entries : devlist' = <<e>> \o devlist
  <2>1. PICK e \in Entries : devlist' = <<e>> \o devlist
    BY <1>4
  <2>2. /\ Len(devlist') = Len(devlist) + 1
        /\ \A k \in 1 .. Len(devlist) :
             devlist'[(Len(devlist) + 1) + 1 - k] = devlist[Len(devlist) + 1 - k]
    BY <1>1, <2>1, InFront
  <2>3. ASSUME NEW k \in 1 .. m
        PROVE  Nth(k)' = Nth(k)
    <3>1. k \in 1 .. Len(devlist)
      BY <1>1, <1>2
    <3> QED
      BY <2>2, <3>1 DEF Nth
  <2>4. m \in 0 .. Len(devlist')
    BY <1>1, <1>2, <2>2
  <2> QED
    BY <1>2, <2>3, <2>4 DEF Listed
<1> QED
  BY <1>3, <1>4

LEMMA SettledStays ==
  ASSUME Known, NEW m, Settled(m), buffer # answer.bytes,
         answer' = answer, buffer' = buffer,
         devlist' = devlist \/ \E e \in Entries : devlist' = <<e>> \o devlist
  PROVE  Settled(m)'
<1>1. Listed(m)'
  BY StaysListed DEF Settled
<1>2. Total' = Total /\ Len(buffer') = Len(buffer)
  BY DEF Total
<1>3. m \in 0 .. Total /\ \A k \in m + 1 .. Total : ~Came(answer, k, Len(buffer))
  BY Zenon DEF Settled
<1>4. m \in 0 .. Total' /\ \A k \in m + 1 .. Total' : ~Came(answer', k, Len(buffer'))
  BY <1>2, <1>3, Zenon
<1>5. buffer' # answer'.bytes
  OBVIOUS
<1> QED
  BY <1>1, <1>4, <1>5, Zenon DEF Settled

\* When the next device has not arrived, the list is settled.
LEMMA Settles ==
  ASSUME Known, Listed(Len(devlist)), Len(devlist) <= Total,
         answer' = answer, buffer' = buffer, devlist' = devlist,
         Len(devlist) < Total => ~Came(answer, Len(devlist) + 1, Len(buffer)),
         buffer = answer.bytes => pc' = "done"
  PROVE  Sorted'
<1> DEFINE n == Len(buffer)
<1>1. PICK m : m = Len(devlist)
  OBVIOUS
<1>2. m \in Nat /\ n \in Nat /\ Total \in Nat /\ m <= Total
  <2>1. Total \in 0 .. 255 /\ m \in Nat /\ n \in Nat
    BY <1>1, Known_Total
  <2>2. m <= Total
    BY <1>1
  <2> HIDE DEF n
  <2> QED BY <2>1, <2>2
<1>3. \A k \in m + 1 .. Total : ~Came(answer, k, n)
  <2>1. CASE m = Total
    BY <1>2, <2>1
  <2>2. CASE m # Total
    <3>1. m + 1 \in 1 .. Total /\ m < Total
      BY <1>2, <2>2
    <3>2. ~Came(answer, m + 1, n)
      BY <1>1, <3>1
    <3> HIDE DEF n
    <3> QED
      BY <1>2, <3>1, <3>2, NothingBehind DEF Known, Total
  <2> QED
    BY <2>1, <2>2
<1>4. Listed(m)'
  <2>1. Listed(m)
    BY <1>1
  <2> QED
    BY <2>1, StaysListed
<1>5. m \in 0 .. Total' /\ \A k \in m + 1 .. Total' : ~Came(answer', k, Len(buffer'))
  BY <1>2, <1>3 DEF Total
<1>6. buffer' = answer'.bytes => pc' = "done" /\ Len(devlist') = m
  BY <1>1
<1>7. Settled(m)'
  BY <1>4, <1>5, <1>6 DEF Settled
<1> QED
  BY <1>7 DEF Sorted

\* One byte of a code.
LEMMA CodeStep ==
  ASSUME Known, Buffered, NEW l, NEW n, CodeAt(answer.bytes, l, n),
         In(l, n, p, value), Decode
  PROVE  \/ /\ Len(buffer) < p /\ p <= l + Len(Code(n))
            /\ l + Len(Code(n)) <= Len(answer.bytes)
         \/ pc' = pc /\ In(l, n, p', value')
         \/ /\ pc = "url" => pc' = "haveurl"
            /\ pc = "st" => pc' = "havest"
            /\ pc = "usn" => pc' = "haveusn"
            /\ Behind(l, n, p', value')
<1> DEFINE c == Code(n)
           r == Len(c)
           x == answer.bytes
<1>1. PICK t : p = l + t + 1 /\ Decoding(n, t, value)
  BY DEF In
<1>2. /\ l \in Nat \ {0} /\ Codable(n) /\ l + Size(n) <= Len(x)
      /\ \A k \in 1 .. r : x[l + k] = c[k]
  BY DEF CodeAt
<1>3. r \in Nat \ {0} /\ n \in Nat /\ Size(n) = r + n
  BY <1>2, CodeTyped, BufferAssumption DEF Codable, Size
<1>4. t \in 0 .. r - 1
  BY <1>1 DEF Decoding
<1>5. Len(x) \in Nat /\ Len(buffer) \in Nat
  BY Known_Total, FirstBytes DEF Known
<1>6. PICK b \in ByteAt(p) :
        /\ value' = Shifted(value, b)
        /\ pc' = IF GoesOn(b) THEN pc
                 ELSE CASE pc = "url" -> "haveurl" [] pc = "st" -> "havest"
                        [] pc = "usn" -> "haveusn"
  BY DEF Decode
<1>7. p' = p + 1
  BY DEF Decode
<1>8. CASE p <= Len(buffer)
  <2>1. b = c[t + 1]
    <3>1. b = buffer[p]
      BY <1>6, <1>8 DEF ByteAt
    <3>2. t + 1 \in 1 .. r /\ l + (t + 1) = p /\ p \in 1 .. Len(buffer)
      <4> DEFINE z == Len(buffer)
      <4>1. l \in Nat \ {0} /\ p = l + t + 1 /\ z \in Nat /\ p <= z
        BY <1>1, <1>2, <1>5, <1>8
      <4> HIDE DEF r, z
      <4>2. t + 1 \in 1 .. r /\ l + (t + 1) = p /\ p \in 1 .. z
        BY <1>3, <1>4, <4>1
      <4> QED BY <4>2 DEF z
    <3>3. buffer[p] = x[p]
      BY <3>2 DEF Buffered
    <3> QED
      BY <1>2, <3>1, <3>2, <3>3
  <2>2. IF GoesOn(b) THEN Decoding(n, t + 1, value')
        ELSE t + 1 = r /\ value' = n
    BY <1>1, <1>2, <1>6, <2>1, DecodingGoes
  <2>3. CASE GoesOn(b)
    <3>1. pc' = pc
      BY <1>6, <2>3
    <3>2. p' = l + (t + 1) + 1
      <4>1. l \in Nat /\ t \in Int /\ p = l + t + 1 /\ p' = p + 1
        BY <1>1, <1>2, <1>3, <1>4, <1>7
      <4> HIDE DEF r
      <4> QED BY <4>1
    <3>3. In(l, n, p', value')
      BY <2>2, <2>3, <3>2 DEF In
    <3> QED
      BY <3>1, <3>3
  <2>4. CASE ~GoesOn(b)
    <3>1. /\ pc = "url" => pc' = "haveurl"
          /\ pc = "st" => pc' = "havest"
          /\ pc = "usn" => pc' = "haveusn"
      BY <1>6, <2>4
    <3>2. p' = l + r + 1 /\ value' = n
      <4>1. /\ l \in Nat /\ t \in Int /\ p = l + t + 1 /\ p' = p + 1
            /\ t + 1 = r /\ value' = n
        BY <1>1, <1>2, <1>3, <1>4, <1>7, <2>2, <2>4
      <4> HIDE DEF r
      <4> QED BY <4>1
    <3> QED
      BY <3>1, <3>2 DEF Behind
  <2> QED
    BY <2>3, <2>4
<1>9. CASE ~(p <= Len(buffer))
  <2> DEFINE y == Len(x)
             z == Len(buffer)
  <2> HIDE DEF r, y, z
  <2>1. /\ l \in Nat /\ r \in Nat /\ t \in 0 .. r - 1 /\ y \in Nat /\ z \in Nat
        /\ n \in Nat /\ l + (r + n) <= y /\ p = l + t + 1 /\ ~(p <= z)
    BY <1>1, <1>2, <1>3, <1>4, <1>5, <1>9 DEF y, z
  <2>2. z < p /\ p <= l + r /\ l + r <= y
    BY <2>1
  <2> QED
    BY <2>2 DEF r, y, z
<1> QED
  BY <1>8, <1>9

\* The order of the ends of the strings.
LEMMA Ordered ==
  ASSUME NEW a, NEW k, NEW l, Counts(a, k, l)
  PROVE  /\ Before(a, k) \in Nat /\ UrlEnd(a, k) \in Nat /\ StEnd(a, k) \in Nat
         /\ UsnEnd(a, k) \in Nat
         /\ Len(Code(a[k].url)) \in Nat /\ Len(Code(a[k].st)) \in Nat
         /\ Len(Code(a[k].usn)) \in Nat
         /\ Before(a, k) + Len(Code(a[k].url)) <= UrlEnd(a, k)
         /\ UrlEnd(a, k) + Len(Code(a[k].st)) <= StEnd(a, k)
         /\ StEnd(a, k) + Len(Code(a[k].usn)) <= UsnEnd(a, k)
         /\ Before(a, k) + 2 <= StEnd(a, k) /\ UrlEnd(a, k) <= StEnd(a, k)
         /\ Before(a, k + 1) = UsnEnd(a, k)
<1> DEFINE b == Before(a, k)
           u == UrlEnd(a, k)
           s == StEnd(a, k)
           w == UsnEnd(a, k)
           cu == Len(Code(a[k].url))
           cs == Len(Code(a[k].st))
           cn == Len(Code(a[k].usn))
           nu == a[k].url
           ns == a[k].st
           nn == a[k].usn
<1>1. /\ b \in Nat /\ cu \in Nat \ {0} /\ cs \in Nat \ {0} /\ cn \in Nat \ {0}
      /\ nu \in Nat /\ ns \in Nat /\ nn \in Nat
      /\ u = b + cu + nu /\ s = u + cs + ns /\ w = s + cn + nn
      /\ Before(a, k + 1) = w
  BY DEF Counts
<1> HIDE DEF b, u, s, w, cu, cs, cn, nu, ns, nn
<1>2. /\ u \in Nat /\ s \in Nat /\ w \in Nat /\ b + cu <= u /\ u + cs <= s
      /\ s + cn <= w /\ b + 2 <= s /\ u <= s
  BY <1>1
<1> QED
  BY <1>1, <1>2 DEF b, u, s, w, cu, cs, cn

\* The first byte is the number of devices.
LEMMA FirstByte ==
  ASSUME Known, Buffered
  PROVE  buffer[1] = Total
<1>1. Len(answer.bytes) \in Nat \ {0} /\ answer.bytes[1] = Total
  BY FirstBytes DEF Known, Total
<1>2. 1 \in 1 .. Len(buffer)
  BY <1>1, Known_Total DEF Buffered
<1> QED
  BY <1>1, <1>2 DEF Buffered

\* What a step leaves alone.
LEMMA Keeps ==
  ASSUME Known, [Next]_vars, pc # "read"
  PROVE  /\ answer' = answer /\ buffer' = buffer
         /\ devlist' = devlist \/ \E e \in Entries : devlist' = <<e>> \o devlist
         /\ pc' # "read" /\ (pc = "done" => pc' = "done" /\ devlist' = devlist)
<1>1. CASE HaveSt
  <2> DEFINE d == [url |-> url, st |-> [at |-> p, size |-> value]]
  <2>1. [at |-> p, size |-> value] \in Place
    BY <1>1, BufferAssumption, FitsInside DEF HaveSt, Fits, Known, TypeOK
  <2>2. d \in Entries
    BY <2>1 DEF Known, TypeOK, Entries
  <2>3. /\ devlist' = <<d>> \o devlist /\ answer' = answer /\ buffer' = buffer
        /\ pc = "havest" /\ pc' = "usn"
    BY <1>1 DEF HaveSt
  <2> QED
    BY <2>2, <2>3
<1>2. CASE Decode
  <2>1. /\ pc \in {"url", "st", "usn"} /\ devlist' = devlist /\ answer' = answer
        /\ buffer' = buffer
    BY <1>2 DEF Decode
  <2>2. pc' \in {pc, "haveurl", "havest", "haveusn"}
    BY <1>2, <2>1 DEF Decode
  <2> QED
    BY <2>1, <2>2
<1>3. CASE Entry \/ HaveUrl \/ TooLong \/ HaveUsn
  BY <1>3 DEF Entry, HaveUrl, TooLong, HaveUsn
<1>4. CASE Done \/ UNCHANGED vars
  BY <1>4 DEF Done, vars
<1>5. ~Read /\ ~ReadFails
  BY DEF Read, ReadFails
<1> QED
  BY <1>1, <1>2, <1>3, <1>4, <1>5 DEF Next

LEMMA KeepsBuffered ==
  ASSUME Known, Buffered, [Next]_vars, pc # "read"
  PROVE  Buffered'
<1>1. answer' = answer /\ buffer' = buffer
  BY Keeps
<1> QED
  BY <1>1 DEF Buffered

\* A settled list stays so.
LEMMA SettledStep ==
  ASSUME Known, NEW m, Settled(m), [Next]_vars, pc # "read"
  PROVE  Settled(m)'
<1>1. /\ answer' = answer /\ buffer' = buffer
      /\ devlist' = devlist \/ \E e \in Entries : devlist' = <<e>> \o devlist
      /\ pc = "done" => pc' = "done" /\ devlist' = devlist
  BY Keeps
<1>2. CASE pc = "done"
  <2>1. pc' = pc /\ devlist' = devlist
    BY <1>1, <1>2
  <2> QED
    BY <1>1, <2>1 DEF Settled, Listed, Nth, Total, Came
<1>3. CASE pc # "done"
  <2>1. buffer # answer.bytes
    BY <1>3 DEF Settled
  <2> QED
    BY <1>1, <2>1, SettledStays
<1> QED
  BY <1>2, <1>3

\* Each entry is counted.
LEMMA NumberedStep ==
  ASSUME Known, Buffered, Numbered, [Next]_vars, pc # "read"
  PROVE  Numbered'
<1>1. /\ Total \in 0 .. 255 /\ Len(devlist) \in Nat /\ Len(buffer) \in Nat
      /\ i \in Nat
  BY Known_Total DEF Known, TypeOK
<1>2. Total' = Total
  BY Keeps DEF Total
<1> USE DEF Numbered
<1>3. CASE Entry
  <2>1. buffer[1] = Total
    BY FirstByte
  <2> QED
    BY <1>1, <1>2, <1>3, <2>1 DEF Entry
<1>4. CASE Decode
  <2>1. pc \in {"url", "st", "usn"} /\ devlist' = devlist /\ i' = i
    BY <1>4 DEF Decode
  <2>2. CASE pc = "url"
    <3>1. pc' \in {"url", "haveurl"}
      BY <1>4, <2>2 DEF Decode
    <3> QED
      BY <1>2, <2>1, <2>2, <3>1
  <2>3. CASE pc = "st"
    <3>1. pc' \in {"st", "havest"}
      BY <1>4, <2>3 DEF Decode
    <3> QED
      BY <1>2, <2>1, <2>3, <3>1
  <2>4. CASE pc = "usn"
    <3>1. pc' \in {"usn", "haveusn"}
      BY <1>4, <2>4 DEF Decode
    <3> QED
      BY <1>2, <2>1, <2>4, <3>1
  <2> QED
    BY <2>1, <2>2, <2>3, <2>4
<1>5. CASE HaveUrl
  BY <1>2, <1>5 DEF HaveUrl
<1>6. CASE HaveSt
  <2> DEFINE e == [url |-> url, st |-> [at |-> p, size |-> value]]
  <2>1. devlist' = <<e>> \o devlist /\ pc = "havest" /\ pc' = "usn" /\ i' = i
    BY <1>6 DEF HaveSt
  <2>2. Len(devlist') = Len(devlist) + 1
    <3> HIDE DEF e
    <3>1. devlist \in Seq(Entries \union {e})
      <4>1. devlist \in Seq(Entries)
        BY DEF Known, TypeOK, Entries
      <4> QED BY <4>1, SeqDef
    <3> QED BY <2>1, <3>1, InFront
  <2> QED
    BY <1>2, <2>1, <2>2
<1>7. CASE TooLong
  BY <1>1, <1>2, <1>7 DEF TooLong
<1>8. CASE HaveUsn
  BY <1>1, <1>2, <1>8 DEF HaveUsn
<1>9. CASE Done \/ UNCHANGED vars
  BY <1>2, <1>9 DEF Done, vars
<1>10. ~Read /\ ~ReadFails
  BY DEF Read, ReadFails
<1> QED
  BY <1>3, <1>4, <1>5, <1>6, <1>7, <1>8, <1>9, <1>10 DEF Next

-----------------------------------------------------------------------------
(* Each action, while nothing but devices is in the list.                   *)

\* The list stays clean when the reader gets to a place of the answer.
LEMMA StaysClean ==
  ASSUME Known, Clean, answer' = answer, devlist' = devlist, pc' # "done", Position'
  PROVE  Sorted'
<1>1. Listed(Len(devlist))
  BY Zenon DEF Clean
<1>2. PICK m : m = Len(devlist)
  OBVIOUS
<1>3. Listed(m)'
  <2>1. Listed(m)
    BY <1>1, <1>2
  <2> QED BY <2>1, StaysListed
<1>4. Listed(Len(devlist))'
  BY <1>2, <1>3 DEF Listed
<1> QED
  BY <1>4 DEF Clean, Sorted

LEMMA EntryStep ==
  ASSUME Known, Buffered, Numbered, Clean, Entry
  PROVE  Sorted'
<1> DEFINE a == answer.devices
           k == i + 1
           b == Before(a, k)
<1>1. /\ pc = "entry" /\ answer' = answer /\ buffer' = buffer /\ i' = i /\ p' = p
      /\ url' = url /\ devlist' = devlist /\ value' = 0
  BY DEF Entry
<1>2. pc' = IF i < Total /\ Fits(0) THEN "url" ELSE "done"
  BY FirstByte DEF Entry
<1>3. Total \in 0 .. 255 /\ i \in Nat /\ i <= Total /\ Len(devlist) = i
  BY <1>1, Known_Total DEF Known, TypeOK, Numbered
<1>4. p = b + 1 /\ Listed(Len(devlist))
  BY <1>1, Zenon DEF Clean, Position
<1>5. CASE i < Total
  <2>1. k \in 1 .. Total
    BY <1>3, <1>5
  <2>2. Laid(answer, k) /\ Counts(a, k, Len(answer.bytes))
    <3> HIDE DEF k
    <3> QED BY <2>1, Known_Device
  <2>3. Codable(a[k].url)
    BY <2>2, Zenon DEF Laid, CodeAt
  <2>4. b \in Nat /\ StEnd(a, k) \in Nat /\ b + 2 <= StEnd(a, k)
    <3> HIDE DEF a, k
    <3> QED BY <2>2, Ordered DEF b
  <2>5. CASE Fits(0)
    <3>1. pc' = "url"
      BY <1>2, <1>5, <2>5
    <3>2. In(b, a[k].url, p, 0)
      <4>1. Decoding(a[k].url, 0, 0)
        <5> HIDE DEF a, k
        <5> QED BY <2>3, DecodingStarts
      <4>2. p = b + 0 + 1
        BY <1>4, <2>4
      <4> QED
        BY <4>1, <4>2, Zenon DEF In
    <3>3. Position'
      BY <1>1, <3>1, <3>2 DEF Position
    <3> QED
      BY <1>1, <3>1, <3>3, StaysClean
  <2>6. CASE ~Fits(0)
    <3>1. pc' = "done"
      BY <1>2, <2>6
    <3>2. ~Came(answer, k, Len(buffer))
      <4> DEFINE s == StEnd(a, k)
      <4>1. ~(p + 0 + 1 < BufSize) /\ p = b + 1
        BY <1>4, <2>6 DEF Fits
      <4> HIDE DEF b, s
      <4>2. ~(s + 2 < BufSize)
        BY <2>4, <4>1, BufferAssumption DEF s
      <4> QED
        BY <4>2 DEF Came, s
    <3>3. /\ Len(devlist) <= Total
          /\ Len(devlist) < Total => ~Came(answer, Len(devlist) + 1, Len(buffer))
      BY <1>3, <3>2
    <3> QED
      BY <1>1, <1>4, <3>1, <3>3, Settles
  <2> QED
    BY <2>5, <2>6
<1>6. CASE ~(i < Total)
  <2>1. pc' = "done"
    BY <1>2, <1>6
  <2>2. /\ Len(devlist) <= Total /\ ~(Len(devlist) < Total)
    BY <1>3, <1>6
  <2> QED
    BY <1>1, <1>4, <2>1, <2>2, Settles
<1> QED
  BY <1>5, <1>6

\* A code at l, with what is behind it, is read to its end or beyond the bytes.
Decoded(l, n) ==
  \/ Len(buffer) < p /\ p <= l + Len(Code(n)) /\ buffer # answer.bytes
  \/ pc' = pc /\ In(l, n, p', value')
  \/ /\ pc = "url" => pc' = "haveurl"
     /\ pc = "st" => pc' = "havest"
     /\ pc = "usn" => pc' = "haveusn"
     /\ Behind(l, n, p', value')

LEMMA CodeDecoded ==
  ASSUME Known, Buffered, NEW l, NEW n, CodeAt(answer.bytes, l, n),
         In(l, n, p, value), Decode
  PROVE  Decoded(l, n)
<1>1. ASSUME Len(buffer) < p, p <= l + Len(Code(n)),
             l + Len(Code(n)) <= Len(answer.bytes)
      PROVE  buffer # answer.bytes
  <2> DEFINE c == Len(Code(n))
             x == Len(answer.bytes)
             y == Len(buffer)
  <2>1. l \in Nat /\ c \in Nat /\ x \in Nat /\ y \in Nat /\ p \in Nat
    BY CodeTyped, FirstBytes, Known_Total DEF CodeAt, Known, TypeOK
  <2>2. y < p /\ p <= l + c /\ l + c <= x
    BY <1>1
  <2> HIDE DEF c, x, y
  <2>3. x # y
    BY <2>1, <2>2
  <2> QED BY <2>3 DEF x, y
<1>2. \/ /\ Len(buffer) < p /\ p <= l + Len(Code(n))
         /\ l + Len(Code(n)) <= Len(answer.bytes)
      \/ pc' = pc /\ In(l, n, p', value')
      \/ /\ pc = "url" => pc' = "haveurl"
         /\ pc = "st" => pc' = "havest"
         /\ pc = "usn" => pc' = "haveusn"
         /\ Behind(l, n, p', value')
  BY CodeStep
<1> QED
  BY <1>1, <1>2, Zenon DEF Decoded

\* The device that is read is laid out behind the last one.
LEMMA Present ==
  ASSUME Known, Numbered, i < Total
  PROVE  /\ i \in Nat /\ i + 1 \in 1 .. Total /\ Total \in 0 .. 255
         /\ Laid(answer, i + 1)
         /\ Counts(answer.devices, i + 1, Len(answer.bytes))
<1>1. Total \in 0 .. 255 /\ i \in Nat
  BY Known_Total DEF Known, TypeOK
<1>2. i + 1 \in 1 .. Total
  BY <1>1
<1>3. \A k \in 1 .. Total :
        Laid(answer, k) /\ Counts(answer.devices, k, Len(answer.bytes))
  BY Known_Device
<1> QED
  BY <1>1, <1>2, <1>3

\* A device that ends behind what was read, or too near to the end of the
\* buffer, settles the list.
LEMMA SettlesBefore ==
  ASSUME Known, Listed(Len(devlist)), Len(devlist) <= Total,
         answer' = answer, buffer' = buffer, devlist' = devlist,
         buffer = answer.bytes => pc' = "done",
         NEW e \in Nat, Len(buffer) < e \/ BufSize <= e + 2,
         Len(devlist) < Total =>
           /\ StEnd(answer.devices, Len(devlist) + 1) \in Nat
           /\ e <= StEnd(answer.devices, Len(devlist) + 1)
  PROVE  Sorted'
<1>1. ASSUME Len(devlist) < Total
      PROVE  ~Came(answer, Len(devlist) + 1, Len(buffer))
  <2> DEFINE s == StEnd(answer.devices, Len(devlist) + 1)
             y == Len(buffer)
  <2>1. s \in Nat /\ e <= s /\ y \in Nat /\ (y < e \/ BufSize <= e + 2)
    BY <1>1, Known_Total
  <2> HIDE DEF s, y
  <2>2. ~(s <= y /\ s + 2 < BufSize)
    BY <2>1, BufferAssumption
  <2> QED
    BY <2>2 DEF Came, s, y
<1> QED
  BY <1>1, Settles

LEMMA DecodeStep ==
  ASSUME Known, Buffered, Numbered, Clean, Decode
  PROVE  Sorted'
<1> DEFINE a == answer.devices
           k == i + 1
<1>1. /\ pc \in {"url", "st", "usn"} /\ answer' = answer /\ buffer' = buffer
      /\ i' = i /\ url' = url /\ devlist' = devlist /\ p' = p + 1
  BY DEF Decode
<1>2. i < Total
  BY <1>1 DEF Numbered
<1>3. /\ i \in Nat /\ k \in 1 .. Total /\ Total \in 0 .. 255
      /\ Laid(answer, k) /\ Counts(a, k, Len(answer.bytes))
  BY <1>2, Present
<1>4. Listed(Len(devlist)) /\ p \in Nat /\ Position
  BY Zenon DEF Clean, Known, TypeOK
<1> DEFINE b == Before(a, k)
           u == UrlEnd(a, k)
           s == StEnd(a, k)
           w == UsnEnd(a, k)
           cu == Len(Code(a[k].url))
           cs == Len(Code(a[k].st))
           cn == Len(Code(a[k].usn))
<1>5. /\ b \in Nat /\ u \in Nat /\ s \in Nat /\ w \in Nat
      /\ cu \in Nat /\ cs \in Nat /\ cn \in Nat
      /\ b + cu <= u /\ u + cs <= s /\ s + cn <= w /\ u <= s
      /\ Before(a, k + 1) = w
  <2> HIDE DEF a, k
  <2> QED BY <1>3, Ordered
<1>6. CASE pc = "url"
  <2>1. In(b, a[k].url, p, value) /\ CodeAt(answer.bytes, b, a[k].url)
    BY <1>3, <1>4, <1>6, Zenon DEF Position, Laid
  <2>2. Decoded(b, a[k].url)
    <3> HIDE DEF b, a, k
    <3> QED BY <2>1, CodeDecoded
  <2>3. Len(devlist) = i
    BY <1>6 DEF Numbered
  <2>4. CASE Len(buffer) < p /\ p <= b + cu /\ buffer # answer.bytes
    <3>1. p <= s
      <4>1. p <= b + cu
        BY <2>4
      <4> HIDE DEF b, u, s, cu, cs
      <4> QED BY <1>4, <1>5, <4>1
    <3>2. Len(devlist) <= Total /\ s = StEnd(a, Len(devlist) + 1) /\ s \in Nat
      BY <1>2, <1>3, <1>5, <2>3
    <3> QED
      BY <1>1, <1>4, <2>4, <3>1, <3>2, SettlesBefore
  <2>5. CASE pc' = pc /\ In(b, a[k].url, p', value')
    <3>1. Position'
      BY <1>1, <1>6, <2>5 DEF Position
    <3> QED
      BY <1>1, <1>6, <2>5, <3>1, StaysClean
  <2>6. CASE pc' = "haveurl" /\ Behind(b, a[k].url, p', value')
    <3>1. Position'
      BY <1>1, <1>6, <2>6 DEF Position
    <3> QED
      BY <1>1, <2>6, <3>1, StaysClean
  <2> QED
    BY <1>6, <2>2, <2>4, <2>5, <2>6, Zenon DEF Decoded
<1>7. CASE pc = "st"
  <2>1. /\ In(u, a[k].st, p, value) /\ CodeAt(answer.bytes, u, a[k].st)
        /\ url = PlaceOf(a, k).url
    BY <1>3, <1>4, <1>7, Zenon DEF Position, Laid
  <2>2. Decoded(u, a[k].st)
    <3> HIDE DEF u, a, k
    <3> QED BY <2>1, CodeDecoded
  <2>3. Len(devlist) = i
    BY <1>7 DEF Numbered
  <2>4. CASE Len(buffer) < p /\ p <= u + cs /\ buffer # answer.bytes
    <3>1. p <= s
      <4>1. p <= u + cs
        BY <2>4
      <4> HIDE DEF b, u, s, cu, cs
      <4> QED BY <1>4, <1>5, <4>1
    <3>2. Len(devlist) <= Total /\ s = StEnd(a, Len(devlist) + 1) /\ s \in Nat
      BY <1>2, <1>3, <1>5, <2>3
    <3> QED
      BY <1>1, <1>4, <2>4, <3>1, <3>2, SettlesBefore
  <2>5. CASE pc' = pc /\ In(u, a[k].st, p', value')
    <3>1. Position'
      BY <1>1, <1>7, <2>1, <2>5 DEF Position
    <3> QED
      BY <1>1, <1>7, <2>5, <3>1, StaysClean
  <2>6. CASE pc' = "havest" /\ Behind(u, a[k].st, p', value')
    <3>1. Position'
      BY <1>1, <1>7, <2>1, <2>6 DEF Position
    <3> QED
      BY <1>1, <2>6, <3>1, StaysClean
  <2> QED
    BY <1>7, <2>2, <2>4, <2>5, <2>6, Zenon DEF Decoded
<1>8. CASE pc = "usn"
  <2>1. In(s, a[k].usn, p, value) /\ CodeAt(answer.bytes, s, a[k].usn)
    BY <1>3, <1>4, <1>8, Zenon DEF Position, Laid
  <2>2. Decoded(s, a[k].usn)
    <3> HIDE DEF s, a, k
    <3> QED BY <2>1, CodeDecoded
  <2>3. Len(devlist) = k
    BY <1>8 DEF Numbered
  <2>4. CASE Len(buffer) < p /\ p <= s + cn /\ buffer # answer.bytes
    <3>1. p <= w
      <4>1. p <= s + cn
        BY <2>4
      <4> HIDE DEF b, u, s, w, cu, cs, cn
      <4> QED BY <1>4, <1>5, <4>1
    <3>2. Len(devlist) <= Total
      BY <1>3, <2>3
    <3>3. ASSUME Len(devlist) < Total
          PROVE  /\ StEnd(a, Len(devlist) + 1) \in Nat
                 /\ p <= StEnd(a, Len(devlist) + 1)
      <4> DEFINE e == StEnd(a, k + 1)
      <4>1. k + 1 \in 1 .. Total
        BY <1>3, <2>3, <3>3
      <4>2. Counts(a, k + 1, Len(answer.bytes))
        <5> DEFINE q == k + 1
        <5> HIDE DEF q
        <5>1. Counts(a, q, Len(answer.bytes))
          BY <4>1, Known_Device DEF q
        <5> QED BY <5>1 DEF q
      <4>3. e \in Nat /\ w + 2 <= e
        <5> DEFINE q == k + 1
        <5>1. Before(a, q) = w
          BY <1>5
        <5> HIDE DEF q, w, a
        <5>2. StEnd(a, q) \in Nat /\ Before(a, q) + 2 <= StEnd(a, q)
          BY <4>2, Ordered DEF q
        <5> QED BY <5>1, <5>2 DEF q
      <4> HIDE DEF e, w
      <4>4. e \in Nat /\ p <= e
        BY <1>4, <1>5, <3>1, <4>3
      <4> QED BY <2>3, <4>4 DEF e
    <3> QED
      BY <1>1, <1>4, <2>4, <3>2, <3>3, SettlesBefore
  <2>5. CASE pc' = pc /\ In(s, a[k].usn, p', value')
    <3>1. Position'
      BY <1>1, <1>8, <2>5 DEF Position
    <3> QED
      BY <1>1, <1>8, <2>5, <3>1, StaysClean
  <2>6. CASE pc' = "haveusn" /\ Behind(s, a[k].usn, p', value')
    <3>1. Position'
      BY <1>1, <1>8, <2>6 DEF Position
    <3> QED
      BY <1>1, <2>6, <3>1, StaysClean
  <2> QED
    BY <1>8, <2>2, <2>4, <2>5, <2>6, Zenon DEF Decoded
<1> QED
  BY <1>1, <1>6, <1>7, <1>8

LEMMA HaveUrlStep ==
  ASSUME Known, Buffered, Numbered, Clean, HaveUrl
  PROVE  Sorted'
<1> DEFINE a == answer.devices
           k == i + 1
           b == Before(a, k)
           u == UrlEnd(a, k)
           cu == Len(Code(a[k].url))
           nu == a[k].url
<1>1. /\ pc = "haveurl" /\ pc' = "st" /\ answer' = answer /\ i' = i
      /\ devlist' = devlist /\ url' = [at |-> p, size |-> value]
      /\ p' = p + value /\ value' = 0
  BY DEF HaveUrl
<1>2. i < Total
  BY <1>1 DEF Numbered
<1>3. Laid(answer, k) /\ Counts(a, k, Len(answer.bytes))
  BY <1>2, Present
<1>4. p = b + cu + 1 /\ value = nu
  BY <1>1, Zenon DEF Clean, Position, Behind
<1>5. b \in Nat /\ cu \in Nat /\ nu \in Nat /\ u = b + cu + nu
  <2> HIDE DEF a, k
  <2> QED BY <1>3, Zenon, BufferAssumption DEF Counts
<1>6. p' = u + 0 + 1
  <2> HIDE DEF b, u, cu, nu
  <2> QED BY <1>1, <1>4, <1>5
<1>7. In(u, a[k].st, p', 0)
  <2>1. Codable(a[k].st)
    BY <1>3, Zenon DEF Laid, CodeAt
  <2>2. Decoding(a[k].st, 0, 0)
    <3> HIDE DEF a, k
    <3> QED BY <2>1, DecodingStarts
  <2> QED
    BY <1>6, <2>2, Zenon DEF In
<1>8. url' = PlaceOf(a, k).url
  <2>1. PlaceOf(a, k).url = [at |-> b + cu + 1, size |-> nu]
    <3> HIDE DEF a, k
    <3> QED BY <1>3, Placing DEF b, cu, nu
  <2> QED
    BY <1>1, <1>4, <2>1
<1>9. Position'
  BY <1>1, <1>7, <1>8 DEF Position
<1> QED
  BY <1>1, <1>9, StaysClean

LEMMA HaveStStep ==
  ASSUME Known, Buffered, Numbered, Clean, HaveSt
  PROVE  Sorted'
<1> DEFINE a == answer.devices
           k == i + 1
           u == UrlEnd(a, k)
           s == StEnd(a, k)
           cs == Len(Code(a[k].st))
           ns == a[k].st
           e == [url |-> url, st |-> [at |-> p, size |-> value]]
<1>1. /\ pc = "havest" /\ pc' = "usn" /\ answer' = answer /\ buffer' = buffer
      /\ i' = i /\ devlist' = <<e>> \o devlist
      /\ p' = p + value /\ value' = 0 /\ Fits(value)
  BY DEF HaveSt
<1>2. i < Total /\ Len(devlist) = i
  BY <1>1 DEF Numbered
<1>3. i \in Nat /\ Laid(answer, k) /\ Counts(a, k, Len(answer.bytes))
  BY <1>2, Present
<1>4. /\ p = u + cs + 1 /\ value = ns /\ url = PlaceOf(a, k).url
      /\ Listed(Len(devlist))
  BY <1>1, Zenon DEF Clean, Position, Behind
<1>5. u \in Nat /\ cs \in Nat /\ ns \in Nat /\ s = u + cs + ns
  <2>1. Counts(a, k, Len(answer.bytes))
    BY <1>3
  <2> HIDE DEF a, k
  <2>2. u \in Nat
    BY <2>1, Ordered
  <2> QED BY <2>1, <2>2, Zenon, BufferAssumption DEF Counts
<1>6. p' = s + 0 + 1 /\ s + 2 < BufSize
  <2>1. p + value + 1 < BufSize
    BY <1>1 DEF Fits
  <2> HIDE DEF u, s, cs, ns
  <2> QED BY <1>1, <1>4, <1>5, <2>1, BufferAssumption
<1>7. In(s, a[k].usn, p', 0)
  <2>1. Codable(a[k].usn)
    BY <1>3, Zenon DEF Laid, CodeAt
  <2>2. Decoding(a[k].usn, 0, 0)
    <3> HIDE DEF a, k
    <3> QED BY <2>1, DecodingStarts
  <2> QED
    BY <1>6, <2>2, Zenon DEF In
<1>8. e = PlaceOf(a, k)
  <2>1. /\ PlaceOf(a, k).st = [at |-> u + cs + 1, size |-> ns]
        /\ PlaceOf(a, k) = [url |-> PlaceOf(a, k).url, st |-> PlaceOf(a, k).st]
    <3> HIDE DEF a, k
    <3> QED BY <1>3, Placing DEF u, cs, ns
  <2> QED
    BY <1>4, <2>1
<1>9. e \in Entries
  <2>1. [at |-> p, size |-> value] \in Place
    BY <1>1, BufferAssumption, FitsInside DEF Fits, Known, TypeOK
  <2> QED
    BY <2>1 DEF Known, TypeOK, Entries
<1>10. Len(devlist') = k /\ devlist'[1] = e
  <2>1. devlist \in Seq(Entries)
    BY DEF Known, TypeOK, Entries
  <2> HIDE DEF e
  <2>2. Len(<<e>> \o devlist) = Len(devlist) + 1 /\ (<<e>> \o devlist)[1] = e
    BY <1>9, <2>1, InFront
  <2> QED
    BY <1>1, <1>2, <2>2
<1>11. PICK m : m = Len(devlist)
  OBVIOUS
<1>12. Listed(Len(devlist))'
  <2>1. Listed(m)'
    <3>1. Listed(m)
      BY <1>4, <1>11
    <3> HIDE DEF e
    <3> QED BY <1>1, <1>9, <3>1, StaysListed
  <2>2. ASSUME NEW j \in 1 .. m
        PROVE  /\ Nth(j)' = PlaceOf(answer'.devices, j)
               /\ StEnd(answer'.devices, j) + 2 < BufSize
    BY <2>1 DEF Listed
  <2>3. m \in Nat /\ m + 1 = k /\ Len(devlist') = m + 1
    BY <1>2, <1>3, <1>10, <1>11
  <2>4. /\ Nth(m + 1)' = PlaceOf(answer'.devices, m + 1)
        /\ StEnd(answer'.devices, m + 1) + 2 < BufSize
    <3>1. Len(devlist') + 1 - (m + 1) = 1
      BY <2>3
    <3>2. Nth(m + 1)' = e
      BY <1>10, <3>1 DEF Nth
    <3>3. e = PlaceOf(answer'.devices, m + 1)
      BY <1>1, <1>8, <2>3
    <3>4. StEnd(answer'.devices, m + 1) + 2 < BufSize
      BY <1>1, <1>6, <2>3
    <3> QED
      BY <3>2, <3>3, <3>4
  <2>5. ASSUME NEW j \in 1 .. m + 1
        PROVE  /\ Nth(j)' = PlaceOf(answer'.devices, j)
               /\ StEnd(answer'.devices, j) + 2 < BufSize
    <3>1. CASE j = m + 1
      BY <2>4, <3>1
    <3>2. CASE j # m + 1
      <4>1. j \in 1 .. m
        BY <2>3, <3>2
      <4> QED BY <2>2, <4>1
    <3> QED BY <3>1, <3>2
  <2>6. m + 1 \in 0 .. m + 1
    BY <2>3
  <2> QED
    BY <2>3, <2>5, <2>6 DEF Listed
<1>13. Position'
  BY <1>1, <1>7 DEF Position
<1> QED
  BY <1>1, <1>12, <1>13 DEF Clean, Sorted

LEMMA TooLongStep ==
  ASSUME Known, Buffered, Numbered, Clean, TooLong
  PROVE  Sorted'
<1> DEFINE a == answer.devices
           k == i + 1
           b == Before(a, k)
           u == UrlEnd(a, k)
           s == StEnd(a, k)
           cu == Len(Code(a[k].url))
           nu == a[k].url
           cs == Len(Code(a[k].st))
           ns == a[k].st
<1>1. /\ pc \in {"haveurl", "havest"} /\ pc' = "done" /\ answer' = answer
      /\ buffer' = buffer /\ devlist' = devlist /\ ~Fits(value)
  BY DEF TooLong
<1>2. i < Total /\ Len(devlist) = i
  BY <1>1 DEF Numbered
<1>3. i \in Nat /\ Total \in 0 .. 255 /\ Counts(a, k, Len(answer.bytes))
  BY <1>2, Present
<1>4. /\ b \in Nat /\ u \in Nat /\ s \in Nat /\ cu \in Nat /\ nu \in Nat
      /\ cs \in Nat /\ ns \in Nat /\ u = b + cu + nu /\ s = u + cs + ns
  <2>1. Counts(a, k, Len(answer.bytes))
    BY <1>3
  <2> HIDE DEF a, k
  <2>2. u \in Nat /\ s \in Nat
    BY <2>1, Ordered
  <2> QED BY <2>1, <2>2, Zenon, BufferAssumption DEF Counts
<1>5. Listed(Len(devlist)) /\ Position
  BY Zenon DEF Clean
<1>6. ~(p + value + 1 < BufSize)
  BY <1>1 DEF Fits
<1>7. BufSize <= s + 2
  <2>1. CASE pc = "haveurl"
    <3>1. p = b + cu + 1 /\ value = nu
      BY <1>5, <2>1, Zenon DEF Position, Behind
    <3> HIDE DEF b, u, s, cu, nu, cs, ns
    <3> QED BY <1>4, <1>6, <3>1, BufferAssumption
  <2>2. CASE pc = "havest"
    <3>1. p = u + cs + 1 /\ value = ns
      BY <1>5, <2>2, Zenon DEF Position, Behind
    <3> HIDE DEF b, u, s, cu, nu, cs, ns
    <3> QED BY <1>4, <1>6, <3>1, BufferAssumption
  <2> QED
    BY <1>1, <2>1, <2>2
<1>8. s = StEnd(a, Len(devlist) + 1) /\ s <= s /\ Len(devlist) <= Total
  BY <1>2, <1>3, <1>4
<1> HIDE DEF s
<1> QED
  BY <1>1, <1>4, <1>5, <1>7, <1>8, SettlesBefore

LEMMA HaveUsnStep ==
  ASSUME Known, Buffered, Numbered, Clean, HaveUsn
  PROVE  Sorted'
<1> DEFINE a == answer.devices
           k == i + 1
           s == StEnd(a, k)
           w == UsnEnd(a, k)
           cn == Len(Code(a[k].usn))
           nn == a[k].usn
<1>1. /\ pc = "haveusn" /\ answer' = answer /\ buffer' = buffer
      /\ devlist' = devlist /\ p' = p + value /\ i' = k
      /\ pc' = IF p' > BufSize + 1 THEN "done" ELSE "entry"
  BY DEF HaveUsn
<1>2. i < Total /\ Len(devlist) = k
  BY <1>1 DEF Numbered
<1>3. i \in Nat /\ Total \in 0 .. 255 /\ Counts(a, k, Len(answer.bytes))
  BY <1>2, Present
<1>4. /\ s \in Nat /\ w \in Nat /\ cn \in Nat /\ nn \in Nat /\ w = s + cn + nn
      /\ Before(a, k + 1) = w
  <2>1. Counts(a, k, Len(answer.bytes))
    BY <1>3
  <2> HIDE DEF a, k
  <2>2. s \in Nat /\ w \in Nat
    BY <2>1, Ordered
  <2> QED BY <2>1, <2>2, Zenon, BufferAssumption DEF Counts
<1>5. Listed(Len(devlist)) /\ p = s + cn + 1 /\ value = nn
  BY <1>1, Zenon DEF Clean, Position, Behind
<1>6. p' = w + 1
  <2> HIDE DEF s, w, cn, nn
  <2> QED BY <1>1, <1>4, <1>5
<1>7. CASE ~(p' > BufSize + 1)
  <2>1. pc' = "entry"
    BY <1>1, <1>7
  <2>2. p' = Before(answer'.devices, i' + 1) + 1
    BY <1>1, <1>4, <1>6
  <2>3. Position'
    BY <2>1, <2>2 DEF Position
  <2> QED
    BY <1>1, <2>1, <2>3, StaysClean
<1>8. CASE p' > BufSize + 1
  <2>1. pc' = "done"
    BY <1>1, <1>8
  <2>2. BufSize <= w + 2
    <3> HIDE DEF w
    <3> QED BY <1>4, <1>6, <1>8, BufferAssumption
  <2>3. ASSUME Len(devlist) < Total
        PROVE  StEnd(a, Len(devlist) + 1) \in Nat /\ w <= StEnd(a, Len(devlist) + 1)
    <3> DEFINE q == k + 1
               e == StEnd(a, q)
    <3>1. q \in 1 .. Total
      BY <1>2, <1>3, <2>3
    <3>2. Counts(a, q, Len(answer.bytes))
      <4> HIDE DEF q
      <4> QED BY <3>1, Known_Device
    <3>3. Before(a, q) = w
      BY <1>4
    <3>4. e \in Nat /\ Before(a, q) + 2 <= e
      <4> HIDE DEF q, a
      <4> QED BY <3>2, Ordered DEF e
    <3>5. e \in Nat /\ w <= e
      <4> HIDE DEF w, e
      <4> QED BY <1>4, <3>3, <3>4
    <3> QED
      BY <1>2, <3>5
  <2>4. Len(devlist) <= Total
    BY <1>2, <1>3
  <2> QED
    BY <1>1, <1>4, <1>5, <2>1, <2>2, <2>3, <2>4, SettlesBefore
<1> QED
  BY <1>7, <1>8

LEMMA ReadStep ==
  ASSUME Known, Read, i = 0, p = 2, devlist = <<>>
  PROVE  Buffered' /\ Numbered' /\ Sorted'
<1> DEFINE x == answer.bytes
<1>1. x \in Seq(Byte) /\ Len(x) \in Nat /\ Before(answer.devices, 1) = 1
  <2>1. answer \in Answers /\ WellFormed(answer)
    BY DEF Known
  <2>2. x \in Seq(Byte) /\ Len(x) \in Nat \ {0} /\ Before(answer.devices, 1) = 1
    BY <2>1, FirstBytes, Zenon
  <2> HIDE DEF x
  <2> QED
    BY <2>2
<1>2. PICK n \in 1 .. Len(x) : buffer' = SubSeq(x, 1, n)
  BY DEF Read
<1>3. /\ pc' = "entry" /\ answer' = answer /\ i' = 0 /\ p' = 2 /\ devlist' = <<>>
      /\ Len(devlist') = 0
  <2>1. pc' = "entry" /\ UNCHANGED <<answer, i, p, value, url, devlist>>
    BY Zenon DEF Read
  <2> QED
    BY <2>1
<1>4. Total' = Total /\ Total \in 0 .. 255
  BY <1>3, Known_Total DEF Total
<1>5. Buffered'
  <2>1. n \in Nat /\ 1 <= n /\ n <= Len(x) /\ 1 \in 1 .. n
    BY <1>1, <1>2
  <2>2. /\ Len(SubSeq(x, 1, n)) = n
        /\ \A j \in 1 .. n : SubSeq(x, 1, n)[j] = x[j]
    <3>1. /\ Len(SubSeq(x, 1, n)) = n - 1 + 1
          /\ \A j \in 1 .. n - 1 + 1 : SubSeq(x, 1, n)[j] = x[1 + j - 1]
      <4> HIDE DEF x
      <4> QED BY <1>1, <2>1, SubSeqProperties
    <3>2. n - 1 + 1 = n /\ \A j \in 1 .. n : 1 + j - 1 = j
      BY <2>1
    <3> HIDE DEF x
    <3> QED BY <3>1, <3>2
  <2> QED
    BY <1>2, <1>3, <2>1, <2>2 DEF Buffered
<1>6. Numbered'
  BY <1>3, <1>4 DEF Numbered
<1>7. Listed(Len(devlist))'
  BY <1>3 DEF Listed
<1>8. Position'
  <2>1. p' = Before(answer'.devices, i' + 1) + 1
    BY <1>1, <1>3
  <2> QED
    BY <1>3, <2>1 DEF Position
<1> QED
  BY <1>3, <1>5, <1>6, <1>7, <1>8 DEF Clean, Sorted

LEMMA ReadingStep ==
  ASSUME Known, Reading, [Next]_vars
  PROVE  Reading'
<1>1. CASE pc = "read"
  <2>1. buffer = <<>> /\ i = 0 /\ p = 2 /\ devlist = <<>>
    BY <1>1 DEF Reading
  <2>2. CASE Read
    <3>1. pc' # "read"
      BY <2>2 DEF Read
    <3> QED
      BY <2>1, <2>2, <3>1, ReadStep DEF Reading
  <2>3. CASE ReadFails
    BY <2>1, <2>3 DEF ReadFails, Reading
  <2>4. CASE UNCHANGED vars
    BY <1>1, <2>1, <2>4 DEF vars, Reading
  <2> QED
    BY <1>1, <2>2, <2>3, <2>4
       DEF Next, Entry, Decode, HaveUrl, HaveSt, TooLong, HaveUsn, Done
<1>2. CASE pc = "done" /\ buffer = <<>>
  <2>1. buffer' = buffer /\ pc' = "done"
    BY <1>2, Keeps
  <2> QED
    BY <1>2, <2>1 DEF Reading
<1>3. CASE pc # "read" /\ Buffered /\ Numbered /\ Sorted
  <2>1. pc' # "read" /\ Buffered' /\ Numbered'
    BY <1>3, Keeps, KeepsBuffered, NumberedStep
  <2>2. Sorted'
    <3>1. CASE \E m : Settled(m)
      <4>1. PICK m : Settled(m)
        BY <3>1
      <4>2. Settled(m)'
        BY <1>3, <4>1, SettledStep
      <4> QED BY <4>2 DEF Sorted
    <3>2. CASE Clean
      <4>1. CASE Entry
        BY <1>3, <3>2, <4>1, EntryStep
      <4>2. CASE Decode
        BY <1>3, <3>2, <4>2, DecodeStep
      <4>3. CASE HaveUrl
        BY <1>3, <3>2, <4>3, HaveUrlStep
      <4>4. CASE HaveSt
        BY <1>3, <3>2, <4>4, HaveStStep
      <4>5. CASE TooLong
        BY <1>3, <3>2, <4>5, TooLongStep
      <4>6. CASE HaveUsn
        BY <1>3, <3>2, <4>6, HaveUsnStep
      <4>7. CASE UNCHANGED vars
        <5>1. /\ pc' = pc /\ answer' = answer /\ i' = i /\ p' = p
              /\ value' = value /\ url' = url /\ devlist' = devlist
          BY <4>7 DEF vars
        <5>2. Position' /\ pc' # "done"
          BY <3>2, <5>1 DEF Clean, Position
        <5> QED BY <3>2, <5>1, <5>2, StaysClean
      <4>8. ~Read /\ ~ReadFails /\ ~Done
        BY <1>3, <3>2 DEF Read, ReadFails, Done, Clean
      <4> QED
        BY <4>1, <4>2, <4>3, <4>4, <4>5, <4>6, <4>7, <4>8 DEF Next
    <3> QED
      BY <1>3, <3>1, <3>2 DEF Sorted
  <2> QED
    BY <2>1, <2>2 DEF Reading
<1> QED
  BY <1>1, <1>2, <1>3 DEF Reading

LEMMA ListMatches ==
  ASSUME Known, Reading
  PROVE  ListIsAnswer
<1> SUFFICES ASSUME pc = "done", buffer # <<>>
             PROVE  /\ \A k \in DOMAIN answer.devices :
                         HasArrived(k, Len(buffer)) =>
                           k <= Len(devlist) /\ Nth(k) = PlaceOf(answer.devices, k)
                    /\ Len(devlist) <= Len(answer.devices)
                    /\ buffer = answer.bytes =>
                         \A k \in DOMAIN devlist : HasArrived(k, Len(buffer))
  BY DEF ListIsAnswer
<1> DEFINE a == answer.devices
<1>1. Numbered /\ Sorted
  BY DEF Reading
<1>2. PICK m : Settled(m)
  BY <1>1 DEF Sorted, Clean
<1>3. /\ m \in 0 .. Total /\ m \in 0 .. Len(devlist)
      /\ \A k \in m + 1 .. Total : ~Came(answer, k, Len(buffer))
      /\ \A k \in 1 .. m : Nth(k) = PlaceOf(a, k) /\ StEnd(a, k) + 2 < BufSize
      /\ buffer = answer.bytes => Len(devlist) = m
  <2>1. /\ m \in 0 .. Total /\ Listed(m)
        /\ \A k \in m + 1 .. Total : ~Came(answer, k, Len(buffer))
        /\ buffer = answer.bytes => Len(devlist) = m
    BY <1>2, Zenon DEF Settled
  <2>2. /\ m \in 0 .. Len(devlist)
        /\ \A k \in 1 .. m : Nth(k) = PlaceOf(a, k) /\ StEnd(a, k) + 2 < BufSize
    BY <2>1 DEF Listed
  <2> QED
    BY <2>1, <2>2, Zenon
<1>4. /\ Total \in 0 .. 255 /\ Len(devlist) \in Nat /\ Len(buffer) \in Nat
      /\ DOMAIN a = 1 .. Total /\ DOMAIN devlist = 1 .. Len(devlist)
  <2>1. Devices(a)
    BY AnswerTyped DEF Known
  <2>2. a \in Seq([url : Nat, st : Nat, usn : Nat])
    BY DEF Known, WellFormed
  <2>3. devlist \in Seq(Entries)
    BY DEF Known, TypeOK, Entries
  <2> QED
    BY <2>2, <2>3, Known_Total, LenProperties DEF Total
<1>5. ASSUME NEW k \in 1 .. Total
      PROVE  HasArrived(k, Len(buffer)) <=> Came(answer, k, Len(buffer))
  <2>1. Counts(a, k, Len(answer.bytes))
    BY Known_Device
  <2>2. EndOf(PlaceOf(a, k)) = StEnd(a, k)
    <3> HIDE DEF a
    <3> QED BY <2>1, Placing
  <2> QED
    BY <2>2 DEF HasArrived, Came
<1>6. ASSUME NEW k \in DOMAIN a, HasArrived(k, Len(buffer))
      PROVE  k <= Len(devlist) /\ Nth(k) = PlaceOf(a, k)
  <2>1. k \in 1 .. Total
    BY <1>4
  <2>2. Came(answer, k, Len(buffer))
    BY <1>5, <1>6, <2>1
  <2>3. k \in 1 .. m /\ k <= Len(devlist)
    <3> DEFINE z == Total
               y == Len(devlist)
    <3>1. ~(k \in m + 1 .. z)
      BY <1>3, <2>2, Zenon
    <3>2. m \in 0 .. z /\ m \in 0 .. y
      BY <1>3, Zenon
    <3>3. z \in 0 .. 255 /\ y \in Nat
      BY <1>4, Zenon
    <3>4. k \in 1 .. z
      BY <2>1
    <3> HIDE DEF y, z
    <3>5. k \in 1 .. m /\ k <= y
      BY <3>1, <3>2, <3>3, <3>4
    <3> QED BY <3>5 DEF y
  <2>4. Nth(k) = PlaceOf(a, k)
    BY <1>3, <2>3, Zenon
  <2> QED
    BY <2>3, <2>4
<1>7. Len(devlist) <= Len(a)
  BY <1>1 DEF Numbered, Total
<1>8. ASSUME buffer = answer.bytes, NEW k \in DOMAIN devlist
      PROVE  HasArrived(k, Len(buffer))
  <2>1. k \in 1 .. m /\ k \in 1 .. Total
    <3> DEFINE z == Total
    <3>1. z \in 0 .. 255 /\ m \in 0 .. z
      BY <1>3, <1>4, Zenon
    <3>2. k \in 1 .. m
      BY <1>3, <1>4, <1>8, Zenon
    <3> HIDE DEF z
    <3>3. k \in 1 .. z
      BY <3>1, <3>2
    <3> QED BY <3>2, <3>3 DEF z
  <2>2. StEnd(a, k) + 2 < BufSize
    BY <1>3, <2>1
  <2>3. Counts(a, k, Len(buffer))
    BY <1>8, <2>1, Known_Device
  <2>4. StEnd(a, k) <= Len(buffer)
    <3> DEFINE s == StEnd(a, k)
               w == UsnEnd(a, k)
               cn == Len(Code(a[k].usn))
               y == Len(buffer)
    <3>1. s \in Nat /\ w \in Nat /\ cn \in Nat /\ s + cn <= w
      <4> HIDE DEF a
      <4> QED BY <2>3, Ordered
    <3>2. w <= y
      BY <2>3, Zenon DEF Counts
    <3>3. y \in Nat
      BY <1>4
    <3> HIDE DEF s, w, cn, y
    <3>4. s <= y
      BY <3>1, <3>2, <3>3
    <3> QED BY <3>4 DEF s, y
  <2> QED
    BY <1>5, <2>1, <2>2, <2>4 DEF Came
<1> QED
  BY <1>6, <1>7, <1>8

\* When every answer of the daemon is one by the protocol, the list has each
\* device that arrived, with its own strings and in its order, and no other
\* when the whole answer came (minissdpc.c, lines 92-128).
THEOREM ListExact == AllWellFormed => (Spec => []ListIsAnswer)
<1> SUFFICES ASSUME AllWellFormed PROVE Spec => []ListIsAnswer
  OBVIOUS
<1>1. TypeOK => Known
  BY DEF TypeOK, Known, AllWellFormed
<1>2. Init => Reading
  BY DEF Init, Reading
<1>3. TypeOK /\ Reading /\ [Next]_vars => Reading'
  BY <1>1, ReadingStep
<1>4. TypeOK /\ Reading => ListIsAnswer
  BY <1>1, ListMatches
<1> QED
  BY <1>2, <1>3, <1>4, InsideBuffer, PTL DEF Spec
=============================================================================
