--------------------------- MODULE MapSha1Proofs ---------------------------
(***************************************************************************)
(* Proofs about MapSha1 for every width, byte set and input set: unpack is *)
(* the cut-and-zero-fill reference, and the round trips hold as stated.    *)
(***************************************************************************)
EXTENDS MapSha1, SequenceTheorems, TLAPS

\* A function on 1..n is a sequence of length n.
LEMMA FunIsSeq ==
  ASSUME NEW S, NEW n \in Nat, NEW f \in [1..n -> S]
  PROVE  f \in Seq(S) /\ Len(f) = n
<1>1. f \in Seq(S)
  BY SeqDef
<1>2. Len(f) \in Nat /\ DOMAIN f = 1..Len(f)
  BY <1>1, LenProperties
<1>. QED
  BY <1>1, <1>2

\* What unpack returns: a Width-byte sequence holding the first bytes of
\* the vector, zeros after them.
LEMMA UnpackShape ==
  ASSUME NEW v \in Seq(Byte)
  PROVE  /\ unpack(v) \in Seq(Byte)
         /\ Len(unpack(v)) = Width
         /\ \A i \in 1..Width :
              unpack(v)[i] = IF i <= Kept(v) THEN v[i] ELSE 0
<1>1. Len(v) \in Nat /\ v \in [1..Len(v) -> Byte]
  BY LenProperties
<1>2. unpack(v) \in [1..Width -> Byte]
  BY <1>1, MapSha1Assumption DEF unpack
<1>3. unpack(v) \in Seq(Byte) /\ Len(unpack(v)) = Width
  BY <1>2, MapSha1Assumption
<1>4. \A i \in 1..Width : unpack(v)[i] = IF i <= Kept(v) THEN v[i] ELSE 0
  BY <1>1, MapSha1Assumption DEF unpack, Kept
<1>. QED
  BY <1>3, <1>4

\* What the reference returns, from the library's facts on SubSeq and \o.
LEMMA ReferenceShape ==
  ASSUME NEW v \in Seq(Byte)
  PROVE  /\ UnpackReference(v) \in Seq(Byte)
         /\ Len(UnpackReference(v)) = Width
         /\ \A i \in 1..Width :
              UnpackReference(v)[i] = IF i <= Kept(v) THEN v[i] ELSE 0
<1> DEFINE k == Kept(v)
           front == SubSeq(v, 1, k)
           back == Zeros(Width - k)
<1>1. Len(v) \in Nat /\ v \in [1..Len(v) -> Byte]
  BY LenProperties
<1>2. k \in 0..Width /\ k <= Len(v)
  BY <1>1, MapSha1Assumption DEF Kept
<1>3. /\ front \in Seq(Byte)
      /\ Len(front) = k
      /\ \A i \in 1..k : front[i] = v[i]
  <2>1. \A i \in 1..k : v[i] \in Byte
    BY <1>1, <1>2
  <2>. QED
    BY <1>2, <2>1, SubSeqProperties
<1>4. /\ back \in Seq(Byte)
      /\ Len(back) = Width - k
      /\ \A i \in 1..(Width - k) : back[i] = 0
  <2>1. back \in [1..(Width - k) -> Byte]
    BY <1>2, MapSha1Assumption DEF Zeros
  <2>2. Width - k \in Nat
    BY <1>2, MapSha1Assumption
  <2>3. back \in Seq(Byte) /\ Len(back) = Width - k
    BY <2>1, <2>2, FunIsSeq
  <2>. QED
    BY <1>2, <2>3 DEF Zeros
<1>5. /\ front \o back \in Seq(Byte)
      /\ Len(front \o back) = Width
      /\ \A i \in 1..Width :
           (front \o back)[i] = IF i <= k THEN front[i] ELSE back[i - k]
  <2>1. /\ front \o back \in Seq(Byte)
        /\ Len(front \o back) = Len(front) + Len(back)
        /\ \A i \in 1..Len(front) + Len(back) :
             (front \o back)[i] =
               IF i <= Len(front) THEN front[i] ELSE back[i - Len(front)]
    BY <1>3, <1>4, ConcatProperties
  <2>. QED
    BY <1>2, <1>3, <1>4, <2>1, MapSha1Assumption
<1>. QED
  BY <1>2, <1>3, <1>4, <1>5 DEF UnpackReference

\* unpack agrees with the reference on every vector of bytes.
THEOREM UnpackIsReference ==
  ASSUME NEW v \in Seq(Byte)
  PROVE  unpack(v) = UnpackReference(v)
BY UnpackShape, ReferenceShape, SeqEqual

\* The two round trips, for every vector of bytes.
LEMMA RoundTripOf ==
  ASSUME NEW v \in Seq(Byte)
  PROVE  /\ unpack(pack(unpack(v))) = unpack(v)
         /\ (pack(unpack(v)) = v <=> Len(v) = Width)
<1> DEFINE u == unpack(v)
<1>1. u \in [1..Width -> Byte] /\ Len(u) = Width
  BY UnpackShape, LenProperties
<1>2. pack(u) = u
  BY <1>1 DEF pack, to_vec
<1>3. unpack(u) = u
  <2>1. unpack(u) = [i \in 1..Width |-> u[i]]
    BY <1>1, MapSha1Assumption DEF unpack
  <2>2. u = [i \in 1..Width |-> u[i]]
    BY <1>1, Zenon
  <2>. QED
    BY <2>1, <2>2
<1>4. u = v <=> Len(v) = Width
  <2>1. Len(v) \in Nat /\ v \in [1..Len(v) -> Byte]
    BY LenProperties
  <2>2. ASSUME u = v PROVE Len(v) = Width
    BY <1>1, <2>1, <2>2, MapSha1Assumption
  <2>3. ASSUME Len(v) = Width PROVE u = v
    BY <2>1, <2>3, MapSha1Assumption DEF unpack
  <2>. QED
    BY <2>2, <2>3
<1>. QED
  BY <1>2, <1>3, <1>4

\* The run's state is a vector of bytes throughout.
ValueOK == value \in Seq(Byte)

LEMMA ValueIsBytes == Spec => []ValueOK
<1>1. Init => ValueOK
  BY MapSha1Assumption DEF Init, ValueOK
<1>2. ValueOK /\ [Next]_value => ValueOK'
  BY DEF Next, ValueOK
<1>. QED
  BY <1>1, <1>2, PTL DEF Spec

\* The checked invariant UnpackMatchesReference, for every instance.
THEOREM UnpackCorrect == Spec => []UnpackMatchesReference
<1>1. ValueOK => UnpackMatchesReference
  BY UnpackIsReference DEF UnpackMatchesReference, ValueOK
<1>. QED
  BY <1>1, ValueIsBytes, PTL

\* The checked invariant RoundTrip, for every instance.
THEOREM RoundTripCorrect == Spec => []RoundTrip
<1>1. ValueOK => RoundTrip
  BY RoundTripOf DEF RoundTrip, ValueOK
<1>. QED
  BY <1>1, ValueIsBytes, PTL

=============================================================================
