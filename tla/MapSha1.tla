------------------------------ MODULE MapSha1 ------------------------------
(***************************************************************************)
(* MapSha1 of the controller (crates/controller/src/map/mod.rs): the       *)
(* fixed-width map hash and its conversions to and from the byte vector of *)
(* the gRPC message.  An array [u8; Width] and a Vec<u8> are both          *)
(* sequences of bytes here.  The behaviour holds one input vector and      *)
(* never changes it, so that TLC checks the properties on every input of   *)
(* the constant set Input.                                                 *)
(***************************************************************************)
EXTENDS Naturals, Sequences

CONSTANTS
  Width,  \* the hash width, 20 in the code
  Byte,   \* the byte values
  Input   \* the vectors unpack is applied to

ASSUME MapSha1Assumption ==
  /\ Width \in Nat
  /\ 0 \in Byte
  /\ Input \subseteq Seq(Byte)

VARIABLE value

\* MapSha1::to_vec (lines 29-31): the array copied into a vector.
to_vec(sha) == [i \in 1..Width |-> sha[i]]

\* Seeded fault for mutation analysis: pack drops the last byte.
pack_truncated(sha) == [i \in 1..(Width - 1) |-> sha[i]]

\* S2ProtoPack::pack (lines 47-49): self.0.to_vec().
pack(sha) == to_vec(sha)

\* Seeded fault for mutation analysis: the short branch copies one byte
\* less than value.len().
unpack_short_off_by_one(v) ==
  IF Len(v) >= Width
    THEN [i \in 1..Width |-> v[i]]
    ELSE [i \in 1..Width |-> IF i < Len(v) THEN v[i] ELSE 0]

\* S2ProtoUnpack::unpack (lines 35-43): a zeroed array; a vector of at
\* least Width bytes gives its first Width bytes, a shorter one is copied
\* into the front of the array and the rest stays zero.  It never fails.
unpack(v) ==
  IF Len(v) >= Width
    THEN [i \in 1..Width |-> v[i]]
    ELSE [i \in 1..Width |-> IF i <= Len(v) THEN v[i] ELSE 0]

-----------------------------------------------------------------------------
(* The reference: the vector cut to Width bytes, then zero-filled.         *)

Zeros(n) == [i \in 1..n |-> 0]

Kept(v) == IF Len(v) < Width THEN Len(v) ELSE Width

UnpackReference(v) == SubSeq(v, 1, Kept(v)) \o Zeros(Width - Kept(v))

-----------------------------------------------------------------------------

Init == value \in Input

Next == UNCHANGED value

Spec == Init /\ [][Next]_value

\* unpack is the vector cut to its first Width bytes and zero-filled
\* (both branches of S2ProtoUnpack::unpack, and the boundary between).
UnpackMatchesReference == unpack(value) = UnpackReference(value)

\* A hash survives pack then unpack, whereas a vector survives unpack then
\* pack exactly when it has Width bytes: a shorter or longer map_sha1 in a
\* request is accepted, silently, as another hash.
RoundTrip ==
  /\ unpack(pack(unpack(value))) = unpack(value)
  /\ (pack(unpack(value)) = value <=> Len(value) = Width)

=============================================================================
