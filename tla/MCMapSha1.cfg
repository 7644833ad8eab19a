CONSTANTS
  Width <- MCWidth
  Byte <- MCByte
  Input <- MCInput
SPECIFICATION Spec
INVARIANT UnpackMatchesReference
INVARIANT RoundTrip
