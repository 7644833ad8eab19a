SPECIFICATION Spec
INVARIANT JoinReplyMatchesSpec
