---------------------------- MODULE MCMediaCache ----------------------------
EXTENDS MediaCache

CONSTANTS c1, c2, e1, e2

MCFound == {{}, Keys}

\* Idle callers are interchangeable: the first call is c1's. Of the two enforcements
\* one trims (enforce_budget) and the other only asks for the status. Where artifacts are
\* found at the start they are reused.
OneTrims ==
  /\ calls = 0 => client'[c2] = client[c2]
  /\ ~enforcer'[e2].trim
  /\ (calls = 0 /\ calls' # 0 /\ files # {}) => client'[c1].kind = "reuse"
=============================================================================
