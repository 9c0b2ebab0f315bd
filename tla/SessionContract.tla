--------------------------- MODULE SessionContract ---------------------------
(***************************************************************************)
(* What the login sessions of one account promise, each request taking     *)
(* effect at once: a session opens only for an active account and within   *)
(* the limit, an ended session stays ended, and its token is exchanged at  *)
(* most once, for an account that is not locked.                           *)
(***************************************************************************)
EXTENDS Integers, FiniteSets

CONSTANTS Session, MaxSessions

VARIABLES
  status,     \* of the account; "none" before it exists
  active,     \* the sessions whose tokens are good
  ended,      \* the sessions that are over
  exchanged   \* those whose token was exchanged for another session

vars == <<status, active, ended, exchanged>>

Init == status = "none" /\ active = {} /\ ended = {} /\ exchanged = {}

\* Nothing of an ended session comes back, and no session is forgotten.
SetStatus ==
  /\ status' \in {"PENDING_VERIFICATION", "ACTIVE", "SUSPENDED", "DEACTIVATED"}
  /\ status = "none" => status' \in {"PENDING_VERIFICATION", "ACTIVE"}
  /\ UNCHANGED <<active, ended, exchanged>>

OpenOne(s) ==
  /\ s \notin active \cup ended
  /\ active' = active \cup {s}
  /\ Cardinality(active') <= MaxSessions
  /\ UNCHANGED <<status, ended>>

Login(s) == status = "ACTIVE" /\ OpenOne(s) /\ UNCHANGED exchanged

Exchange(old, s) ==
  /\ status \notin {"none", "SUSPENDED", "DEACTIVATED"}
  /\ old \in ended \ exchanged
  /\ OpenOne(s)
  /\ exchanged' = exchanged \cup {old}

End(ss) ==
  /\ ss # {}
  /\ active' = active \ ss
  /\ ended' = ended \cup ss
  /\ UNCHANGED <<status, exchanged>>

Next ==
  \/ SetStatus
  \/ \E s \in Session : Login(s) \/ \E old \in Session : Exchange(old, s)
  \/ \E ss \in SUBSET active : End(ss)

Spec == Init /\ [][Next]_vars
=============================================================================
