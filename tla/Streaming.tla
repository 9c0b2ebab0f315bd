------------------------------ MODULE Streaming ------------------------------
(***************************************************************************)
(* Streaming (modules/streaming, drm.service.ts and its signed-url.service *)
(* .ts), composed with Licensing: a viewer's request finds the license     *)
(* valid, then loads the row of the content, then signs a URL that is good *)
(* for a while.  The license may end in between, and the URL outlives it.  *)
(* Creators, administrators and GET drm/signed-url, which asks for the     *)
(* permission content:read alone, come to the same signature without a     *)
(* license.  Texts need no URL.                                            *)
(***************************************************************************)
EXTENDS Licensing

CONSTANTS
  Viewer,      \* requests for a URL, of all users and replicas
  Ttls,        \* how long the kinds of content are signed for
  NoLicense,   \* the request needs no license
  Idle         \* the request was answered, or not made yet

ASSUME TtlAssumption == Ttls \subseteq Nat
ASSUME ViewerAssumption == NoLicense \notin LicenseId /\ Idle \notin LicenseId \cup {NoLicense}

VARIABLES
  watches,     \* the license a request has found valid and not signed for yet
  until        \* the time up to which some URL signed for the license is good

svars == <<watches, until>>

\* No request is under way, and no URL was signed: the clock starts later.
StreamInit ==
  /\ Init
  /\ watches = [v \in Viewer |-> Idle]
  /\ until = [l \in LicenseId |-> -1]

\* The licenses and the requests for a stream have their types.
StreamTypeOK ==
  /\ TypeOK
  /\ watches \in [Viewer -> LicenseId \cup {NoLicense, Idle}]
  /\ until \in [LicenseId -> Nat \cup {-1}]

\* Mutant: a license counts as valid up to its date, whatever its status.
WatchByDate(v, l) ==
  /\ watches[v] = Idle
  /\ license[l] # NoRow /\ ~Expired(license[l])
  /\ watches' = [watches EXCEPT ![v] = l]
  /\ UNCHANGED until

\* getStreamConfig and validateLicense. A license past its date is answered by
\* ValidateLoad; any other that is not active, by a refusal.
Watch(v, l) ==
  /\ watches[v] = Idle
  /\ license[l] # NoRow /\ license[l].status = "active" /\ ~Expired(license[l])
  /\ watches' = [watches EXCEPT ![v] = l]
  /\ UNCHANGED until

\* getStreamConfig for a creator or an administrator, and generateAccessSession,
\* sign without looking at a license.
WatchFreely(v) ==
  /\ watches[v] = Idle
  /\ watches' = [watches EXCEPT ![v] = NoLicense]
  /\ UNCHANGED until

\* Mutant: a kind of content has no time to live.
SignForGood(v) ==
  /\ watches[v] # Idle
  /\ until' = [l \in LicenseId |-> IF l = watches[v] THEN Never ELSE until[l]]
  /\ watches' = [watches EXCEPT ![v] = Idle]

\* generateAccessUrl, when the row of the content has come or failed to: both
\* branches sign for the same time, from now on. A URL signed for no license is none
\* that until is about.
SignUrl(v) ==
  /\ watches[v] # Idle
  /\ \E ttl \in Ttls :
       until' = [l \in LicenseId |->
                   IF l = watches[v] /\ until[l] < now + ttl THEN now + ttl ELSE until[l]]
  /\ watches' = [watches EXCEPT ![v] = Idle]

\* The replica dies.
ViewerCrash(v) ==
  /\ watches[v] # Idle
  /\ watches' = [watches EXCEPT ![v] = Idle]
  /\ UNCHANGED until

Stream ==
  \E v \in Viewer :
    (\E l \in LicenseId : Watch(v, l)) \/ WatchFreely(v) \/ SignUrl(v) \/ ViewerCrash(v)

StreamNext == (Next /\ UNCHANGED svars) \/ (Stream /\ UNCHANGED vars)

StreamSpec == StreamInit /\ [][StreamNext]_<<vars, svars>>

\* With the fairness of the handlers and of the cron; nothing is assumed of viewers.
FairStreamSpec == StreamSpec /\ Fairness
-----------------------------------------------------------------------------
\* Once a license is over, no handler holds it as it was before, and the requests
\* that found it valid have been answered, no URL is signed for it any more, unless
\* an update asks for it to be active again: the last one stops being good at a time
\* that is known by then. Of the URLs signed without asking for a license it says
\* nothing.
StreamsOver(l) == Ended(l) /\ \A v \in Viewer : watches[v] # l

NothingSignedAfterEnd ==
  [][\A l \in LicenseId :
       StreamsOver(l) => /\ StreamsOver(l)' \/ \E p \in Proc : Asks(p, l, NotActive)
                         /\ until'[l] = until[l]]_<<vars, svars>>
=============================================================================
