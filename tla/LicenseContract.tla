--------------------------- MODULE LicenseContract ---------------------------
(***************************************************************************)
(* What the license service promises the rest of the platform: a license   *)
(* is issued, expires or is revoked, and an administrator may ask for any  *)
(* other status and limit, which the service grants or drops; devices are  *)
(* activated on an active license within its limit, never twice, and a     *)
(* revocation leaves none.  Every operation but the administrator's is one *)
(* step here; Licensing shows what the handlers do instead.                *)
(***************************************************************************)
EXTENDS Integers, FiniteSets

CONSTANTS LicenseId, Device, Limits

VARIABLES
  life,     \* "none" before the license is issued, then its status
  limit,    \* the devices that may be activated, 0 before the license is issued
  asked,    \* the <<life, limit>> an administrator asked for and awaits
  devices,  \* the devices activated now
  removed   \* the devices that were activated and are no longer

cvars == <<life, limit, asked, devices, removed>>

Lives == {"active", "expired", "revoked", "inactive", "suspended"}

Init ==
  /\ life = [l \in LicenseId |-> "none"]
  /\ limit = [l \in LicenseId |-> 0]
  /\ asked = [l \in LicenseId |-> {}]
  /\ devices = [l \in LicenseId |-> {}]
  /\ removed = [l \in LicenseId |-> {}]

Issue(l, m) ==
  /\ life[l] = "none"
  /\ life' = [life EXCEPT ![l] = "active"]
  /\ limit' = [limit EXCEPT ![l] = m]
  /\ UNCHANGED <<asked, devices, removed>>

Ask(l, s, m) ==
  /\ life[l] # "none"
  /\ asked' = [asked EXCEPT ![l] = @ \cup {<<s, m>>}]
  /\ UNCHANGED <<life, limit, devices, removed>>

Grant(l, s, m) ==
  /\ <<s, m>> \in asked[l]
  /\ life' = [life EXCEPT ![l] = s]
  /\ limit' = [limit EXCEPT ![l] = m]
  /\ asked' = [asked EXCEPT ![l] = @ \ {<<s, m>>}]
  /\ UNCHANGED <<devices, removed>>

Drop(l, s, m) ==
  /\ <<s, m>> \in asked[l]
  /\ asked' = [asked EXCEPT ![l] = @ \ {<<s, m>>}]
  /\ UNCHANGED <<life, limit, devices, removed>>

Activate(l, d) ==
  /\ life[l] = "active"
  /\ d \notin devices[l] \cup removed[l]
  /\ Cardinality(devices[l]) < limit[l]
  /\ devices' = [devices EXCEPT ![l] = @ \cup {d}]
  /\ UNCHANGED <<life, limit, asked, removed>>

\* Some devices of some licenses are taken off.
Remove(ds) ==
  /\ devices' = [l \in LicenseId |-> devices[l] \ ds[l]]
  /\ removed' = [l \in LicenseId |-> removed[l] \cup (ds[l] \cap devices[l])]
  /\ UNCHANGED <<life, limit, asked>>

Expire(ls) ==
  /\ \A l \in ls : life[l] = "active"
  /\ life' = [l \in LicenseId |-> IF l \in ls THEN "expired" ELSE life[l]]
  /\ UNCHANGED <<limit, asked, devices, removed>>

Revoke(l) ==
  /\ life[l] # "none" /\ devices[l] = {}
  /\ life' = [life EXCEPT ![l] = "revoked"]
  /\ UNCHANGED <<limit, asked, devices, removed>>

Next ==
  \/ \E l \in LicenseId, m \in Limits :
       \/ Issue(l, m)
       \/ \E s \in Lives : Ask(l, s, m) \/ Grant(l, s, m) \/ Drop(l, s, m)
  \/ \E l \in LicenseId, d \in Device : Activate(l, d)
  \/ \E ds \in [LicenseId -> SUBSET Device] : Remove(ds)
  \/ \E ls \in SUBSET LicenseId : Expire(ls)
  \/ \E l \in LicenseId : Revoke(l)

Spec == Init /\ [][Next]_cvars
=============================================================================
