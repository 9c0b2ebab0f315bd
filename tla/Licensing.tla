------------------------------ MODULE Licensing ------------------------------
(***************************************************************************)
(* The license service (modules/license/license.service.ts): licenses, the *)
(* devices activated on them, and the requests that change both.           *)
(*                                                                         *)
(* Three replicas of the backend share one Postgres database and no        *)
(* handler opens a transaction, so two requests interleave at every await. *)
(* A handler is a sequence of steps, one per awaited database statement;   *)
(* between its steps it holds the license row and the relations it loaded. *)
(* TypeORM's save() re-reads the row and writes every column in which the  *)
(* loaded entity differs: the row becomes what the handler holds.          *)
(***************************************************************************)
EXTENDS Integers, FiniteSets

CONSTANTS
  LicenseId,   \* ids of the licenses
  Device,      \* device fingerprints
  Proc,        \* request handlers and queue workers, of all the replicas
  Limits,      \* the values maxDevices may be given
  Dates,       \* the dates a license may be given to expire at
  MaxTime,     \* bound on the clock
  Never,       \* expiresAt = null
  NoRow,       \* the license does not exist (yet)
  NoReq,       \* the handler serves no request
  NoDevice     \* the request names no device

ASSUME ProcAssumption == IsFiniteSet(Proc) /\ Proc # {}
ASSUME DeviceAssumption == IsFiniteSet(Device) /\ NoDevice \notin Device
ASSUME LimitsAssumption == Limits \subseteq Nat /\ Limits # {}
ASSUME ClockAssumption == MaxTime \in Nat /\ Dates \subseteq Nat /\ Never \notin Nat

\* LicenseStatus. The service itself writes the first three; an update may name
\* any of the five.
Status == {"active", "expired", "revoked", "inactive", "suspended"}
NotActive == Status \ {"active"}
Date == Dates \cup {Never}

\* The columns of the licenses table that a handler reads or writes; activated
\* says whether activated_at is set.
Row == [status: Status, maxDevices: Limits, expiresAt: Date, activated: BOOLEAN]

\* What a handler holds between two awaits: the row as it will be saved, and
\* the relations as they were loaded.
Request == [lic: LicenseId, dev: Device \cup {NoDevice}, row: Row \cup {NoRow},
            devices: SUBSET Device, policy: BOOLEAN]

ASSUME NoneAssumption == NoRow \notin Row /\ NoReq \notin Request

VARIABLES
  license,     \* the licenses table
  activation,  \* license_activations: "none", "active" or "inactive" by device
  policy,      \* does the license have its row of access_policies?
  now,         \* the clock the handlers read with new Date()
  pc,          \* the statement a handler runs next
  req,         \* what it holds
  due          \* the ids a scan for expired licenses selected

vars == <<license, activation, policy, now, pc, req, due>>

\* The handlers that have computed a license row and are about to save it.
ActivateSaves == {"activate.expire", "activate.save"}
OtherSaves == {"validate.expire", "update.save", "revoke.save"}
LicenseSaves == ActivateSaves \cup OtherSaves
Steps == LicenseSaves \cup {"idle", "create.policy", "activate.insert", "deactivate.save",
                            "revoke.activations", "scan.expire", "scan.deactivate"}

\* The tables and the handlers' local state have their types.
TypeOK ==
  /\ license \in [LicenseId -> Row \cup {NoRow}]
  /\ activation \in [LicenseId -> [Device -> {"none", "active", "inactive"}]]
  /\ policy \in [LicenseId -> BOOLEAN]
  /\ now \in 0..MaxTime
  /\ pc \in [Proc -> Steps]
  /\ req \in [Proc -> Request \cup {NoReq}]
  /\ due \in [Proc -> SUBSET LicenseId]

ActiveDevices(l) == {d \in Device : activation[l][d] = "active"}
RegisteredDevices(l) == {d \in Device : activation[l][d] # "none"}
Expired(row) == row.expiresAt # Never /\ row.expiresAt < now
Expirable(l) == license[l] # NoRow /\ license[l].status = "active" /\ Expired(license[l])

Init ==
  /\ license = [l \in LicenseId |-> NoRow]
  /\ activation = [l \in LicenseId |-> [d \in Device |-> "none"]]
  /\ policy = [l \in LicenseId |-> FALSE]
  /\ now = 0
  /\ pc = [p \in Proc |-> "idle"]
  /\ req = [p \in Proc |-> NoReq]
  /\ due = [p \in Proc |-> {}]

-----------------------------------------------------------------------------
\* Control of a handler.

\* The request a handler holds after loading license l with its relations.
Loaded(l, d, row) ==
  [lic |-> l, dev |-> d, row |-> row, devices |-> RegisteredDevices(l), policy |-> policy[l]]

Await(p, step, r) ==
  /\ pc' = [pc EXCEPT ![p] = step]
  /\ req' = [req EXCEPT ![p] = r]
  /\ UNCHANGED due

Done(p) ==
  /\ pc' = [pc EXCEPT ![p] = "idle"]
  /\ req' = [req EXCEPT ![p] = NoReq]
  /\ due' = [due EXCEPT ![p] = {}]

\* save() of a license whose activations or policies were loaded makes the
\* database's children equal to the loaded array: a child inserted since is
\* orphaned, its NOT NULL license_id cannot be nulled, and the save throws.
Orphaned(p) ==
  LET l == req[p].lic IN
  \/ /\ pc[p] \in LicenseSaves \ {"validate.expire"}
     /\ RegisteredDevices(l) # req[p].devices
  \/ /\ pc[p] \in OtherSaves
     /\ policy[l] # req[p].policy

SaveLicense(p) ==
  license' = [license EXCEPT ![req[p].lic] = req[p].row]

DeactivateAll(ls) ==
  activation' = [l \in LicenseId |-> [d \in Device |->
                   IF l \in ls /\ activation[l][d] = "active" THEN "inactive"
                   ELSE activation[l][d]]]

-----------------------------------------------------------------------------
\* createLicense: the license is inserted, then its policy.

CreateLicense(p, l) ==
  /\ pc[p] = "idle" /\ license[l] = NoRow
  /\ \E m \in Limits, e \in Date :
       LET row == [status |-> "active", maxDevices |-> m, expiresAt |-> e, activated |-> FALSE]
       IN  /\ license' = [license EXCEPT ![l] = row]
           /\ Await(p, "create.policy", Loaded(l, NoDevice, row))
  /\ UNCHANGED <<activation, policy, now>>

CreatePolicy(p) ==
  /\ pc[p] = "create.policy"
  /\ policy' = [policy EXCEPT ![req[p].lic] = TRUE]
  /\ Done(p)
  /\ UNCHANGED <<license, activation, now>>

\* Mutant: the status is free text.
UpdateFreeText(p, l) ==
  /\ pc[p] = "idle" /\ license[l] # NoRow
  /\ Await(p, "update.save", Loaded(l, NoDevice, [license[l] EXCEPT !.status = "paused"]))
  /\ UNCHANGED <<license, activation, policy, now>>

\* updateLicense: findById, Object.assign of the body, save. The body is declared
\* as a Partial<>, which the ValidationPipe lets through unchecked: it may name any
\* columns at once, the status among them, and the row becomes any other.
UpdateLoad(p, l) ==
  /\ pc[p] = "idle" /\ license[l] # NoRow
  /\ \E row \in Row : Await(p, "update.save", Loaded(l, NoDevice, row))
  /\ UNCHANGED <<license, activation, policy, now>>

UpdateSave(p) ==
  /\ pc[p] = "update.save"
  /\ IF Orphaned(p) THEN UNCHANGED license ELSE SaveLicense(p)
  /\ Done(p)
  /\ UNCHANGED <<activation, policy, now>>

-----------------------------------------------------------------------------
\* activateLicense. A load that ends the request without a write (license not
\* active, device already active, limit reached) changes nothing and is left out.

\* Mutant: the device check admits one device too many.
ActivateLoadOffByOne(p, l, d) ==
  /\ pc[p] = "idle" /\ license[l] # NoRow /\ license[l].status = "active"
  /\ d \notin ActiveDevices(l) /\ Cardinality(ActiveDevices(l)) <= license[l].maxDevices
  /\ Await(p, "activate.insert", Loaded(l, d, license[l]))
  /\ UNCHANGED <<license, activation, policy, now>>

\* Mutant: the status of the license is not looked at.
ActivateLoadAnyStatus(p, l, d) ==
  /\ pc[p] = "idle" /\ license[l] # NoRow /\ ~Expired(license[l])
  /\ d \notin ActiveDevices(l) /\ Cardinality(ActiveDevices(l)) < license[l].maxDevices
  /\ Await(p, "activate.insert", Loaded(l, d, license[l]))
  /\ UNCHANGED <<license, activation, policy, now>>

ActivateLoad(p, l, d) ==
  /\ pc[p] = "idle" /\ license[l] # NoRow /\ license[l].status = "active"
  /\ \/ /\ Expired(license[l])
        /\ Await(p, "activate.expire", Loaded(l, d, [license[l] EXCEPT !.status = "expired"]))
     \/ /\ ~Expired(license[l])
        /\ d \notin ActiveDevices(l)
        /\ Cardinality(ActiveDevices(l)) < license[l].maxDevices
        /\ Await(p, IF license[l].activated THEN "activate.insert" ELSE "activate.save",
                 Loaded(l, d, [license[l] EXCEPT !.activated = TRUE]))
  /\ UNCHANGED <<license, activation, policy, now>>

ActivateExpire(p) ==
  /\ pc[p] = "activate.expire"
  /\ IF Orphaned(p) THEN UNCHANGED license ELSE SaveLicense(p)
  /\ Done(p)
  /\ UNCHANGED <<activation, policy, now>>

\* activated_at is set by a save of the whole license.
ActivateSave(p) ==
  /\ pc[p] = "activate.save"
  /\ IF Orphaned(p) THEN UNCHANGED license /\ Done(p)
     ELSE SaveLicense(p) /\ Await(p, "activate.insert", req[p])
  /\ UNCHANGED <<activation, policy, now>>

\* Mutant: the insert is an upsert.
ActivateUpsert(p) ==
  /\ pc[p] = "activate.insert"
  /\ activation' = [activation EXCEPT ![req[p].lic][req[p].dev] = "active"]
  /\ Done(p)
  /\ UNCHANGED <<license, policy, now>>

\* The activation is always a new row; the unique index on (licenseId,
\* deviceFingerprint) refuses it for a device that ever had one.
ActivateInsert(p) ==
  /\ pc[p] = "activate.insert"
  /\ LET l == req[p].lic  d == req[p].dev IN
       IF activation[l][d] = "none"
       THEN activation' = [activation EXCEPT ![l][d] = "active"]
       ELSE UNCHANGED activation
  /\ Done(p)
  /\ UNCHANGED <<license, policy, now>>

\* deactivateLicense, which removeDevice calls too.
DeactivateLoad(p, l, d) ==
  /\ pc[p] = "idle" /\ activation[l][d] = "active"
  /\ Await(p, "deactivate.save", Loaded(l, d, NoRow))
  /\ UNCHANGED <<license, activation, policy, now>>

DeactivateSave(p) ==
  /\ pc[p] = "deactivate.save"
  /\ activation' = [activation EXCEPT ![req[p].lic][req[p].dev] = "inactive"]
  /\ Done(p)
  /\ UNCHANGED <<license, policy, now>>

-----------------------------------------------------------------------------
\* revokeLicense: load, deactivate every device, then save the license.

\* Mutant: the devices are left to the caller.
RevokeKeepsDevices(p, l) ==
  /\ pc[p] = "idle" /\ license[l] # NoRow
  /\ Await(p, "revoke.save", Loaded(l, NoDevice, [license[l] EXCEPT !.status = "revoked"]))
  /\ UNCHANGED <<license, activation, policy, now>>

RevokeLoad(p, l) ==
  /\ pc[p] = "idle" /\ license[l] # NoRow
  /\ Await(p, "revoke.activations",
           Loaded(l, NoDevice, [license[l] EXCEPT !.status = "revoked"]))
  /\ UNCHANGED <<license, activation, policy, now>>

RevokeActivations(p) ==
  /\ pc[p] = "revoke.activations"
  /\ DeactivateAll({req[p].lic})
  /\ Await(p, "revoke.save", req[p])
  /\ UNCHANGED <<license, policy, now>>

RevokeSave(p) ==
  /\ pc[p] = "revoke.save"
  /\ IF Orphaned(p) THEN UNCHANGED license ELSE SaveLicense(p)
  /\ Done(p)
  /\ UNCHANGED <<activation, policy, now>>

\* validateLicense writes only when it finds an active license past its date.
ValidateLoad(p, l) ==
  /\ pc[p] = "idle" /\ Expirable(l)
  /\ Await(p, "validate.expire", Loaded(l, NoDevice, [license[l] EXCEPT !.status = "expired"]))
  /\ UNCHANGED <<license, activation, policy, now>>

ValidateExpire(p) ==
  /\ pc[p] = "validate.expire"
  /\ IF Orphaned(p) THEN UNCHANGED license ELSE SaveLicense(p)
  /\ Done(p)
  /\ UNCHANGED <<activation, policy, now>>

-----------------------------------------------------------------------------
\* checkExpiredLicenses, run by LicenseExpiryProcessor from a daily cron: the
\* second and third statements name the selected ids and nothing else.

\* Mutant: the scan selects by date only.
ScanAnyStatus(p) ==
  /\ pc[p] = "idle"
  /\ due' = [due EXCEPT ![p] = {l \in LicenseId : license[l] # NoRow /\ Expired(license[l])}]
  /\ pc' = [pc EXCEPT ![p] = "scan.expire"]
  /\ UNCHANGED <<license, activation, policy, now, req>>

ScanLoad(p) ==
  /\ pc[p] = "idle"
  /\ \E l \in LicenseId : Expirable(l)
  /\ due' = [due EXCEPT ![p] = {l \in LicenseId : Expirable(l)}]
  /\ pc' = [pc EXCEPT ![p] = "scan.expire"]
  /\ UNCHANGED <<license, activation, policy, now, req>>

\* Mutant: the scan deactivates devices and leaves the licenses.
ScanForgetsStatus(p) ==
  /\ pc[p] = "scan.expire"
  /\ pc' = [pc EXCEPT ![p] = "scan.deactivate"]
  /\ UNCHANGED <<license, activation, policy, now, req, due>>

ScanExpire(p) ==
  /\ pc[p] = "scan.expire"
  /\ license' = [l \in LicenseId |-> IF l \in due[p] THEN [license[l] EXCEPT !.status = "expired"]
                                     ELSE license[l]]
  /\ pc' = [pc EXCEPT ![p] = "scan.deactivate"]
  /\ UNCHANGED <<activation, policy, now, req, due>>

ScanDeactivate(p) ==
  /\ pc[p] = "scan.deactivate"
  /\ DeactivateAll(due[p])
  /\ Done(p)
  /\ UNCHANGED <<license, policy, now>>

-----------------------------------------------------------------------------
\* A statement fails or the replica dies: the rest of the handler is lost, what
\* it wrote stays.
Crash(p) ==
  /\ pc[p] # "idle"
  /\ Done(p)
  /\ UNCHANGED <<license, activation, policy, now>>

Tick ==
  /\ now < MaxTime
  /\ now' = now + 1
  /\ UNCHANGED <<license, activation, policy, pc, req, due>>

\* The next statement of the request that p serves.
Proceed(p) ==
  \/ CreatePolicy(p) \/ UpdateSave(p)
  \/ ActivateExpire(p) \/ ActivateSave(p) \/ ActivateInsert(p) \/ DeactivateSave(p)
  \/ RevokeActivations(p) \/ RevokeSave(p) \/ ValidateExpire(p)
  \/ ScanExpire(p) \/ ScanDeactivate(p)

Begin(p) ==
  \/ \E l \in LicenseId :
       \/ CreateLicense(p, l) \/ UpdateLoad(p, l) \/ RevokeLoad(p, l) \/ ValidateLoad(p, l)
       \/ \E d \in Device : ActivateLoad(p, l, d) \/ DeactivateLoad(p, l, d)
  \/ ScanLoad(p)

Next ==
  \/ \E p \in Proc : Begin(p) \/ Proceed(p) \/ Crash(p)
  \/ Tick

Spec == Init /\ [][Next]_vars

\* Node runs every handler to its end. The cron starts a scan every day and the
\* worker that runs it waits for no request handler, hence strong fairness.
Fairness ==
  /\ \A p \in Proc : WF_vars(Proceed(p))
  /\ SF_vars(\E p \in Proc : ScanLoad(p))
  /\ SF_vars(\E p \in Proc : ScanExpire(p))
-----------------------------------------------------------------------------
\* Properties.

\* The requests that have passed the device check on l and not inserted yet.
Admitted(l) == {p \in Proc : /\ pc[p] \in {"activate.save", "activate.insert"}
                             /\ req[p].lic = l}

\* Each step of a handler finds what the steps before it loaded.
Coherent(p) ==
  /\ pc[p] \notin {"idle", "scan.expire", "scan.deactivate"} => req[p] \in Request
  /\ pc[p] \in LicenseSaves \cup {"activate.insert", "revoke.activations"} => req[p].row \in Row
  /\ pc[p] \in {"activate.save", "activate.insert", "deactivate.save"} => req[p].dev \in Device
  /\ pc[p] \in {"scan.expire", "scan.deactivate"} => \A l \in due[p] : license[l] # NoRow

\* With TypeOK, an inductive invariant: no handler acts on a license that does
\* not exist or on a request it has not loaded.
HandlerOK == \A p \in Proc : Coherent(p)

\* activateLicense counts, then inserts, with awaits between: concurrent
\* requests may exceed the limit, but each by one device at most, so the excess
\* stays below the number of handlers.
OvershootBounded ==
  \A l \in LicenseId : \E m \in Limits :
    Cardinality(ActiveDevices(l)) <= m + Cardinality(Proc) - 1

\* A device taken off a license (by its owner, an administrator, a revocation or
\* the expiry scan) never counts as activated again, whatever activateLicense
\* requests are in flight.
RemovedStaysRemoved ==
  [][\A l \in LicenseId, d \in Device :
       activation[l][d] = "inactive" => activation'[l][d] = "inactive"]_vars

\* What handler p holds of license l, if anything, it loaded when the status was
\* in S already, and it will add no device.
Holds(p, l, S) ==
  pc[p] \in LicenseSaves \cup {"activate.insert", "revoke.activations"} /\ req[p].lic = l =>
    pc[p] \notin {"activate.save", "activate.insert"} /\ req[p].row.status \in S

\* The license is over, with a status in S, and no handler still holds it as it
\* was before.
Over(l, S) ==
  /\ license[l] # NoRow /\ license[l].status \in S
  /\ \A p \in Proc : Holds(p, l, S)

\* In this step handler p begins to serve an update of l that gives it a status
\* outside S: when l is over, only the body of the request can have named it.
Asks(p, l, S) ==
  /\ pc[p] = "idle" /\ pc'[p] = "update.save"
  /\ req'[p].lic = l /\ req'[p].row.status \notin S

\* A license that expired, was revoked or was set inactive or suspended, and that no
\* earlier load can bring back, stays so and gains no device, until an update asks
\* for it to be active: every other handler that loads it sees its status.
Ended(l) == Over(l, NotActive)

EndedUntilAsked ==
  [][\A l \in LicenseId :
       Ended(l) => /\ Ended(l)' \/ \E p \in Proc : Asks(p, l, NotActive)
                   /\ \A d \in Device : activation'[l][d] = "active" => activation[l][d] = "active"]_vars

\* A revocation that every handler and scan in flight has seen is undone by an
\* update that names another status and by nothing else: neither a lazy expiry nor
\* the scan, which writes EXPIRED to the ids it selected whatever their status is
\* by then, turns it into an expiry.
RevocationSettled(l) ==
  /\ Over(l, {"revoked"})
  /\ \A p \in Proc : pc[p] = "scan.expire" => l \notin due[p]

RevokedUntilAsked ==
  [][\A l \in LicenseId :
       RevocationSettled(l) =>
         RevocationSettled(l)' \/ \E p \in Proc : Asks(p, l, {"revoked"})]_vars

\* A license past its date does not stay ACTIVE: the daily scan gets to it, or a
\* request does, or an update gives it another date or status.
ExpiryNoticed == \A l \in LicenseId : Expirable(l) ~> ~Expirable(l)

\* As documented, max_devices is the "Maximum number of devices that can be
\* activated simultaneously".
DeviceLimit ==
  \A l \in LicenseId : license[l] # NoRow =>
    Cardinality(ActiveDevices(l)) <= license[l].maxDevices

-----------------------------------------------------------------------------
\* The contract.

\* What the update requests in service would make of license l.
Asked(l) ==
  {<<req[p].row.status, req[p].row.maxDevices>> :
     p \in {q \in Proc : pc[q] = "update.save" /\ req[q].lic = l}}

Contract == INSTANCE LicenseContract WITH
  life <- [l \in LicenseId |-> IF license[l] = NoRow THEN "none" ELSE license[l].status],
  limit <- [l \in LicenseId |-> IF license[l] = NoRow THEN 0 ELSE license[l].maxDevices],
  asked <- [l \in LicenseId |-> Asked(l)],
  devices <- [l \in LicenseId |-> ActiveDevices(l)],
  removed <- [l \in LicenseId |-> RegisteredDevices(l) \ ActiveDevices(l)]

\* Handlers that never overlap implement the contract: no activation beyond the
\* limit or on a license that is not active, none of a device that was taken off,
\* no device left by a revocation, and no status or limit but by an expiry, a
\* revocation or the update that asks for it, crashes between two statements of a
\* handler included.
ImplementsContract == Contract!Spec
=============================================================================
