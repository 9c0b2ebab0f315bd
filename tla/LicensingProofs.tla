--------------------------- MODULE LicensingProofs ---------------------------
(***************************************************************************)
(* Theorems about Licensing and Streaming, for any number of licenses,     *)
(* devices, handlers, viewers and limits:                                  *)
(*                                                                         *)
(*  - type correctness and the invariants and action properties of         *)
(*    Licensing, whose inductive invariant is IndInv;                      *)
(*  - that it implements LicenseContract when requests are served one at a *)
(*    time;                                                                *)
(*  - what Streaming, which reads the licenses, promises.                  *)
(***************************************************************************)
EXTENDS Streaming, FiniteSetTheorems, TLAPS

IndInv == TypeOK /\ HandlerOK

-----------------------------------------------------------------------------
\* The handlers' local state.

\* A handler that loads a license holds a well-typed request.
LEMMA LoadedType ==
  ASSUME TypeOK, NEW l \in LicenseId, NEW d \in Device \cup {NoDevice},
         NEW row \in Row \cup {NoRow}
  PROVE  Loaded(l, d, row) \in Request
  BY DEF TypeOK, Loaded, Request, RegisteredDevices

\* Moving a handler to its next statement keeps the types.
LEMMA AwaitType ==
  ASSUME TypeOK, NEW p \in Proc, NEW step \in Steps, NEW r \in Request, Await(p, step, r)
  PROVE  /\ pc' \in [Proc -> Steps]
         /\ req' \in [Proc -> Request \cup {NoReq}]
         /\ due' \in [Proc -> SUBSET LicenseId]
  BY DEF TypeOK, Await

\* A handler that ends keeps the types of the local state.
LEMMA DoneType ==
  ASSUME TypeOK, NEW p \in Proc, Done(p)
  PROVE  /\ pc' \in [Proc -> Steps]
         /\ req' \in [Proc -> Request \cup {NoReq}]
         /\ due' \in [Proc -> SUBSET LicenseId]
  BY DEF TypeOK, Done, Steps

\* A step of p that only moves p between statements leaves the others coherent.
LEMMA OthersCoherent ==
  ASSUME TypeOK, HandlerOK, NEW p \in Proc, NEW q \in Proc,
         pc'[q] = pc[q], req'[q] = req[q], due'[q] = due[q],
         \A l \in LicenseId : license[l] # NoRow => license'[l] # NoRow
  PROVE  Coherent(q)'
<1>1. due[q] \subseteq LicenseId
  BY DEF TypeOK
<1> QED BY <1>1 DEF HandlerOK, Coherent

\* A handler that ends is coherent, and so are the others.
LEMMA DoneCoherent ==
  ASSUME TypeOK, HandlerOK, NEW p \in Proc, Done(p),
         \A l \in LicenseId : license[l] # NoRow => license'[l] # NoRow
  PROVE  HandlerOK'
<1> SUFFICES ASSUME NEW q \in Proc
             PROVE  Coherent(q)'
  BY DEF HandlerOK
<1>1. CASE q = p
  BY <1>1 DEF Done, TypeOK, Coherent, LicenseSaves, ActivateSaves, OtherSaves
<1>2. CASE q # p
  BY <1>2, OthersCoherent DEF Done, TypeOK
<1> QED BY <1>1, <1>2

\* A handler that awaits its next statement with what this statement needs.
LEMMA AwaitCoherent ==
  ASSUME TypeOK, HandlerOK, NEW p \in Proc, NEW step \in Steps, NEW r \in Request,
         Await(p, step, r), step \notin {"scan.expire", "scan.deactivate"},
         step \in LicenseSaves \cup {"activate.insert", "revoke.activations"} => r.row \in Row,
         step \in {"activate.save", "activate.insert", "deactivate.save"} => r.dev \in Device,
         \A l \in LicenseId : license[l] # NoRow => license'[l] # NoRow
  PROVE  HandlerOK'
<1> SUFFICES ASSUME NEW q \in Proc
             PROVE  Coherent(q)'
  BY DEF HandlerOK
<1>1. CASE q = p
  BY <1>1 DEF Await, TypeOK, Coherent
<1>2. CASE q # p
  BY <1>2, OthersCoherent DEF Await, TypeOK
<1> QED BY <1>1, <1>2

-----------------------------------------------------------------------------
\* The license table.

\* Saving the row a handler holds keeps the table typed and its licenses there.
LEMMA SaveType ==
  ASSUME TypeOK, NEW p \in Proc, req[p] \in Request, req[p].row \in Row, SaveLicense(p)
  PROVE  /\ license' \in [LicenseId -> Row \cup {NoRow}]
         /\ \A l \in LicenseId : license[l] # NoRow => license'[l] # NoRow
  BY NoneAssumption DEF TypeOK, SaveLicense, Request

\* Taking devices off keeps the type of the activations.
LEMMA DeactivateAllType ==
  ASSUME TypeOK, NEW ls, DeactivateAll(ls)
  PROVE  activation' \in [LicenseId -> [Device -> {"none", "active", "inactive"}]]
  BY DEF TypeOK, DeactivateAll

-----------------------------------------------------------------------------
\* Each action keeps the inductive invariant.

\* createLicense keeps the invariant.
LEMMA CreateStep ==
  ASSUME IndInv, NEW p \in Proc, NEW l \in LicenseId, CreateLicense(p, l)
  PROVE  IndInv'
<1> USE DEF IndInv
<1>1. PICK m \in Limits, e \in Date :
        LET row == [status |-> "active", maxDevices |-> m, expiresAt |-> e, activated |-> FALSE]
        IN  /\ license' = [license EXCEPT ![l] = row]
            /\ Await(p, "create.policy", Loaded(l, NoDevice, row))
  BY DEF CreateLicense
<1> DEFINE row == [status |-> "active", maxDevices |-> m, expiresAt |-> e, activated |-> FALSE]
<1>2. row \in Row
  BY DEF Row, Status
<1>3. Loaded(l, NoDevice, row) \in Request
  BY <1>2, LoadedType
<1> HIDE DEF row
<1>4. /\ license' = [license EXCEPT ![l] = row]
      /\ Await(p, "create.policy", Loaded(l, NoDevice, row))
  BY <1>1 DEF row
<1>5. /\ license' \in [LicenseId -> Row \cup {NoRow}]
      /\ \A k \in LicenseId : license[k] # NoRow => license'[k] # NoRow
  BY <1>2, <1>4, NoneAssumption DEF TypeOK
<1>6. TypeOK'
  BY <1>3, <1>4, <1>5, AwaitType DEF TypeOK, CreateLicense, Steps
<1>7. HandlerOK'
  BY <1>3, <1>4, <1>5, AwaitCoherent DEF Steps, LicenseSaves, ActivateSaves, OtherSaves
<1> QED BY <1>6, <1>7

\* A handler that loads license l and will save row.
LEMMA LoadStep ==
  ASSUME IndInv, NEW p \in Proc, NEW l \in LicenseId, NEW d \in Device \cup {NoDevice},
         NEW row \in Row, NEW step \in Steps \ {"scan.expire", "scan.deactivate"},
         step \in {"activate.save", "activate.insert", "deactivate.save"} => d \in Device,
         Await(p, step, Loaded(l, d, row)), UNCHANGED <<license, activation, policy, now>>
  PROVE  IndInv'
<1> USE DEF IndInv
<1>1. Loaded(l, d, row) \in Request
  BY LoadedType
<1>2. Loaded(l, d, row).row = row /\ Loaded(l, d, row).dev = d
  BY DEF Loaded
<1>3. TypeOK'
  BY <1>1, AwaitType DEF TypeOK
<1>4. HandlerOK'
  BY <1>1, <1>2, AwaitCoherent
<1> QED BY <1>3, <1>4

\* A handler that saves the license it holds, or fails to, and ends.
LEMMA SaveStep ==
  ASSUME IndInv, NEW p \in Proc, pc[p] \in LicenseSaves,
         UNCHANGED license \/ SaveLicense(p), Done(p), UNCHANGED <<activation, policy, now>>
  PROVE  IndInv'
<1> USE DEF IndInv
<1>1. req[p] \in Request /\ req[p].row \in Row
  BY DEF HandlerOK, Coherent, LicenseSaves, ActivateSaves, OtherSaves
<1>2. /\ license' \in [LicenseId -> Row \cup {NoRow}]
      /\ \A l \in LicenseId : license[l] # NoRow => license'[l] # NoRow
  <2>1. CASE UNCHANGED license
    BY <2>1 DEF TypeOK
  <2>2. CASE SaveLicense(p)
    BY <1>1, <2>2, SaveType
  <2> QED BY <2>1, <2>2
<1>3. TypeOK'
  BY <1>2, DoneType DEF TypeOK
<1>4. HandlerOK'
  BY <1>2, DoneCoherent
<1> QED BY <1>3, <1>4

\* A handler that ends with a write to another table, or with none.
LEMMA EndStep ==
  ASSUME IndInv, NEW p \in Proc, Done(p), UNCHANGED <<license, now>>,
         activation' \in [LicenseId -> [Device -> {"none", "active", "inactive"}]],
         policy' \in [LicenseId -> BOOLEAN]
  PROVE  IndInv'
<1> USE DEF IndInv
<1>1. TypeOK'
  BY DoneType DEF TypeOK
<1>2. HandlerOK'
  BY DoneCoherent
<1> QED BY <1>1, <1>2
\* updateLicense, revokeLicense and validateLicense load the license they change.
LEMMA UpdateLoadStep ==
  ASSUME IndInv, NEW p \in Proc, NEW l \in LicenseId, UpdateLoad(p, l)
  PROVE  IndInv'
<1>1. PICK row \in Row : Await(p, "update.save", Loaded(l, NoDevice, row))
  BY DEF UpdateLoad
<1> QED BY <1>1, LoadStep DEF UpdateLoad, Steps, LicenseSaves, OtherSaves

\* The load of revokeLicense.
LEMMA RevokeLoadStep ==
  ASSUME IndInv, NEW p \in Proc, NEW l \in LicenseId, RevokeLoad(p, l)
  PROVE  IndInv'
<1>1. license[l] \in Row
  BY DEF RevokeLoad, IndInv, TypeOK
<1>2. [license[l] EXCEPT !.status = "revoked"] \in Row
  BY <1>1 DEF Row, Status
<1> QED BY <1>2, LoadStep DEF RevokeLoad, Steps

\* The load of validateLicense.
LEMMA ValidateLoadStep ==
  ASSUME IndInv, NEW p \in Proc, NEW l \in LicenseId, ValidateLoad(p, l)
  PROVE  IndInv'
<1>1. license[l] \in Row
  BY DEF ValidateLoad, Expirable, IndInv, TypeOK
<1>2. [license[l] EXCEPT !.status = "expired"] \in Row
  BY <1>1 DEF Row, Status
<1> QED BY <1>2, LoadStep DEF ValidateLoad, Steps, LicenseSaves, OtherSaves

\* The checks of activateLicense.
LEMMA ActivateLoadStep ==
  ASSUME IndInv, NEW p \in Proc, NEW l \in LicenseId, NEW d \in Device, ActivateLoad(p, l, d)
  PROVE  IndInv'
<1>1. license[l] \in Row
  BY DEF ActivateLoad, IndInv, TypeOK
<1>2. CASE Await(p, "activate.expire", Loaded(l, d, [license[l] EXCEPT !.status = "expired"]))
  <2>1. [license[l] EXCEPT !.status = "expired"] \in Row
    BY <1>1 DEF Row, Status
  <2> QED BY <1>2, <2>1, LoadStep DEF ActivateLoad, Steps, LicenseSaves, ActivateSaves
<1>3. CASE Await(p, IF license[l].activated THEN "activate.insert" ELSE "activate.save",
                 Loaded(l, d, [license[l] EXCEPT !.activated = TRUE]))
  <2>1. [license[l] EXCEPT !.activated = TRUE] \in Row
    BY <1>1 DEF Row
  <2> QED BY <1>3, <2>1, LoadStep DEF ActivateLoad, Steps, LicenseSaves, ActivateSaves
<1> QED BY <1>2, <1>3 DEF ActivateLoad

\* The save of activated_at, which goes on to the insert.
LEMMA ActivateSaveStep ==
  ASSUME IndInv, NEW p \in Proc, ActivateSave(p)
  PROVE  IndInv'
<1> USE DEF IndInv
<1>1. req[p] \in Request /\ req[p].row \in Row /\ req[p].dev \in Device
  BY DEF ActivateSave, HandlerOK, Coherent, LicenseSaves, ActivateSaves
<1>2. CASE UNCHANGED license /\ Done(p)
  BY <1>2, SaveStep DEF ActivateSave, LicenseSaves, ActivateSaves
<1>3. CASE SaveLicense(p) /\ Await(p, "activate.insert", req[p])
  <2>1. /\ license' \in [LicenseId -> Row \cup {NoRow}]
        /\ \A l \in LicenseId : license[l] # NoRow => license'[l] # NoRow
    BY <1>1, <1>3, SaveType
  <2>2. "activate.insert" \in Steps
    BY DEF Steps
  <2>3. TypeOK'
    BY <1>1, <1>3, <2>1, <2>2, AwaitType DEF TypeOK, ActivateSave
  <2>4. HandlerOK'
    BY <1>1, <1>3, <2>1, <2>2, AwaitCoherent
  <2> QED BY <2>3, <2>4
<1> QED BY <1>2, <1>3 DEF ActivateSave

\* The load of deactivateLicense.
LEMMA DeactivateLoadStep ==
  ASSUME IndInv, NEW p \in Proc, NEW l \in LicenseId, NEW d \in Device, DeactivateLoad(p, l, d)
  PROVE  IndInv'
<1> USE DEF IndInv
<1>1. Loaded(l, d, NoRow) \in Request /\ Loaded(l, d, NoRow).dev = d
  BY LoadedType DEF Loaded
<1>2. "deactivate.save" \in Steps
  BY DEF Steps
<1>3. TypeOK'
  BY <1>1, <1>2, AwaitType DEF TypeOK, DeactivateLoad
<1>4. HandlerOK'
  BY <1>1, <1>2, AwaitCoherent DEF DeactivateLoad, LicenseSaves, ActivateSaves, OtherSaves
<1> QED BY <1>3, <1>4

\* The update of revokeLicense, which goes on to the save.
LEMMA RevokeActivationsStep ==
  ASSUME IndInv, NEW p \in Proc, RevokeActivations(p)
  PROVE  IndInv'
<1> USE DEF IndInv
<1>1. req[p] \in Request /\ req[p].row \in Row
  BY DEF RevokeActivations, HandlerOK, Coherent
<1>2. "revoke.save" \in Steps
  BY DEF Steps, LicenseSaves, OtherSaves
<1>3. TypeOK'
  BY <1>1, <1>2, AwaitType, DeactivateAllType DEF TypeOK, RevokeActivations
<1>4. HandlerOK'
  BY <1>1, <1>2, AwaitCoherent DEF RevokeActivations
<1> QED BY <1>3, <1>4

\* checkExpiredLicenses.
LEMMA ScanLoadStep ==
  ASSUME IndInv, NEW p \in Proc, ScanLoad(p)
  PROVE  IndInv'
<1> USE DEF IndInv
<1>1. TypeOK'
  BY DEF TypeOK, ScanLoad, Steps
<1>2. ASSUME NEW q \in Proc
      PROVE  Coherent(q)'
  <2>1. CASE q = p
    BY <2>1 DEF ScanLoad, TypeOK, Coherent, Expirable, LicenseSaves, ActivateSaves, OtherSaves
  <2>2. CASE q # p
    BY <2>2, OthersCoherent DEF ScanLoad, TypeOK
  <2> QED BY <2>1, <2>2
<1> QED BY <1>1, <1>2 DEF HandlerOK

\* The update of the scan: the selected licenses still exist.
LEMMA ScanExpireStep ==
  ASSUME IndInv, NEW p \in Proc, ScanExpire(p)
  PROVE  IndInv'
<1> USE DEF IndInv
<1>1. ASSUME NEW l \in LicenseId
      PROVE  /\ license'[l] \in Row \cup {NoRow}
             /\ license[l] # NoRow => license'[l] # NoRow
  <2>1. CASE l \in due[p]
    <3>1. license[l] \in Row
      BY <2>1 DEF ScanExpire, HandlerOK, Coherent, TypeOK
    <3>2. license'[l] = [license[l] EXCEPT !.status = "expired"]
      BY <2>1 DEF ScanExpire
    <3>3. license'[l] \in Row
      BY <3>1, <3>2 DEF Row, Status
    <3> QED BY <3>3, NoneAssumption
  <2>2. CASE l \notin due[p]
    BY <2>2 DEF ScanExpire, TypeOK
  <2> QED BY <2>1, <2>2
<1>2. license' \in [LicenseId -> Row \cup {NoRow}]
  BY <1>1 DEF ScanExpire
<1>3. TypeOK'
  BY <1>2 DEF TypeOK, ScanExpire, Steps
<1>4. ASSUME NEW q \in Proc
      PROVE  Coherent(q)'
  <2>1. CASE q = p
    BY <1>1, <2>1 DEF ScanExpire, TypeOK, HandlerOK, Coherent, LicenseSaves, ActivateSaves, OtherSaves
  <2>2. CASE q # p
    BY <1>1, <2>2, OthersCoherent DEF ScanExpire, TypeOK
  <2> QED BY <2>1, <2>2
<1> QED BY <1>3, <1>4 DEF HandlerOK

\* The clock ticks, or nothing happens.
LEMMA StutterStep ==
  ASSUME IndInv, UNCHANGED <<license, activation, policy, pc, req, due>>, now' \in 0..MaxTime
  PROVE  IndInv'
  BY DEF IndInv, TypeOK, HandlerOK, Coherent

-----------------------------------------------------------------------------
\* The handlers only ever hold requests they loaded, for licenses that exist,
\* and the tables keep their types.
THEOREM TypeCorrect == Spec => [](TypeOK /\ HandlerOK)
<1>1. Init => IndInv
  BY NoneAssumption, ClockAssumption
  DEF Init, IndInv, TypeOK, HandlerOK, Coherent, Steps, LicenseSaves, ActivateSaves, OtherSaves
<1>2. IndInv /\ [Next]_vars => IndInv'
  <2> SUFFICES ASSUME IndInv, [Next]_vars
               PROVE  IndInv'
    OBVIOUS
  <2> USE DEF LicenseSaves, ActivateSaves, OtherSaves
  <2>1. ASSUME NEW p \in Proc, NEW l \in LicenseId,
               CreateLicense(p, l) \/ UpdateLoad(p, l) \/ RevokeLoad(p, l) \/ ValidateLoad(p, l)
        PROVE  IndInv'
    BY <2>1, CreateStep, UpdateLoadStep, RevokeLoadStep, ValidateLoadStep
  <2>2. ASSUME NEW p \in Proc, NEW l \in LicenseId, NEW d \in Device,
               ActivateLoad(p, l, d) \/ DeactivateLoad(p, l, d)
        PROVE  IndInv'
    BY <2>2, ActivateLoadStep, DeactivateLoadStep
  <2>3. ASSUME NEW p \in Proc, CreatePolicy(p)
        PROVE  IndInv'
    BY <2>3, EndStep DEF CreatePolicy, IndInv, TypeOK
  <2>4. ASSUME NEW p \in Proc,
               UpdateSave(p) \/ ActivateExpire(p) \/ RevokeSave(p) \/ ValidateExpire(p)
        PROVE  IndInv'
    BY <2>4, SaveStep DEF UpdateSave, ActivateExpire, RevokeSave, ValidateExpire
  <2>5. ASSUME NEW p \in Proc, ActivateInsert(p) \/ DeactivateSave(p) \/ Crash(p)
        PROVE  IndInv'
    <3>1. CASE ActivateInsert(p)
      <4>1. CASE activation[req[p].lic][req[p].dev] = "none"
        <5>1. activation' = [activation EXCEPT ![req[p].lic][req[p].dev] = "active"]
          BY <3>1, <4>1 DEF ActivateInsert
        <5>2. activation' \in [LicenseId -> [Device -> {"none", "active", "inactive"}]]
          BY <5>1 DEF IndInv, TypeOK
        <5> QED BY <3>1, <5>2, EndStep DEF ActivateInsert, IndInv, TypeOK
      <4>2. CASE activation[req[p].lic][req[p].dev] # "none"
        BY <3>1, <4>2, EndStep DEF ActivateInsert, IndInv, TypeOK
      <4> QED BY <4>1, <4>2
    <3>2. CASE DeactivateSave(p)
      BY <3>2, EndStep DEF DeactivateSave, IndInv, TypeOK
    <3>3. CASE Crash(p)
      BY <3>3, EndStep DEF Crash, IndInv, TypeOK
    <3> QED BY <2>5, <3>1, <3>2, <3>3
  <2>6. ASSUME NEW p \in Proc, ScanDeactivate(p)
        PROVE  IndInv'
    BY <2>6, EndStep, DeactivateAllType DEF ScanDeactivate, IndInv, TypeOK
  <2>7. ASSUME NEW p \in Proc,
               ActivateSave(p) \/ RevokeActivations(p) \/ ScanLoad(p) \/ ScanExpire(p)
        PROVE  IndInv'
    BY <2>7, ActivateSaveStep, RevokeActivationsStep, ScanLoadStep, ScanExpireStep
  <2>8. CASE Tick
    BY <2>8, StutterStep, ClockAssumption DEF Tick, IndInv, TypeOK
  <2>9. CASE UNCHANGED vars
    BY <2>9, StutterStep DEF vars, IndInv, TypeOK
  <2> QED BY <2>1, <2>2, <2>3, <2>4, <2>5, <2>6, <2>7, <2>8, <2>9 DEF Next, Begin, Proceed
<1> QED BY <1>1, <1>2, PTL DEF Spec, IndInv

-----------------------------------------------------------------------------
\* Seats: the devices of a license and the handlers admitted to add one.

\* A handler that ends is no longer admitted anywhere.
LEMMA DoneAdmits ==
  ASSUME TypeOK, NEW p \in Proc, Done(p), NEW l \in LicenseId
  PROVE  Admitted(l)' \subseteq Admitted(l) \ {p}
  BY DEF TypeOK, Done, Admitted

\* Only the device check of activateLicense admits a handler.
LEMMA AwaitAdmits ==
  ASSUME TypeOK, NEW p \in Proc, NEW step, NEW r, Await(p, step, r), NEW l \in LicenseId,
         step \notin {"activate.save", "activate.insert"}
  PROVE  Admitted(l)' \subseteq Admitted(l)
  BY DEF TypeOK, Await, Admitted

\* Deactivating devices frees seats.
LEMMA DeactivateAllFrees ==
  ASSUME TypeOK, NEW ls, DeactivateAll(ls), NEW l \in LicenseId
  PROVE  ActiveDevices(l)' \subseteq ActiveDevices(l)
  BY DEF TypeOK, DeactivateAll, ActiveDevices

\* Every step takes no seat of l, or turns an admitted handler into a device, or
\* admits a handler below the limit.
TakesNone(l) ==
  ActiveDevices(l)' \subseteq ActiveDevices(l) /\ Admitted(l)' \subseteq Admitted(l)

Inserts(p, l) ==
  /\ p \in Admitted(l) /\ Admitted(l)' \subseteq Admitted(l) \ {p}
  /\ ActiveDevices(l)' \subseteq ActiveDevices(l) \cup {req[p].dev}

Admits(p, l) ==
  /\ p \notin Admitted(l) /\ Admitted(l)' \subseteq Admitted(l) \cup {p}
  /\ ActiveDevices(l)' = ActiveDevices(l)
  /\ license[l].maxDevices \in Limits
  /\ Cardinality(ActiveDevices(l)) < license[l].maxDevices

\* Every step is one of these three for each license.
LEMMA SeatStep ==
  ASSUME IndInv, [Next]_vars, NEW l \in LicenseId
  PROVE  TakesNone(l) \/ \E p \in Proc : Inserts(p, l) \/ Admits(p, l)
<1> USE DEF IndInv
<1>1. ASSUME UNCHANGED activation
      PROVE  ActiveDevices(l)' = ActiveDevices(l)
  BY <1>1 DEF ActiveDevices
<1>2. ASSUME NEW p \in Proc, UNCHANGED activation, Done(p)
      PROVE  TakesNone(l)
  BY <1>1, <1>2, DoneAdmits DEF TakesNone
<1>3. ASSUME NEW p \in Proc, NEW step, NEW r, UNCHANGED activation, Await(p, step, r),
             step \notin {"activate.save", "activate.insert"}
      PROVE  TakesNone(l)
  BY <1>1, <1>3, AwaitAdmits DEF TakesNone
<1>4. ASSUME NEW p \in Proc, NEW k \in LicenseId,
             CreateLicense(p, k) \/ UpdateLoad(p, k) \/ RevokeLoad(p, k) \/ ValidateLoad(p, k)
      PROVE  TakesNone(l)
  <2>1. CASE CreateLicense(p, k)
    BY <1>3, <2>1 DEF CreateLicense
  <2>2. CASE UpdateLoad(p, k)
    <3>1. UNCHANGED activation
      BY <2>2 DEF UpdateLoad
    <3>2. \E r : Await(p, "update.save", r)
      BY <2>2, Zenon DEF UpdateLoad
    <3> QED BY <1>3, <3>1, <3>2
  <2>3. CASE RevokeLoad(p, k)
    BY <1>3, <2>3 DEF RevokeLoad
  <2>4. CASE ValidateLoad(p, k)
    BY <1>3, <2>4 DEF ValidateLoad
  <2> QED BY <1>4, <2>1, <2>2, <2>3, <2>4
<1>5. ASSUME NEW p \in Proc, NEW k \in LicenseId, NEW d \in Device, ActivateLoad(p, k, d)
      PROVE  TakesNone(l) \/ Admits(p, l)
  <2>1. CASE Expired(license[k])
    BY <1>3, <1>5, <2>1 DEF ActivateLoad
  <2>2. CASE ~Expired(license[k]) /\ k = l
    <3>1. Admitted(l)' \subseteq Admitted(l) \cup {p} /\ p \notin Admitted(l)
      BY <1>5, <2>2 DEF ActivateLoad, Await, Admitted, TypeOK
    <3>2. license[l] \in Row
      BY <1>5, <2>2 DEF ActivateLoad, TypeOK
    <3>3. license[l].maxDevices \in Limits
      BY <3>2 DEF Row
    <3> QED BY <1>1, <1>5, <2>2, <3>1, <3>3 DEF ActivateLoad, Admits
  <2>3. CASE ~Expired(license[k]) /\ k # l
    BY <1>1, <1>5, <2>3 DEF ActivateLoad, Await, Loaded, Admitted, TypeOK, TakesNone
  <2> QED BY <2>1, <2>2, <2>3
<1>6. ASSUME NEW p \in Proc, NEW k \in LicenseId, NEW d \in Device, DeactivateLoad(p, k, d)
      PROVE  TakesNone(l)
  BY <1>3, <1>6 DEF DeactivateLoad
<1>7. ASSUME NEW p \in Proc,
             \/ CreatePolicy(p) \/ UpdateSave(p) \/ ActivateExpire(p)
             \/ RevokeSave(p) \/ ValidateExpire(p) \/ Crash(p)
      PROVE  TakesNone(l)
  BY <1>2, <1>7 DEF CreatePolicy, UpdateSave, ActivateExpire, RevokeSave, ValidateExpire, Crash
<1>8. ASSUME NEW p \in Proc, ActivateSave(p)
      PROVE  TakesNone(l)
  BY <1>1, <1>2, <1>8 DEF ActivateSave, Await, Admitted, TypeOK, TakesNone
<1>9. ASSUME NEW p \in Proc, ActivateInsert(p)
      PROVE  TakesNone(l) \/ Inserts(p, l)
  <2>1. Admitted(l)' \subseteq Admitted(l) \ {p}
    BY <1>9, DoneAdmits DEF ActivateInsert
  <2>2. CASE req[p].lic = l
    <3>1. p \in Admitted(l)
      BY <1>9, <2>2 DEF ActivateInsert, Admitted
    <3>2. ActiveDevices(l)' \subseteq ActiveDevices(l) \cup {req[p].dev}
      BY <1>9, <2>2 DEF ActivateInsert, ActiveDevices, TypeOK
    <3> QED BY <2>1, <3>1, <3>2 DEF Inserts
  <2>3. CASE req[p].lic # l
    BY <1>9, <2>1, <2>3 DEF ActivateInsert, ActiveDevices, TypeOK, TakesNone
  <2> QED BY <2>2, <2>3
<1>10. ASSUME NEW p \in Proc, DeactivateSave(p)
       PROVE  TakesNone(l)
  <2>1. ActiveDevices(l)' \subseteq ActiveDevices(l)
    BY <1>10 DEF DeactivateSave, ActiveDevices, TypeOK
  <2> QED BY <1>10, <2>1, DoneAdmits DEF DeactivateSave, TakesNone
<1>11. ASSUME NEW p \in Proc, RevokeActivations(p) \/ ScanDeactivate(p)
       PROVE  TakesNone(l)
  BY <1>11, DeactivateAllFrees, DoneAdmits, AwaitAdmits DEF RevokeActivations, ScanDeactivate, TakesNone
<1>12. ASSUME NEW p \in Proc, ScanLoad(p) \/ ScanExpire(p)
       PROVE  TakesNone(l)
  BY <1>1, <1>12 DEF ScanLoad, ScanExpire, Admitted, TypeOK, TakesNone
<1>13. CASE Tick \/ UNCHANGED vars
  BY <1>13 DEF Tick, vars, ActiveDevices, Admitted, TakesNone
<1> QED BY <1>4, <1>5, <1>6, <1>7, <1>8, <1>9, <1>10, <1>11, <1>12, <1>13 DEF Next, Begin, Proceed

\* The devices of a license and the handlers admitted on it, together.
Room(l) == \E m \in Limits :
  Cardinality(ActiveDevices(l)) + Cardinality(Admitted(l)) <= m + Cardinality(Proc) - 1

\* Active devices and admitted handlers are finitely many.
LEMMA SeatsFinite ==
  ASSUME NEW l \in LicenseId
  PROVE  /\ IsFiniteSet(ActiveDevices(l)) /\ Cardinality(ActiveDevices(l)) \in Nat
         /\ IsFiniteSet(Admitted(l)) /\ Cardinality(Admitted(l)) \in Nat
         /\ Cardinality(Proc) \in Nat \ {0}
<1>1. ActiveDevices(l) \in SUBSET Device /\ Admitted(l) \in SUBSET Proc
  BY DEF ActiveDevices, Admitted
<1> QED BY <1>1, DeviceAssumption, ProcAssumption, FS_Subset, FS_CardinalityType, FS_EmptySet

\* A set that gains one element at most grows by one at most.
LEMMA GrowByOne ==
  ASSUME NEW S, NEW T, NEW x, IsFiniteSet(S), T \subseteq S \cup {x}
  PROVE  Cardinality(T) <= Cardinality(S) + 1
<1> DEFINE n == Cardinality(S)
<1>0. n \in Nat
  BY FS_CardinalityType
<1>1. IsFiniteSet(S \cup {x}) /\ Cardinality(S \cup {x}) \in {n, n + 1}
  BY FS_AddElement
<1>2. Cardinality(T) <= Cardinality(S \cup {x}) /\ IsFiniteSet(T)
  BY <1>1, FS_Subset
<1>3. Cardinality(T) \in Nat
  BY <1>2, FS_CardinalityType
<1> QED BY <1>0, <1>1, <1>2, <1>3

\* A set that loses an element shrinks by one at least.
LEMMA ShrinkByOne ==
  ASSUME NEW S, NEW T, NEW x \in S, IsFiniteSet(S), T \subseteq S \ {x}
  PROVE  Cardinality(T) <= Cardinality(S) - 1
<1>1. IsFiniteSet(S \ {x}) /\ Cardinality(S \ {x}) = Cardinality(S) - 1
  BY FS_RemoveElement
<1>2. Cardinality(T) <= Cardinality(S \ {x})
  BY <1>1, FS_Subset
<1> QED BY <1>1, <1>2

\* Every step leaves the room: who takes a seat was counted when it was admitted.
LEMMA RoomStep ==
  ASSUME IndInv, [Next]_vars, NEW l \in LicenseId, Room(l)
  PROVE  Room(l)'
<1> DEFINE n == Cardinality(Proc)
           a == Cardinality(ActiveDevices(l))    b == Cardinality(Admitted(l))
           c == Cardinality(ActiveDevices(l)')   e == Cardinality(Admitted(l)')
<1>1. PICK m \in Limits : a + b <= m + n - 1
  BY DEF Room
<1>2. a \in Nat /\ b \in Nat /\ n \in Nat \ {0} /\ m \in Nat
  BY SeatsFinite, LimitsAssumption
<1>3. IsFiniteSet(ActiveDevices(l)) /\ IsFiniteSet(Admitted(l)) /\ IsFiniteSet(Proc)
  BY SeatsFinite, ProcAssumption
<1>4. ActiveDevices(l)' \in SUBSET Device /\ Admitted(l)' \in SUBSET Proc
  BY DEF ActiveDevices, Admitted
<1>5. c \in Nat /\ e \in Nat
  BY <1>4, DeviceAssumption, ProcAssumption, FS_Subset, FS_CardinalityType
<1>6. CASE TakesNone(l)
  <2>1. c <= a /\ e <= b
    BY <1>3, <1>6, FS_Subset DEF TakesNone
  <2>2. c + e <= m + n - 1
    BY <1>1, <1>2, <1>5, <2>1
  <2> QED BY <2>2 DEF Room
<1>7. ASSUME NEW p \in Proc, Inserts(p, l)
      PROVE  Room(l)'
  <2>1. c <= a + 1
    BY <1>3, <1>7, GrowByOne DEF Inserts
  <2>2. e <= b - 1
    BY <1>3, <1>7, ShrinkByOne DEF Inserts
  <2>3. c + e <= m + n - 1
    BY <1>1, <1>2, <1>5, <2>1, <2>2
  <2> QED BY <2>3 DEF Room
<1>8. ASSUME NEW p \in Proc, Admits(p, l)
      PROVE  Room(l)'
  <2> DEFINE k == license[l].maxDevices
  <2>1. k \in Limits /\ k \in Nat /\ a < k /\ c = a
    BY <1>8, LimitsAssumption DEF Admits
  <2>2. e <= n
    BY <1>3, <1>4, FS_Subset
  <2>3. c + e <= k + n - 1
    BY <1>2, <1>5, <2>1, <2>2
  <2> QED BY <2>1, <2>3 DEF Room
<1> QED BY <1>6, <1>7, <1>8, SeatStep

\* However many handlers race, a license never has more devices than its highest
\* limit plus the number of other handlers.
THEOREM OvershootTheorem == Spec => []OvershootBounded
<1> DEFINE Inv == IndInv /\ \A l \in LicenseId : Room(l)
<1>1. Init => \A l \in LicenseId : Room(l)
  <2> SUFFICES ASSUME Init, NEW l \in LicenseId
               PROVE  Room(l)
    OBVIOUS
  <2>1. ActiveDevices(l) = {} /\ Admitted(l) = {}
    BY DEF Init, ActiveDevices, Admitted
  <2>2. PICK m \in Limits : m \in Nat
    BY LimitsAssumption
  <2>3. Cardinality({}) = 0 /\ Cardinality(Proc) \in Nat \ {0}
    BY SeatsFinite, FS_EmptySet
  <2>4. 0 + 0 <= m + Cardinality(Proc) - 1
    BY <2>2, <2>3
  <2> QED BY <2>1, <2>2, <2>3, <2>4 DEF Room
<1>2. IndInv /\ (\A l \in LicenseId : Room(l)) /\ [Next]_vars => (\A l \in LicenseId : Room(l))'
  BY RoomStep
<1>3. (\A l \in LicenseId : Room(l)) => OvershootBounded
  <2> SUFFICES ASSUME NEW l \in LicenseId, Room(l)
               PROVE  \E m \in Limits :
                        Cardinality(ActiveDevices(l)) <= m + Cardinality(Proc) - 1
    BY DEF OvershootBounded
  <2>1. PICK m \in Limits :
          Cardinality(ActiveDevices(l)) + Cardinality(Admitted(l)) <= m + Cardinality(Proc) - 1
    BY DEF Room
  <2>2. Cardinality(ActiveDevices(l)) <= m + Cardinality(Proc) - 1
    BY <2>1, SeatsFinite, LimitsAssumption
  <2> QED BY <2>2
<1>4. Spec => []IndInv
  BY TypeCorrect, PTL DEF IndInv
<1> QED BY <1>1, <1>2, <1>3, <1>4, PTL DEF Spec
-----------------------------------------------------------------------------
\* Licenses that are over.

\* The row of a license is written by a save of what a handler holds of it, or
\* by the expiry scan that selected it.
SavedBy(p, l) ==
  pc[p] \in LicenseSaves /\ req[p].lic = l /\ req[p].row \in Row /\ license'[l] = req[p].row

ScannedBy(p, l) ==
  /\ pc[p] = "scan.expire" /\ l \in due[p]
  /\ license'[l] = [license[l] EXCEPT !.status = "expired"]

\* A license row changes by a save or by the scan.
LEMMA LicenseWrites ==
  ASSUME IndInv, [Next]_vars, NEW l \in LicenseId, license[l] # NoRow
  PROVE  license'[l] = license[l] \/ \E p \in Proc : SavedBy(p, l) \/ ScannedBy(p, l)
<1> USE DEF IndInv
<1>1. ASSUME NEW p \in Proc, pc[p] \in LicenseSaves, SaveLicense(p)
      PROVE  license'[l] = license[l] \/ SavedBy(p, l)
  <2>1. req[p].row \in Row
    BY <1>1 DEF HandlerOK, Coherent
  <2>2. CASE req[p].lic = l
    BY <1>1, <2>1, <2>2 DEF SaveLicense, SavedBy, TypeOK
  <2>3. CASE req[p].lic # l
    BY <1>1, <2>3 DEF SaveLicense, TypeOK
  <2> QED BY <2>2, <2>3
<1>2. ASSUME NEW p \in Proc, UpdateSave(p) \/ ActivateExpire(p) \/ ActivateSave(p)
                             \/ RevokeSave(p) \/ ValidateExpire(p)
      PROVE  license'[l] = license[l] \/ SavedBy(p, l)
  BY <1>1, <1>2 DEF UpdateSave, ActivateExpire, ActivateSave, RevokeSave, ValidateExpire,
                    LicenseSaves, ActivateSaves, OtherSaves
<1>3. ASSUME NEW p \in Proc, ScanExpire(p)
      PROVE  license'[l] = license[l] \/ ScannedBy(p, l)
  BY <1>3 DEF ScanExpire, ScannedBy
<1>4. ASSUME NEW p \in Proc, NEW k \in LicenseId, CreateLicense(p, k)
      PROVE  license'[l] = license[l]
  BY <1>4 DEF CreateLicense, TypeOK
<1>5. ASSUME NEW p \in Proc, NEW k \in LicenseId,
             \/ UpdateLoad(p, k) \/ RevokeLoad(p, k) \/ ValidateLoad(p, k)
             \/ \E d \in Device : ActivateLoad(p, k, d) \/ DeactivateLoad(p, k, d)
      PROVE  license'[l] = license[l]
  BY <1>5 DEF UpdateLoad, RevokeLoad, ValidateLoad, ActivateLoad, DeactivateLoad
<1>6. ASSUME NEW p \in Proc,
             \/ CreatePolicy(p) \/ ActivateInsert(p) \/ DeactivateSave(p) \/ RevokeActivations(p)
             \/ ScanLoad(p) \/ ScanDeactivate(p) \/ Crash(p)
      PROVE  license'[l] = license[l]
  BY <1>6 DEF CreatePolicy, ActivateInsert, DeactivateSave, RevokeActivations, ScanLoad,
              ScanDeactivate, Crash
<1>7. CASE Tick \/ UNCHANGED vars
  BY <1>7 DEF Tick, vars
<1> QED BY <1>2, <1>3, <1>4, <1>5, <1>6, <1>7 DEF Next, Begin, Proceed

\* The sets of statuses of a license that is over.
Overs == {{"revoked"}, NotActive}

\* A handler that loads a license that is over, or another one, holds it over.
LEMMA LoadHolds ==
  ASSUME IndInv, NEW l \in LicenseId, NEW S \in Overs, Over(l, S), NEW p \in Proc, NEW q \in Proc,
         NEW k \in LicenseId, NEW d, NEW row, NEW step, Await(p, step, Loaded(k, d, row)),
         k = l => step \notin {"activate.save", "activate.insert"},
         k = l /\ step \in LicenseSaves \cup {"revoke.activations"} => row.status \in S
  PROVE  Holds(q, l, S)'
<1>1. CASE q = p
  BY <1>1 DEF IndInv, TypeOK, Await, Loaded, Holds, LicenseSaves, ActivateSaves, OtherSaves
<1>2. CASE q # p
  BY <1>2 DEF IndInv, TypeOK, Await, Over, Holds
<1> QED BY <1>1, <1>2

\* A handler that ends holds nothing.
LEMMA DoneHolds ==
  ASSUME IndInv, NEW l \in LicenseId, NEW S \in Overs, Over(l, S), NEW p \in Proc, NEW q \in Proc, Done(p)
  PROVE  Holds(q, l, S)'
  BY DEF IndInv, TypeOK, Done, Over, Holds, LicenseSaves, ActivateSaves, OtherSaves

\* No step makes a handler hold a license with a status that it does not have, but
\* the load of an update that asks for it.
LEMMA HoldersStep ==
  ASSUME IndInv, [Next]_vars, NEW l \in LicenseId, NEW S \in Overs, Over(l, S), NEW q \in Proc,
         \A p \in Proc : ~Asks(p, l, S)
  PROVE  Holds(q, l, S)'
<1> USE DEF LicenseSaves, ActivateSaves, OtherSaves
<1>1. /\ license[l] \in Row /\ license[l].status \in S /\ license[l].status # "active"
      /\ "revoked" \in S
  BY DEF Over, Overs, NotActive, Status, IndInv, TypeOK
<1>2. ASSUME NEW p \in Proc, NEW k \in LicenseId, CreateLicense(p, k)
      PROVE  Holds(q, l, S)'
  <2>1. k # l
    BY <1>2 DEF CreateLicense, Over
  <2>2. \E row : Await(p, "create.policy", Loaded(k, NoDevice, row))
    BY <1>2, Zenon DEF CreateLicense
  <2> QED BY <2>1, <2>2, LoadHolds
<1>3. ASSUME NEW p \in Proc, NEW k \in LicenseId, UpdateLoad(p, k)
      PROVE  Holds(q, l, S)'
  <2>1. PICK row \in Row : Await(p, "update.save", Loaded(k, NoDevice, row))
    BY <1>3 DEF UpdateLoad
  <2>2. k = l => row.status \in S
    BY <1>3, <2>1 DEF UpdateLoad, Asks, Await, Loaded, IndInv, TypeOK
  <2> QED BY <2>1, <2>2, LoadHolds
<1>4. ASSUME NEW p \in Proc, NEW k \in LicenseId, RevokeLoad(p, k)
      PROVE  Holds(q, l, S)'
  <2> DEFINE row == [license[k] EXCEPT !.status = "revoked"]
  <2>1. k = l => row.status \in S
    BY <1>1 DEF Row
  <2>2. Await(p, "revoke.activations", Loaded(k, NoDevice, row))
    BY <1>4 DEF RevokeLoad
  <2> HIDE DEF row
  <2> QED BY <2>1, <2>2, LoadHolds
<1>5. ASSUME NEW p \in Proc, NEW k \in LicenseId, ValidateLoad(p, k)
      PROVE  Holds(q, l, S)'
  <2>1. k # l
    BY <1>1, <1>5 DEF ValidateLoad, Expirable
  <2> QED BY <1>5, <2>1, LoadHolds DEF ValidateLoad
<1>6. ASSUME NEW p \in Proc, NEW k \in LicenseId, NEW d \in Device, ActivateLoad(p, k, d)
      PROVE  Holds(q, l, S)'
  <2>1. k # l
    BY <1>1, <1>6 DEF ActivateLoad
  <2>2. \E step, row : Await(p, step, Loaded(k, d, row))
    BY <1>6, Zenon DEF ActivateLoad
  <2> QED BY <2>1, <2>2, LoadHolds
<1>7. ASSUME NEW p \in Proc, NEW k \in LicenseId, NEW d \in Device, DeactivateLoad(p, k, d)
      PROVE  Holds(q, l, S)'
  BY <1>7, LoadHolds DEF DeactivateLoad
<1>8. ASSUME NEW p \in Proc,
             \/ CreatePolicy(p) \/ UpdateSave(p) \/ ActivateExpire(p) \/ ActivateInsert(p)
             \/ DeactivateSave(p) \/ RevokeSave(p) \/ ValidateExpire(p) \/ ScanDeactivate(p)
             \/ Crash(p)
      PROVE  Holds(q, l, S)'
  BY <1>8, DoneHolds DEF CreatePolicy, UpdateSave, ActivateExpire, ActivateInsert,
       DeactivateSave, RevokeSave, ValidateExpire, ScanDeactivate, Crash
<1>9. ASSUME NEW p \in Proc, ActivateSave(p)
      PROVE  Holds(q, l, S)'
  <2>1. req[p].lic # l
    BY <1>9 DEF ActivateSave, Over, Holds
  <2> QED BY <1>9, <2>1, DoneHolds DEF ActivateSave, Await, IndInv, TypeOK, Over, Holds
<1>10. ASSUME NEW p \in Proc, RevokeActivations(p)
       PROVE  Holds(q, l, S)'
  BY <1>10 DEF RevokeActivations, Await, IndInv, TypeOK, Over, Holds
<1>11. ASSUME NEW p \in Proc, ScanLoad(p) \/ ScanExpire(p)
       PROVE  Holds(q, l, S)'
  BY <1>11 DEF ScanLoad, ScanExpire, IndInv, TypeOK, Over, Holds
<1>12. CASE Tick \/ UNCHANGED vars
  BY <1>12 DEF Tick, vars, Over, Holds
<1> QED BY <1>2, <1>3, <1>4, <1>5, <1>6, <1>7, <1>8, <1>9, <1>10, <1>11, <1>12
        DEF Next, Begin, Proceed

\* A license that is over stays over, with a status of the same set, until an update
\* asks for another.
LEMMA OverStep ==
  ASSUME IndInv, [Next]_vars, NEW l \in LicenseId, NEW S \in Overs, Over(l, S),
         \A p \in Proc : ~Asks(p, l, S),
         \A p \in Proc : ScannedBy(p, l) => "expired" \in S
  PROVE  Over(l, S)'
<1>1. license[l] \in Row /\ license[l] # NoRow /\ license[l].status \in S
  BY DEF Over, IndInv, TypeOK
<1>2. license'[l] \in Row /\ license'[l].status \in S
  <2>1. CASE license'[l] = license[l]
    BY <1>1, <2>1
  <2>2. ASSUME NEW p \in Proc, SavedBy(p, l)
        PROVE  license'[l] \in Row /\ license'[l].status \in S
    BY <2>2 DEF SavedBy, Over, Holds
  <2>3. ASSUME NEW p \in Proc, ScannedBy(p, l)
        PROVE  license'[l] \in Row /\ license'[l].status \in S
    BY <1>1, <2>3 DEF ScannedBy, Row, Status
  <2> QED BY <1>1, <2>1, <2>2, <2>3, LicenseWrites
<1> QED BY <1>2, HoldersStep, NoneAssumption DEF Over

\* A license that is over, and that no handler holds as it was before, stays over
\* until an update asks for it to be active, and gains no device in that step either.
THEOREM EndedTheorem == Spec => EndedUntilAsked
<1>1. ASSUME IndInv, [Next]_vars, NEW l \in LicenseId, Ended(l)
      PROVE  /\ Ended(l)' \/ \E p \in Proc : Asks(p, l, NotActive)
             /\ \A d \in Device : activation'[l][d] = "active" => activation[l][d] = "active"
  <2>1. Ended(l)' \/ \E p \in Proc : Asks(p, l, NotActive)
    <3>1. NotActive \in Overs /\ "expired" \in NotActive
      BY DEF Overs, NotActive, Status
    <3> QED BY <1>1, <3>1, OverStep DEF Ended
  <2>2. \A p \in Proc : p \notin Admitted(l)
    BY <1>1 DEF Ended, Over, Holds, Admitted, LicenseSaves, ActivateSaves
  <2>3. ActiveDevices(l)' \subseteq ActiveDevices(l)
    BY <1>1, <2>2, SeatStep DEF TakesNone, Inserts, Admits
  <2> QED BY <2>1, <2>3 DEF ActiveDevices
<1>2. IndInv /\ [Next]_vars =>
        [\A l \in LicenseId :
           Ended(l) => /\ Ended(l)' \/ \E p \in Proc : Asks(p, l, NotActive)
                       /\ \A d \in Device : activation'[l][d] = "active" => activation[l][d] = "active"]_vars
  BY <1>1
<1>3. Spec => []IndInv
  BY TypeCorrect, PTL DEF IndInv
<1> QED BY <1>2, <1>3, PTL DEF Spec, EndedUntilAsked

\* No scan selects a revoked license.
LEMMA ScansStep ==
  ASSUME IndInv, [Next]_vars, NEW l \in LicenseId, license[l].status = "revoked",
         NEW p \in Proc, pc[p] = "scan.expire" => l \notin due[p], (pc[p] = "scan.expire")'
  PROVE  l \notin due'[p]
<1>1. ASSUME NEW q \in Proc, ScanLoad(q)
      PROVE  l \notin due'[p]
  BY <1>1 DEF ScanLoad, Expirable, IndInv, TypeOK
<1>2. ASSUME NEW q \in Proc, ScanExpire(q)
      PROVE  l \notin due'[p]
  BY <1>2 DEF ScanExpire, IndInv, TypeOK
<1>3. ASSUME NEW q \in Proc, Done(q)
      PROVE  l \notin due'[p]
  BY <1>3 DEF Done, IndInv, TypeOK
<1>4. ASSUME NEW q \in Proc, NEW step, NEW r, Await(q, step, r), step # "scan.expire"
      PROVE  l \notin due'[p]
  BY <1>4 DEF Await, IndInv, TypeOK
<1>5. ASSUME NEW q \in Proc, NEW k \in LicenseId,
             \/ CreateLicense(q, k) \/ UpdateLoad(q, k) \/ RevokeLoad(q, k) \/ ValidateLoad(q, k)
             \/ \E d \in Device : ActivateLoad(q, k, d) \/ DeactivateLoad(q, k, d)
      PROVE  l \notin due'[p]
  <2>1. \E step, r : Await(q, step, r) /\ step # "scan.expire"
    <3>1. CASE CreateLicense(q, k)
      <4>1. \E r : Await(q, "create.policy", r)
        BY <3>1, Zenon DEF CreateLicense
      <4> QED BY <4>1
    <3>2. CASE UpdateLoad(q, k)
      <4>1. \E r : Await(q, "update.save", r)
        BY <3>2, Zenon DEF UpdateLoad
      <4> QED BY <4>1
    <3>3. CASE RevokeLoad(q, k) \/ ValidateLoad(q, k)
      BY <3>3 DEF RevokeLoad, ValidateLoad
    <3>4. ASSUME NEW d \in Device, ActivateLoad(q, k, d) \/ DeactivateLoad(q, k, d)
          PROVE  \E step, r : Await(q, step, r) /\ step # "scan.expire"
      BY <3>4 DEF ActivateLoad, DeactivateLoad
    <3> QED BY <1>5, <3>1, <3>2, <3>3, <3>4
  <2> QED BY <1>4, <2>1
<1>6. ASSUME NEW q \in Proc,
             \/ CreatePolicy(q) \/ UpdateSave(q) \/ ActivateExpire(q) \/ ActivateSave(q)
             \/ ActivateInsert(q) \/ DeactivateSave(q) \/ RevokeActivations(q) \/ RevokeSave(q)
             \/ ValidateExpire(q) \/ ScanDeactivate(q) \/ Crash(q)
      PROVE  l \notin due'[p]
  BY <1>3, <1>4, <1>6 DEF CreatePolicy, UpdateSave, ActivateExpire, ActivateSave, ActivateInsert,
       DeactivateSave, RevokeActivations, RevokeSave, ValidateExpire, ScanDeactivate, Crash
<1>7. CASE Tick \/ UNCHANGED vars
  BY <1>7 DEF Tick, vars
<1> QED BY <1>1, <1>2, <1>5, <1>6, <1>7 DEF Next, Begin, Proceed

\* A revocation that no handler and no scan has yet to hear of is undone by an update
\* that names another status, and by nothing else.
THEOREM RevocationTheorem == Spec => RevokedUntilAsked
<1>1. ASSUME IndInv, [Next]_vars, NEW l \in LicenseId, RevocationSettled(l),
             \A p \in Proc : ~Asks(p, l, {"revoked"})
      PROVE  RevocationSettled(l)'
  <2>1. Over(l, {"revoked"})'
    <3>1. \A p \in Proc : ~ScannedBy(p, l)
      BY <1>1 DEF RevocationSettled, ScannedBy
    <3> QED BY <1>1, <3>1, OverStep DEF RevocationSettled, Overs
  <2>2. ASSUME NEW p \in Proc, pc'[p] = "scan.expire"
        PROVE  l \notin due'[p]
    BY <1>1, <2>2, ScansStep DEF RevocationSettled, Over
  <2> QED BY <2>1, <2>2 DEF RevocationSettled
<1>2. IndInv /\ [Next]_vars =>
        [\A l \in LicenseId :
           RevocationSettled(l) =>
             RevocationSettled(l)' \/ \E p \in Proc : Asks(p, l, {"revoked"})]_vars
  BY <1>1
<1>3. Spec => []IndInv
  BY TypeCorrect, PTL DEF IndInv
<1> QED BY <1>2, <1>3, PTL DEF Spec, RevokedUntilAsked

-----------------------------------------------------------------------------
\* Devices that were taken off.

\* No step makes an inactive activation active: ActivateInsert, the only one that
\* makes any, needs that there be none.
LEMMA RemovedStep ==
  ASSUME IndInv, [Next]_vars, NEW l \in LicenseId, NEW d \in Device,
         activation[l][d] = "inactive"
  PROVE  activation'[l][d] = "inactive"
<1> USE DEF IndInv
<1>1. ASSUME NEW p \in Proc, ActivateInsert(p)
      PROVE  activation'[l][d] = "inactive"
  BY <1>1 DEF ActivateInsert, TypeOK
<1>2. ASSUME NEW p \in Proc, DeactivateSave(p)
      PROVE  activation'[l][d] = "inactive"
  BY <1>2 DEF DeactivateSave, TypeOK
<1>3. ASSUME NEW p \in Proc, RevokeActivations(p) \/ ScanDeactivate(p)
      PROVE  activation'[l][d] = "inactive"
  BY <1>3 DEF RevokeActivations, ScanDeactivate, DeactivateAll
<1>4. ASSUME NEW p \in Proc, NEW k \in LicenseId,
             \/ CreateLicense(p, k) \/ UpdateLoad(p, k) \/ RevokeLoad(p, k) \/ ValidateLoad(p, k)
             \/ \E e \in Device : ActivateLoad(p, k, e) \/ DeactivateLoad(p, k, e)
      PROVE  activation'[l][d] = "inactive"
  BY <1>4 DEF CreateLicense, UpdateLoad, RevokeLoad, ValidateLoad, ActivateLoad, DeactivateLoad
<1>5. ASSUME NEW p \in Proc,
             \/ CreatePolicy(p) \/ UpdateSave(p) \/ ActivateExpire(p) \/ ActivateSave(p)
             \/ RevokeSave(p) \/ ValidateExpire(p) \/ ScanLoad(p) \/ ScanExpire(p) \/ Crash(p)
      PROVE  activation'[l][d] = "inactive"
  BY <1>5 DEF CreatePolicy, UpdateSave, ActivateExpire, ActivateSave, RevokeSave, ValidateExpire,
              ScanLoad, ScanExpire, Crash
<1>6. CASE Tick \/ UNCHANGED vars
  BY <1>6 DEF Tick, vars
<1> QED BY <1>1, <1>2, <1>3, <1>4, <1>5, <1>6 DEF Next, Begin, Proceed

\* A device that was taken off a license never counts as activated on it again.
THEOREM RemovedTheorem == Spec => RemovedStaysRemoved
<1>1. IndInv /\ [Next]_vars =>
        [\A l \in LicenseId, d \in Device :
           activation[l][d] = "inactive" => activation'[l][d] = "inactive"]_vars
  BY RemovedStep
<1>2. Spec => []IndInv
  BY TypeCorrect, PTL DEF IndInv
<1> QED BY <1>1, <1>2, PTL DEF Spec, RemovedStaysRemoved

-----------------------------------------------------------------------------
(* Licensing implements LicenseContract when requests are served one at a  *)
(* time: for any number of licenses and devices, and any limits.           *)

\* One handler, of requests and scans alike.
OneAtATime == \A p, q \in Proc : p = q

\* What handler p holds is what the tables say, with its own change.
Current(p) ==
  LET l == req[p].lic  d == req[p].dev  row == req[p].row IN
  /\ pc[p] \in LicenseSaves \cup {"activate.insert", "revoke.activations"} => license[l] \in Row
  /\ pc[p] \in LicenseSaves \ {"update.save"} => row.maxDevices = license[l].maxDevices
  /\ pc[p] = "revoke.activations" => row.maxDevices = license[l].maxDevices
  /\ pc[p] \in {"activate.expire", "validate.expire"} =>
       license[l].status = "active" /\ row.status = "expired"
  /\ pc[p] \in {"activate.save", "activate.insert"} =>
       /\ license[l].status = "active" /\ row.status = "active"
       /\ d \notin ActiveDevices(l) /\ Cardinality(ActiveDevices(l)) < license[l].maxDevices
  /\ pc[p] = "deactivate.save" => d \in ActiveDevices(l)
  /\ pc[p] \in {"revoke.activations", "revoke.save"} => row.status = "revoked"
  /\ pc[p] = "revoke.save" => ActiveDevices(l) = {}
  /\ pc[p] = "scan.expire" =>
       \A m \in due[p] : license[m] \in Row /\ license[m].status = "active"

CurrentOK == \A p \in Proc : Current(p)

-----------------------------------------------------------------------------
\* The refinement mapping, and what the steps of the contract are under it.

Life == [l \in LicenseId |-> IF license[l] = NoRow THEN "none" ELSE license[l].status]
Limit == [l \in LicenseId |-> IF license[l] = NoRow THEN 0 ELSE license[l].maxDevices]
Requests == [l \in LicenseId |-> Asked(l)]
Activated == [l \in LicenseId |-> ActiveDevices(l)]
Removed == [l \in LicenseId |-> RegisteredDevices(l) \ ActiveDevices(l)]

\* A step of the contract or none.
Allowed == Contract!Next \/ UNCHANGED Contract!cvars

\* What the only handler asks for.
LEMMA OneRequest ==
  ASSUME OneAtATime, NEW p \in Proc
  PROVE  /\ Requests = [l \in LicenseId |->
              IF pc[p] = "update.save" /\ req[p].lic = l
              THEN {<<req[p].row.status, req[p].row.maxDevices>>} ELSE {}]
         /\ Requests' = [l \in LicenseId |->
              IF pc'[p] = "update.save" /\ req'[p].lic = l
              THEN {<<req'[p].row.status, req'[p].row.maxDevices>>} ELSE {}]
<1>1. \A q \in Proc : q = p
  BY DEF OneAtATime
<1>2. \A l \in LicenseId :
        Asked(l) = IF pc[p] = "update.save" /\ req[p].lic = l
                   THEN {<<req[p].row.status, req[p].row.maxDevices>>} ELSE {}
  BY <1>1 DEF Asked
<1>3. \A l \in LicenseId :
        Asked(l)' = IF pc'[p] = "update.save" /\ req'[p].lic = l
                    THEN {<<req'[p].row.status, req'[p].row.maxDevices>>} ELSE {}
  BY <1>1 DEF Asked
<1> QED BY <1>2, <1>3 DEF Requests

\* A handler that neither serves nor begins an update asks for nothing.
LEMMA NoRequest ==
  ASSUME OneAtATime, NEW p \in Proc, pc[p] # "update.save", pc'[p] # "update.save"
  PROVE  Requests' = Requests
  BY OneRequest

\* A handler of another request that ends asks for nothing.
LEMMA DoneAsksNothing ==
  ASSUME OneAtATime, IndInv, NEW p \in Proc, pc[p] # "update.save", Done(p)
  PROVE  Requests' = Requests
<1>1. pc'[p] = "idle"
  BY DEF IndInv, TypeOK, Done
<1> QED BY <1>1, NoRequest

\* A handler that goes on asks for nothing but when it begins an update.
LEMMA AwaitAsksNothing ==
  ASSUME OneAtATime, IndInv, NEW p \in Proc, pc[p] # "update.save", NEW step \in Steps, NEW r,
         Await(p, step, r), step # "update.save"
  PROVE  Requests' = Requests
<1>1. pc'[p] = step
  BY DEF IndInv, TypeOK, Await
<1> QED BY <1>1, NoRequest

\* A step that changes neither the licenses, the activations nor what is asked for is
\* none of the contract's.
LEMMA NoneAllowed ==
  ASSUME UNCHANGED <<license, activation>>, Requests' = Requests
  PROVE  Allowed
  BY DEF Allowed, Contract!cvars, ActiveDevices, RegisteredDevices, Requests

\* A step that changes the rows of some licenses, whose activations stay.
LEMMA RowsMap ==
  ASSUME TypeOK, activation' = activation
  PROVE  Activated' = Activated /\ Removed' = Removed
  BY DEF Activated, Removed, ActiveDevices, RegisteredDevices

\* A license is issued.
LEMMA IssueAllowed ==
  ASSUME TypeOK, NEW l \in LicenseId, NEW row \in Row, license[l] = NoRow, row.status = "active",
         license' = [license EXCEPT ![l] = row], activation' = activation, Requests' = Requests
  PROVE  Allowed
<1>1. Life[l] = "none" /\ Life' = [Life EXCEPT ![l] = "active"]
  BY NoneAssumption DEF TypeOK, Life
<1>2. Limit' = [Limit EXCEPT ![l] = row.maxDevices] /\ row.maxDevices \in Limits
  BY NoneAssumption DEF TypeOK, Limit, Row
<1>3. Contract!Issue(l, row.maxDevices)
  BY <1>1, <1>2, RowsMap DEF Contract!Issue, Life, Limit, Activated, Removed, Requests
<1> QED BY <1>2, <1>3 DEF Allowed, Contract!Next

\* Only columns change that the contract does not know.
LEMMA SameAllowed ==
  ASSUME TypeOK, NEW l \in LicenseId, NEW row \in Row, license[l] \in Row,
         row.status = license[l].status, row.maxDevices = license[l].maxDevices,
         license' = [license EXCEPT ![l] = row], activation' = activation, Requests' = Requests
  PROVE  Allowed
<1>1. Life' = Life /\ Limit' = Limit
  BY NoneAssumption DEF TypeOK, Life, Limit
<1>2. UNCHANGED Contract!cvars
  BY <1>1, RowsMap DEF Contract!cvars, Life, Limit, Activated, Removed, Requests
<1> QED BY <1>2 DEF Allowed

\* An update begins.
LEMMA AskAllowed ==
  ASSUME OneAtATime, TypeOK, NEW p \in Proc, NEW l \in LicenseId, UpdateLoad(p, l)
  PROVE  Allowed
<1>1. PICK row \in Row : Await(p, "update.save", Loaded(l, NoDevice, row))
  BY DEF UpdateLoad
<1>2. /\ pc[p] = "idle" /\ license[l] # NoRow /\ license' = license /\ activation' = activation
      /\ pc'[p] = "update.save" /\ req'[p].lic = l /\ req'[p].row = row
  BY <1>1 DEF UpdateLoad, Await, Loaded, TypeOK
<1>3. row.status \in Contract!Lives /\ row.maxDevices \in Limits
  BY DEF Row, Status, Contract!Lives
<1> DEFINE s == row.status
           m == row.maxDevices
<1>4. Requests' = [Requests EXCEPT ![l] = @ \cup {<<s, m>>}]
  <2>1. Requests = [k \in LicenseId |-> {}]
    BY <1>2, OneRequest
  <2>2. Requests' = [k \in LicenseId |-> IF k = l THEN {<<s, m>>} ELSE {}]
    BY <1>2, OneRequest
  <2> HIDE DEF s, m
  <2> QED BY <2>1, <2>2
<1>5. Life[l] # "none" /\ Life' = Life /\ Limit' = Limit
  BY <1>2 DEF TypeOK, Life, Limit, Row, Status
<1>6. Contract!Ask(l, s, m)
  BY <1>2, <1>4, <1>5, RowsMap DEF Contract!Ask, Life, Limit, Activated, Removed, Requests
<1> QED BY <1>3, <1>6 DEF Allowed, Contract!Next

\* An update is done.
LEMMA GrantAllowed ==
  ASSUME OneAtATime, TypeOK, NEW p \in Proc, NEW l \in LicenseId, NEW row \in Row,
         pc[p] = "update.save", req[p].lic = l, req[p].row = row, license[l] \in Row,
         license' = [license EXCEPT ![l] = row], activation' = activation, Done(p)
  PROVE  Allowed
<1> DEFINE s == row.status
           m == row.maxDevices
<1>1. s \in Contract!Lives /\ m \in Limits
  BY DEF Row, Status, Contract!Lives
<1>2. pc'[p] = "idle"
  BY DEF TypeOK, Done
<1>3. <<s, m>> \in Requests[l] /\ Requests' = [Requests EXCEPT ![l] = @ \ {<<s, m>>}]
  <2>1. Requests = [k \in LicenseId |-> IF k = l THEN {<<s, m>>} ELSE {}]
    BY OneRequest
  <2>2. Requests' = [k \in LicenseId |-> {}]
    BY <1>2, OneRequest
  <2> HIDE DEF s, m
  <2> QED BY <2>1, <2>2
<1>4. Life' = [Life EXCEPT ![l] = s] /\ Limit' = [Limit EXCEPT ![l] = m]
  BY NoneAssumption DEF TypeOK, Life, Limit
<1>5. Contract!Grant(l, s, m)
  BY <1>3, <1>4, RowsMap DEF Contract!Grant, Life, Limit, Activated, Removed, Requests
<1> QED BY <1>1, <1>5 DEF Allowed, Contract!Next

\* An update fails or its replica dies.
LEMMA DropAllowed ==
  ASSUME OneAtATime, IndInv, NEW p \in Proc, pc[p] = "update.save",
         license' = license, activation' = activation, Done(p)
  PROVE  Allowed
<1> DEFINE l == req[p].lic
           s == req[p].row.status
           m == req[p].row.maxDevices
<1>1. l \in LicenseId /\ req[p].row \in Row /\ TypeOK
  BY DEF IndInv, HandlerOK, Coherent, Request, LicenseSaves, OtherSaves
<1>2. s \in Contract!Lives /\ m \in Limits
  BY <1>1 DEF Row, Status, Contract!Lives
<1>3. pc'[p] = "idle"
  BY <1>1 DEF TypeOK, Done
<1>4. <<s, m>> \in Requests[l] /\ Requests' = [Requests EXCEPT ![l] = @ \ {<<s, m>>}]
  <2>1. Requests = [k \in LicenseId |-> IF k = l THEN {<<s, m>>} ELSE {}]
    BY OneRequest
  <2>2. Requests' = [k \in LicenseId |-> {}]
    BY <1>3, OneRequest
  <2> HIDE DEF l, s, m
  <2> QED BY <1>1, <2>1, <2>2
<1>5. Life' = Life /\ Limit' = Limit
  BY DEF Life, Limit
<1> HIDE DEF l, s, m
<1>6. Contract!Drop(l, s, m)
  BY <1>1, <1>4, <1>5, RowsMap DEF Contract!Drop, Life, Limit, Activated, Removed, Requests
<1> QED BY <1>1, <1>2, <1>6 DEF Allowed, Contract!Next

\* Some active licenses expire.
LEMMA ExpireAllowed ==
  ASSUME TypeOK, NEW ls \in SUBSET LicenseId,
         \A l \in ls : license[l] \in Row /\ license[l].status = "active",
         license' \in [LicenseId -> Row \cup {NoRow}], activation' = activation, Requests' = Requests,
         \A l \in ls : /\ license'[l] \in Row /\ license'[l].status = "expired"
                       /\ license'[l].maxDevices = license[l].maxDevices,
         \A l \in LicenseId \ ls : license'[l] = license[l]
  PROVE  Allowed
<1>1. /\ \A l \in ls : Life[l] = "active"
      /\ Life' = [l \in LicenseId |-> IF l \in ls THEN "expired" ELSE Life[l]]
  BY NoneAssumption DEF TypeOK, Life
<1>2. Limit' = Limit
  BY NoneAssumption DEF TypeOK, Limit
<1>3. Contract!Expire(ls)
  BY <1>1, <1>2, RowsMap DEF Contract!Expire, Life, Limit, Activated, Removed, Requests
<1> QED BY <1>3 DEF Allowed, Contract!Next

\* A license that has no device is revoked.
LEMMA RevokeAllowed ==
  ASSUME TypeOK, NEW l \in LicenseId, NEW row \in Row, license[l] \in Row,
         row.status = "revoked", row.maxDevices = license[l].maxDevices, ActiveDevices(l) = {},
         license' = [license EXCEPT ![l] = row], activation' = activation, Requests' = Requests
  PROVE  Allowed
<1>1. Life[l] # "none" /\ Life' = [Life EXCEPT ![l] = "revoked"]
  BY NoneAssumption DEF TypeOK, Life, Row, Status
<1>2. Limit' = Limit
  BY NoneAssumption DEF TypeOK, Limit
<1>3. Activated[l] = {}
  BY DEF Activated
<1>4. Contract!Revoke(l)
  BY <1>1, <1>2, <1>3, RowsMap DEF Contract!Revoke, Life, Limit, Activated, Removed, Requests
<1> QED BY <1>4 DEF Allowed, Contract!Next

\* The contract counts as Licensing does.
LEMMA SameCount == ASSUME NEW S PROVE Contract!Cardinality(S) = Cardinality(S)
  BY Zenon DEF Contract!Cardinality, Cardinality

\* A device is activated on a license that is active and has a seat for it.
LEMMA ActivateAllowed ==
  ASSUME TypeOK, NEW l \in LicenseId, NEW d \in Device, license[l] \in Row,
         license[l].status = "active", activation[l][d] = "none",
         Cardinality(ActiveDevices(l)) < license[l].maxDevices,
         license' = license, activation' = [activation EXCEPT ![l][d] = "active"], Requests' = Requests
  PROVE  Allowed
<1>1. Life[l] = "active" /\ Life' = Life /\ Limit' = Limit /\ Limit[l] = license[l].maxDevices
  BY NoneAssumption DEF TypeOK, Life, Limit
<1>2. /\ \A m \in LicenseId : /\ ActiveDevices(m)' = IF m = l THEN ActiveDevices(l) \cup {d}
                                                    ELSE ActiveDevices(m)
                              /\ RegisteredDevices(m)' \ ActiveDevices(m)'
                                   = RegisteredDevices(m) \ ActiveDevices(m)
      /\ d \notin RegisteredDevices(l) /\ d \notin ActiveDevices(l)
  <2>1. \A m \in LicenseId, e \in Device :
          activation'[m][e] = IF m = l /\ e = d THEN "active" ELSE activation[m][e]
    BY DEF TypeOK
  <2> QED BY <2>1 DEF ActiveDevices, RegisteredDevices
<1>3. /\ Activated' = [Activated EXCEPT ![l] = @ \cup {d}]
      /\ Removed' = Removed
      /\ d \notin Activated[l] \cup Removed[l]
      /\ Activated[l] = ActiveDevices(l)
  BY <1>2 DEF Activated, Removed
<1>4. Contract!Activate(l, d)
  BY <1>1, <1>3, SameCount DEF Contract!Activate, Life, Limit, Activated, Removed, Requests
<1> QED BY <1>4 DEF Allowed, Contract!Next

\* Devices are taken off.
LEMMA RemoveAllowed ==
  ASSUME TypeOK, NEW ds \in [LicenseId -> SUBSET Device], license' = license, Requests' = Requests,
         activation' \in [LicenseId -> [Device -> {"none", "active", "inactive"}]],
         \A l \in LicenseId : \A d \in Device :
           activation'[l][d] = IF d \in ds[l] /\ activation[l][d] = "active" THEN "inactive"
                               ELSE activation[l][d]
  PROVE  Allowed
<1>1. Life' = Life /\ Limit' = Limit
  BY DEF Life, Limit
<1>2. \A l \in LicenseId : /\ ActiveDevices(l)' = ActiveDevices(l) \ ds[l]
                           /\ RegisteredDevices(l)' = RegisteredDevices(l)
                           /\ ActiveDevices(l) \subseteq RegisteredDevices(l)
  BY DEF TypeOK, ActiveDevices, RegisteredDevices
<1>3. Activated' = [l \in LicenseId |-> Activated[l] \ ds[l]]
  BY <1>2 DEF Activated
<1>4. Removed' = [l \in LicenseId |-> Removed[l] \cup (ds[l] \cap Activated[l])]
  BY <1>2 DEF Activated, Removed
<1>5. Contract!Remove(ds)
  BY <1>1, <1>3, <1>4 DEF Contract!Remove, Life, Limit, Activated, Removed, Requests
<1> QED BY <1>5 DEF Allowed, Contract!Next
-----------------------------------------------------------------------------
\* What the only handler holds stays current.

\* A handler that ends holds nothing.
LEMMA DoneCurrent ==
  ASSUME OneAtATime, TypeOK, NEW p \in Proc, Done(p)
  PROVE  CurrentOK'
<1>1. \A q \in Proc : pc'[q] = "idle"
  BY DEF OneAtATime, TypeOK, Done
<1> QED BY <1>1 DEF CurrentOK, Current, LicenseSaves, ActivateSaves, OtherSaves

\* A handler that goes on with a license that this step leaves alone.
LEMMA AwaitCurrent ==
  ASSUME OneAtATime, TypeOK, NEW p \in Proc, NEW step \in Steps, NEW r \in Request,
         Await(p, step, r), license' = license, activation' = activation,
         step \notin {"scan.expire", "scan.deactivate", "create.policy"},
         license[r.lic] \in Row \/ step = "deactivate.save",
         step \notin {"update.save", "deactivate.save"} =>
           r.row.maxDevices = license[r.lic].maxDevices,
         step \in {"activate.expire", "validate.expire"} =>
           license[r.lic].status = "active" /\ r.row.status = "expired",
         step \in {"activate.save", "activate.insert"} =>
           /\ license[r.lic].status = "active" /\ r.row.status = "active"
           /\ r.dev \notin ActiveDevices(r.lic)
           /\ Cardinality(ActiveDevices(r.lic)) < license[r.lic].maxDevices,
         step = "deactivate.save" => r.dev \in ActiveDevices(r.lic),
         step = "revoke.activations" => r.row.status = "revoked",
         step # "revoke.save"
  PROVE  CurrentOK'
<1> SUFFICES ASSUME NEW q \in Proc
             PROVE  Current(q)'
  BY DEF CurrentOK
<1>1. q = p /\ pc'[p] = step /\ req'[p] = r
  BY DEF OneAtATime, TypeOK, Await
<1>2. ActiveDevices(r.lic)' = ActiveDevices(r.lic)
  BY DEF ActiveDevices
<1>3. step \in LicenseSaves \cup {"activate.insert", "revoke.activations", "deactivate.save", "idle"}
  BY DEF Steps
<1> QED BY <1>1, <1>2, <1>3 DEF Current, LicenseSaves, ActivateSaves, OtherSaves

\* What the handler loads is current.
LEMMA LoadedFacts ==
  ASSUME TypeOK, NEW l \in LicenseId, NEW d \in Device \cup {NoDevice}, NEW row \in Row \cup {NoRow}
  PROVE  /\ Loaded(l, d, row) \in Request /\ Loaded(l, d, row).lic = l
         /\ Loaded(l, d, row).dev = d /\ Loaded(l, d, row).row = row
  BY LoadedType DEF Loaded

-----------------------------------------------------------------------------
\* The first statement of a request.

\* createLicense issues a license.
LEMMA CreateMaps ==
  ASSUME OneAtATime, IndInv, NEW p \in Proc, NEW l \in LicenseId, CreateLicense(p, l)
  PROVE  Allowed /\ CurrentOK'
<1> USE DEF IndInv
<1>1. PICK m \in Limits, e \in Date :
        LET row == [status |-> "active", maxDevices |-> m, expiresAt |-> e, activated |-> FALSE]
        IN  /\ license' = [license EXCEPT ![l] = row]
            /\ Await(p, "create.policy", Loaded(l, NoDevice, row))
  BY DEF CreateLicense
<1> DEFINE row == [status |-> "active", maxDevices |-> m, expiresAt |-> e, activated |-> FALSE]
<1>2. row \in Row /\ row.status = "active"
  BY DEF Row, Status
<1>3. license' = [license EXCEPT ![l] = row] /\ Await(p, "create.policy", Loaded(l, NoDevice, row))
  BY <1>1
<1> HIDE DEF row
<1>4. license[l] = NoRow /\ activation' = activation
  BY DEF CreateLicense
<1>5. \A q \in Proc : pc'[q] = "create.policy"
  BY <1>3 DEF OneAtATime, TypeOK, Await
<1>6. Allowed
  <2>1. Requests' = Requests
    BY <1>5, NoRequest DEF CreateLicense
  <2> QED BY <1>2, <1>3, <1>4, <2>1, IssueAllowed
<1>7. CurrentOK'
  BY <1>5 DEF CurrentOK, Current, LicenseSaves, ActivateSaves, OtherSaves
<1> QED BY <1>6, <1>7

\* updateLicense, revokeLicense and validateLicense load a license.
LEMMA LoadMaps ==
  ASSUME OneAtATime, IndInv, NEW p \in Proc, NEW l \in LicenseId,
         UpdateLoad(p, l) \/ RevokeLoad(p, l) \/ ValidateLoad(p, l)
  PROVE  CurrentOK'
<1> USE DEF IndInv
<1>1. license[l] \in Row /\ license' = license /\ activation' = activation
  BY DEF TypeOK, UpdateLoad, RevokeLoad, ValidateLoad, Expirable
<1>2. ASSUME NEW row \in Row, Await(p, "update.save", Loaded(l, NoDevice, row))
      PROVE  CurrentOK'
  <2>1. "update.save" \in Steps
    BY DEF Steps, LicenseSaves, OtherSaves
  <2> QED BY <1>1, <1>2, <2>1, LoadedFacts, AwaitCurrent
<1>3. ASSUME RevokeLoad(p, l)
      PROVE  CurrentOK'
  <2> DEFINE row == [license[l] EXCEPT !.status = "revoked"]
  <2>1. row \in Row /\ row.status = "revoked" /\ row.maxDevices = license[l].maxDevices
    BY <1>1 DEF Row, Status
  <2>2. Await(p, "revoke.activations", Loaded(l, NoDevice, row))
    BY <1>3 DEF RevokeLoad
  <2> HIDE DEF row
  <2>3. "revoke.activations" \in Steps
    BY DEF Steps
  <2> QED BY <1>1, <2>1, <2>2, <2>3, LoadedFacts, AwaitCurrent
<1>4. ASSUME ValidateLoad(p, l)
      PROVE  CurrentOK'
  <2> DEFINE row == [license[l] EXCEPT !.status = "expired"]
  <2>1. /\ row \in Row /\ row.status = "expired" /\ row.maxDevices = license[l].maxDevices
        /\ license[l].status = "active"
    BY <1>1, <1>4 DEF Row, Status, ValidateLoad, Expirable
  <2>2. Await(p, "validate.expire", Loaded(l, NoDevice, row))
    BY <1>4 DEF ValidateLoad
  <2> HIDE DEF row
  <2>3. "validate.expire" \in Steps
    BY DEF Steps, LicenseSaves, OtherSaves
  <2> QED BY <1>1, <2>1, <2>2, <2>3, LoadedFacts, AwaitCurrent
<1> QED BY <1>2, <1>3, <1>4 DEF UpdateLoad

\* activateLicense finds the license expired, or a seat free.
LEMMA ActivateMaps ==
  ASSUME OneAtATime, IndInv, NEW p \in Proc, NEW l \in LicenseId, NEW d \in Device,
         ActivateLoad(p, l, d)
  PROVE  CurrentOK'
<1> USE DEF IndInv
<1>1. license[l] \in Row /\ license[l].status = "active" /\ license' = license /\ activation' = activation
  BY DEF TypeOK, ActivateLoad
<1>2. ASSUME Await(p, "activate.expire", Loaded(l, d, [license[l] EXCEPT !.status = "expired"]))
      PROVE  CurrentOK'
  <2> DEFINE row == [license[l] EXCEPT !.status = "expired"]
  <2>1. row \in Row /\ row.status = "expired" /\ row.maxDevices = license[l].maxDevices
    BY <1>1 DEF Row, Status
  <2>2. Await(p, "activate.expire", Loaded(l, d, row))
    BY <1>2
  <2> HIDE DEF row
  <2>3. "activate.expire" \in Steps
    BY DEF Steps, LicenseSaves, ActivateSaves
  <2> QED BY <1>1, <2>1, <2>2, <2>3, LoadedFacts, AwaitCurrent
<1>3. ASSUME d \notin ActiveDevices(l), Cardinality(ActiveDevices(l)) < license[l].maxDevices,
             NEW step \in {"activate.save", "activate.insert"},
             Await(p, step, Loaded(l, d, [license[l] EXCEPT !.activated = TRUE]))
      PROVE  CurrentOK'
  <2> DEFINE row == [license[l] EXCEPT !.activated = TRUE]
  <2>1. row \in Row /\ row.status = "active" /\ row.maxDevices = license[l].maxDevices
    BY <1>1 DEF Row
  <2>2. Await(p, step, Loaded(l, d, row))
    BY <1>3
  <2> HIDE DEF row
  <2>3. step \in Steps
    BY DEF Steps, LicenseSaves, ActivateSaves
  <2> QED BY <1>1, <1>3, <2>1, <2>2, <2>3, LoadedFacts, AwaitCurrent
<1> QED BY <1>2, <1>3 DEF ActivateLoad

\* deactivateLicense finds the device active.
LEMMA DeactivateMaps ==
  ASSUME OneAtATime, IndInv, NEW p \in Proc, NEW l \in LicenseId, NEW d \in Device,
         DeactivateLoad(p, l, d)
  PROVE  CurrentOK'
<1>1. d \in ActiveDevices(l) /\ license' = license /\ activation' = activation
  BY DEF DeactivateLoad, ActiveDevices
<1>2. Await(p, "deactivate.save", Loaded(l, d, NoRow)) /\ "deactivate.save" \in Steps
  BY DEF DeactivateLoad, Steps
<1> QED BY <1>1, <1>2, LoadedFacts, AwaitCurrent DEF IndInv

\* The scan finds active licenses.
LEMMA ScanMaps ==
  ASSUME OneAtATime, IndInv, NEW p \in Proc, ScanLoad(p)
  PROVE  CurrentOK'
<1>1. \A q \in Proc : pc'[q] = "scan.expire" /\ due'[q] = {l \in LicenseId : Expirable(l)}
  BY DEF OneAtATime, IndInv, TypeOK, ScanLoad
<1>2. \A l \in LicenseId : Expirable(l) => license'[l] \in Row /\ license'[l].status = "active"
  BY DEF ScanLoad, Expirable, IndInv, TypeOK
<1> QED BY <1>1, <1>2 DEF CurrentOK, Current, LicenseSaves, ActivateSaves, OtherSaves
-----------------------------------------------------------------------------
\* The other statements.

\* A license that is saved changes as the contract allows.
LEMMA SaveMaps ==
  ASSUME IndInv, CurrentOK, NEW p \in Proc, pc[p] \in LicenseSaves \ {"update.save"}, SaveLicense(p),
         activation' = activation, Requests' = Requests
  PROVE  Allowed
<1> DEFINE l == req[p].lic
           row == req[p].row
<1>1. l \in LicenseId /\ row \in Row /\ TypeOK
  BY DEF IndInv, HandlerOK, Coherent, Request, LicenseSaves, ActivateSaves, OtherSaves
<1>2. license' = [license EXCEPT ![l] = row]
  BY DEF SaveLicense
<1>3. Current(p) /\ license[l] \in Row
  BY DEF CurrentOK, Current
<1>4. CASE pc[p] = "activate.save"
  <2>1. row.status = license[l].status /\ row.maxDevices = license[l].maxDevices
    BY <1>3, <1>4 DEF Current, LicenseSaves, ActivateSaves, OtherSaves
  <2> HIDE DEF l, row
  <2> QED BY <1>1, <1>2, <1>3, <2>1, SameAllowed
<1>5. CASE pc[p] \in {"activate.expire", "validate.expire"}
  <2>1. license[l].status = "active" /\ row.status = "expired" /\ row.maxDevices = license[l].maxDevices
    BY <1>3, <1>5 DEF Current, LicenseSaves, ActivateSaves, OtherSaves
  <2> HIDE DEF l, row
  <2>2. license' \in [LicenseId -> Row \cup {NoRow}] /\ license'[l] = row
    BY <1>1, <1>2 DEF TypeOK
  <2>3. {l} \in SUBSET LicenseId /\ \A m \in LicenseId \ {l} : license'[m] = license[m]
    BY <1>1, <1>2 DEF TypeOK
  <2> QED BY <1>1, <1>3, <2>1, <2>2, <2>3, ExpireAllowed
<1>6. CASE pc[p] = "revoke.save"
  <2>1. row.status = "revoked" /\ row.maxDevices = license[l].maxDevices /\ ActiveDevices(l) = {}
    BY <1>3, <1>6 DEF Current, LicenseSaves, ActivateSaves, OtherSaves
  <2> HIDE DEF l, row
  <2> QED BY <1>1, <1>2, <1>3, <2>1, RevokeAllowed
<1> QED BY <1>4, <1>5, <1>6 DEF LicenseSaves, ActivateSaves, OtherSaves

\* The save of an update, done or refused.
LEMMA UpdateSaveMaps ==
  ASSUME OneAtATime, IndInv, CurrentOK, NEW p \in Proc, UpdateSave(p)
  PROVE  Allowed /\ CurrentOK'
<1> DEFINE l == req[p].lic
           row == req[p].row
<1>1. pc[p] = "update.save" /\ activation' = activation /\ Done(p)
  BY DEF UpdateSave
<1>2. l \in LicenseId /\ row \in Row /\ TypeOK
  BY <1>1 DEF IndInv, HandlerOK, Coherent, Request, LicenseSaves, OtherSaves
<1>3. Allowed
  <2>1. CASE license' = license
    BY <1>1, <2>1, DropAllowed
  <2>2. CASE SaveLicense(p)
    <3>1. license' = [license EXCEPT ![l] = row]
      BY <2>2 DEF SaveLicense
    <3>2. license[l] \in Row
      BY <1>1 DEF CurrentOK, Current, LicenseSaves, OtherSaves
    <3> HIDE DEF l, row
    <3>3. req[p].lic = l /\ req[p].row = row
      BY DEF l, row
    <3> QED BY <1>1, <1>2, <3>1, <3>2, <3>3, GrantAllowed
  <2> QED BY <2>1, <2>2 DEF UpdateSave
<1> QED BY <1>1, <1>2, <1>3, DoneCurrent

\* The other saves that end a request, done or refused.
LEMMA LastSaveMaps ==
  ASSUME OneAtATime, IndInv, CurrentOK, NEW p \in Proc,
         ActivateExpire(p) \/ RevokeSave(p) \/ ValidateExpire(p)
  PROVE  Allowed /\ CurrentOK'
<1>1. pc[p] \in LicenseSaves \ {"update.save"} /\ activation' = activation /\ Done(p)
  BY DEF ActivateExpire, RevokeSave, ValidateExpire, LicenseSaves, ActivateSaves, OtherSaves
<1>2. license' = license \/ SaveLicense(p)
  BY DEF ActivateExpire, RevokeSave, ValidateExpire
<1>3. CurrentOK'
  BY <1>1, DoneCurrent DEF IndInv
<1>4. Requests' = Requests
  BY <1>1, DoneAsksNothing
<1> QED BY <1>1, <1>2, <1>3, <1>4, SaveMaps, NoneAllowed

\* activated_at is saved, and the insert comes next.
LEMMA ActivateSaveMaps ==
  ASSUME OneAtATime, IndInv, CurrentOK, NEW p \in Proc, ActivateSave(p)
  PROVE  Allowed /\ CurrentOK'
<1>1. CASE UNCHANGED license /\ Done(p)
  BY <1>1, DoneCurrent, DoneAsksNothing, NoneAllowed DEF IndInv, ActivateSave
<1>2. CASE SaveLicense(p) /\ Await(p, "activate.insert", req[p])
  <2>1. pc[p] = "activate.save" /\ activation' = activation
    BY DEF ActivateSave
  <2>0. Requests' = Requests
    BY <1>2, <2>1, AwaitAsksNothing DEF Steps
  <2>2. Allowed
    BY <1>2, <2>0, <2>1, SaveMaps DEF LicenseSaves, ActivateSaves
  <2> DEFINE l == req[p].lic
             row == req[p].row
  <2>3. l \in LicenseId /\ row \in Row /\ TypeOK
    BY <2>1 DEF IndInv, HandlerOK, Coherent, Request, LicenseSaves, ActivateSaves
  <2>4. license'[l] = row
    BY <1>2, <2>3 DEF SaveLicense, TypeOK
  <2>5. /\ row.status = "active" /\ row.maxDevices = license[l].maxDevices
        /\ req[p].dev \notin ActiveDevices(l)
        /\ Cardinality(ActiveDevices(l)) < license[l].maxDevices
    BY <2>1 DEF CurrentOK, Current, LicenseSaves, ActivateSaves, OtherSaves
  <2>6. \A q \in Proc : q = p /\ pc'[q] = "activate.insert" /\ req'[q] = req[p]
    BY <1>2, <2>3 DEF OneAtATime, TypeOK, Await
  <2>7. ActiveDevices(l)' = ActiveDevices(l)
    BY <2>1, <2>6 DEF ActiveDevices
  <2>8. CurrentOK'
    BY <2>3, <2>4, <2>5, <2>6, <2>7
       DEF CurrentOK, Current, LicenseSaves, ActivateSaves, OtherSaves
  <2> QED BY <2>2, <2>8
<1> QED BY <1>1, <1>2 DEF ActivateSave

\* The insert of an activation, done or refused by the index.
LEMMA ActivateInsertMaps ==
  ASSUME OneAtATime, IndInv, CurrentOK, NEW p \in Proc, ActivateInsert(p)
  PROVE  Allowed /\ CurrentOK'
<1> DEFINE l == req[p].lic
           d == req[p].dev
<1>1. pc[p] = "activate.insert" /\ license' = license /\ Done(p)
  BY DEF ActivateInsert
<1>2. l \in LicenseId /\ d \in Device /\ TypeOK
  BY <1>1 DEF IndInv, HandlerOK, Coherent, Request
<1>3. /\ license[l] \in Row /\ license[l].status = "active"
      /\ Cardinality(ActiveDevices(l)) < license[l].maxDevices
  BY <1>1 DEF CurrentOK, Current
<1>4. Requests' = Requests
  BY <1>1, DoneAsksNothing
<1>5. CASE activation' = activation
  BY <1>1, <1>2, <1>4, <1>5, NoneAllowed, DoneCurrent
<1>6. CASE activation[l][d] = "none" /\ activation' = [activation EXCEPT ![l][d] = "active"]
  <2> HIDE DEF l, d
  <2> QED BY <1>1, <1>2, <1>3, <1>4, <1>6, ActivateAllowed, DoneCurrent
<1> QED BY <1>5, <1>6 DEF ActivateInsert

\* deactivateLicense takes one device off.
LEMMA DeactivateSaveMaps ==
  ASSUME OneAtATime, IndInv, CurrentOK, NEW p \in Proc, DeactivateSave(p)
  PROVE  Allowed /\ CurrentOK'
<1> DEFINE l == req[p].lic
           d == req[p].dev
           ds == [m \in LicenseId |-> IF m = l THEN {d} ELSE {}]
<1>1. /\ pc[p] = "deactivate.save" /\ license' = license /\ Done(p)
      /\ activation' = [activation EXCEPT ![l][d] = "inactive"]
  BY DEF DeactivateSave
<1>2. l \in LicenseId /\ d \in Device /\ TypeOK
  BY <1>1 DEF IndInv, HandlerOK, Coherent, Request
<1>3. activation[l][d] = "active"
  BY <1>1 DEF CurrentOK, Current, ActiveDevices
<1>4. activation' \in [LicenseId -> [Device -> {"none", "active", "inactive"}]]
  BY <1>1, <1>2 DEF TypeOK
<1>5. \A m \in LicenseId : \A e \in Device :
        activation'[m][e] = IF m = l /\ e = d THEN "inactive" ELSE activation[m][e]
  BY <1>1, <1>2 DEF TypeOK
<1>6. ds \in [LicenseId -> SUBSET Device]
  BY <1>2
<1>7. \A m \in LicenseId : \A e \in Device : e \in ds[m] <=> m = l /\ e = d
  OBVIOUS
<1> HIDE DEF l, d, ds
<1>8. \A m \in LicenseId : \A e \in Device :
        activation'[m][e] = IF e \in ds[m] /\ activation[m][e] = "active" THEN "inactive"
                            ELSE activation[m][e]
  BY <1>3, <1>5, <1>7
<1>9. Allowed
  <2>1. Requests' = Requests
    BY <1>1, DoneAsksNothing
  <2> QED BY <1>1, <1>2, <1>4, <1>6, <1>8, <2>1, RemoveAllowed
<1> QED BY <1>1, <1>2, <1>9, DoneCurrent

\* Revocations and scans take the devices of some licenses off.
LEMMA DeactivateAllMaps ==
  ASSUME IndInv, NEW ls \in SUBSET LicenseId, DeactivateAll(ls), license' = license,
         Requests' = Requests
  PROVE  Allowed
<1> DEFINE ds == [m \in LicenseId |-> IF m \in ls THEN Device ELSE {}]
<1>1. ds \in [LicenseId -> SUBSET Device] /\ TypeOK
  BY DEF IndInv
<1>2. \A m \in LicenseId : \A e \in Device : e \in ds[m] <=> m \in ls
  OBVIOUS
<1>3. \A m \in LicenseId : \A e \in Device :
        activation'[m][e] = IF m \in ls /\ activation[m][e] = "active" THEN "inactive"
                            ELSE activation[m][e]
  BY DEF DeactivateAll
<1> HIDE DEF ds
<1>4. \A m \in LicenseId : \A e \in Device :
        activation'[m][e] = IF e \in ds[m] /\ activation[m][e] = "active" THEN "inactive"
                            ELSE activation[m][e]
  BY <1>2, <1>3
<1> QED BY <1>1, <1>4, DeactivateAllType, RemoveAllowed

\* revokeLicense takes the devices off first.
LEMMA RevokeActivationsMaps ==
  ASSUME OneAtATime, IndInv, CurrentOK, NEW p \in Proc, RevokeActivations(p)
  PROVE  Allowed /\ CurrentOK'
<1> DEFINE l == req[p].lic
           row == req[p].row
<1>1. /\ pc[p] = "revoke.activations" /\ license' = license
      /\ DeactivateAll({l}) /\ Await(p, "revoke.save", req[p])
  BY DEF RevokeActivations
<1>2. l \in LicenseId /\ TypeOK
  BY <1>1 DEF IndInv, HandlerOK, Coherent, Request
<1>3. Allowed
  <2>1. Requests' = Requests
    BY <1>1, AwaitAsksNothing DEF Steps, LicenseSaves, OtherSaves
  <2> QED BY <1>1, <1>2, <2>1, DeactivateAllMaps
<1>4. license[l] \in Row /\ row.status = "revoked" /\ row.maxDevices = license[l].maxDevices
  BY <1>1 DEF CurrentOK, Current
<1>5. \A q \in Proc : q = p /\ pc'[q] = "revoke.save" /\ req'[q] = req[p]
  BY <1>1, <1>2 DEF OneAtATime, TypeOK, Await
<1>6. ActiveDevices(l)' = {}
  BY <1>1, <1>2, <1>5 DEF DeactivateAll, ActiveDevices
<1>7. CurrentOK'
  BY <1>1, <1>4, <1>5, <1>6 DEF CurrentOK, Current, LicenseSaves, ActivateSaves, OtherSaves
<1> QED BY <1>3, <1>7

\* The scan expires what it selected, and then takes the devices off.
LEMMA ScanStepMaps ==
  ASSUME OneAtATime, IndInv, CurrentOK, NEW p \in Proc, ScanExpire(p) \/ ScanDeactivate(p)
  PROVE  Allowed /\ CurrentOK'
<1>1. TypeOK /\ due[p] \in SUBSET LicenseId
  BY DEF IndInv, TypeOK
<1>2. CASE ScanExpire(p)
  <2>1. /\ license' = [l \in LicenseId |-> IF l \in due[p] THEN [license[l] EXCEPT !.status = "expired"]
                                           ELSE license[l]]
        /\ activation' = activation /\ pc' = [pc EXCEPT ![p] = "scan.deactivate"]
    BY <1>2 DEF ScanExpire
  <2>2. \A l \in due[p] : license[l] \in Row /\ license[l].status = "active"
    BY <1>2 DEF ScanExpire, CurrentOK, Current
  <2>3. \A row \in Row : /\ [row EXCEPT !.status = "expired"] \in Row
                         /\ [row EXCEPT !.status = "expired"].status = "expired"
                         /\ [row EXCEPT !.status = "expired"].maxDevices = row.maxDevices
    BY DEF Row, Status
  <2>4. /\ \A l \in due[p] : /\ license'[l] \in Row /\ license'[l].status = "expired"
                             /\ license'[l].maxDevices = license[l].maxDevices
        /\ \A l \in LicenseId \ due[p] : license'[l] = license[l]
    BY <1>1, <2>1, <2>2, <2>3
  <2>5. license' \in [LicenseId -> Row \cup {NoRow}]
    BY <1>1, <2>1, <2>2, <2>3 DEF TypeOK
  <2>6. Allowed
    <3>1. Requests' = Requests
      BY <1>1, <1>2, NoRequest DEF ScanExpire, TypeOK
    <3> QED BY <1>1, <2>1, <2>2, <2>4, <2>5, <3>1, ExpireAllowed
  <2>7. \A q \in Proc : pc'[q] = "scan.deactivate"
    BY <1>1, <2>1 DEF OneAtATime, TypeOK
  <2>8. CurrentOK'
    BY <2>7 DEF CurrentOK, Current, LicenseSaves, ActivateSaves, OtherSaves
  <2> QED BY <2>6, <2>8
<1>3. CASE ScanDeactivate(p)
  <2>1. pc[p] # "update.save" /\ DeactivateAll(due[p]) /\ license' = license /\ Done(p)
    BY <1>3 DEF ScanDeactivate
  <2> QED BY <1>1, <2>1, DoneAsksNothing, DeactivateAllMaps, DoneCurrent
<1> QED BY <1>2, <1>3

\* A crash, which drops an update in service, the insert of a policy, the clock and a
\* step of others.
LEMMA QuietMaps ==
  ASSUME OneAtATime, IndInv, CurrentOK,
         (\E p \in Proc : CreatePolicy(p) \/ Crash(p)) \/ Tick \/ UNCHANGED vars
  PROVE  Allowed /\ CurrentOK'
<1>1. license' = license /\ activation' = activation
  BY DEF CreatePolicy, Crash, Tick, vars
<1>2. ASSUME NEW p \in Proc, CreatePolicy(p) \/ Crash(p)
      PROVE  Allowed /\ CurrentOK'
  <2>1. Done(p)
    BY <1>2 DEF CreatePolicy, Crash
  <2> QED BY <1>1, <2>1, DoneCurrent, DoneAsksNothing, NoneAllowed, DropAllowed DEF IndInv
<1>3. CASE Tick \/ UNCHANGED vars
  <2>1. UNCHANGED <<license, activation, pc, req, due>>
    BY <1>3 DEF Tick, vars
  <2>2. \A q \in Proc : Current(q) => Current(q)'
    BY <2>1 DEF Current, ActiveDevices
  <2>3. Requests' = Requests
    BY <2>1 DEF Requests, Asked
  <2> QED BY <1>1, <2>2, <2>3, NoneAllowed DEF CurrentOK
<1> QED BY <1>2, <1>3

-----------------------------------------------------------------------------
\* Every step is one of the contract or none, and keeps the handler current.
LEMMA StepMaps ==
  ASSUME OneAtATime, IndInv, CurrentOK, [Next]_vars
  PROVE  Allowed /\ CurrentOK'
<1>0. ASSUME NEW p \in Proc, NEW step \in Steps, NEW r, pc[p] = "idle", Await(p, step, r),
             step # "update.save", UNCHANGED <<license, activation>>
      PROVE  Allowed
  BY <1>0, AwaitAsksNothing, NoneAllowed
<1>1. ASSUME NEW p \in Proc, NEW l \in LicenseId,
             UpdateLoad(p, l) \/ RevokeLoad(p, l) \/ ValidateLoad(p, l)
      PROVE  Allowed /\ CurrentOK'
  <2>1. CASE UpdateLoad(p, l)
    BY <2>1, AskAllowed, LoadMaps DEF IndInv
  <2>2. CASE RevokeLoad(p, l)
    BY <1>0, <2>2, LoadMaps DEF RevokeLoad, Steps
  <2>3. CASE ValidateLoad(p, l)
    BY <1>0, <2>3, LoadMaps DEF ValidateLoad, Steps, LicenseSaves, OtherSaves
  <2> QED BY <1>1, <2>1, <2>2, <2>3
<1>2. ASSUME NEW p \in Proc, NEW l \in LicenseId, NEW d \in Device, ActivateLoad(p, l, d)
      PROVE  Allowed /\ CurrentOK'
  <2>1. \E step \in Steps : \E r : Await(p, step, r) /\ step # "update.save"
    <3>1. {"activate.expire", "activate.insert", "activate.save"} \subseteq Steps
      BY DEF Steps, LicenseSaves, ActivateSaves
    <3> QED BY <1>2, <3>1 DEF ActivateLoad
  <2>2. pc[p] = "idle" /\ UNCHANGED <<license, activation>>
    BY <1>2 DEF ActivateLoad
  <2> QED BY <1>0, <1>2, <2>1, <2>2, ActivateMaps
<1>3. ASSUME NEW p \in Proc, NEW l \in LicenseId, NEW d \in Device, DeactivateLoad(p, l, d)
      PROVE  Allowed /\ CurrentOK'
  BY <1>0, <1>3, DeactivateMaps DEF DeactivateLoad, Steps
<1>4. ASSUME NEW p \in Proc, ScanLoad(p)
      PROVE  Allowed /\ CurrentOK'
  <2>1. pc[p] = "idle" /\ pc'[p] = "scan.expire" /\ UNCHANGED <<license, activation>>
    BY <1>4 DEF ScanLoad, IndInv, TypeOK
  <2> QED BY <1>4, <2>1, ScanMaps, NoRequest, NoneAllowed
<1>5. ASSUME NEW p \in Proc, Begin(p)
      PROVE  Allowed /\ CurrentOK'
  BY <1>1, <1>2, <1>3, <1>4, <1>5, CreateMaps DEF Begin
<1>6. ASSUME NEW p \in Proc, Proceed(p)
      PROVE  Allowed /\ CurrentOK'
  BY <1>6, QuietMaps, UpdateSaveMaps, LastSaveMaps, ActivateSaveMaps, ActivateInsertMaps, DeactivateSaveMaps,
     RevokeActivationsMaps, ScanStepMaps DEF Proceed
<1> QED BY <1>5, <1>6, QuietMaps DEF Next

\* It all begins with no license.
LEMMA InitMaps == Init => Contract!Init /\ CurrentOK
<1> SUFFICES ASSUME Init PROVE Contract!Init /\ CurrentOK
  OBVIOUS
<1>1. \A l \in LicenseId : ActiveDevices(l) = {} /\ RegisteredDevices(l) = {}
  BY DEF Init, ActiveDevices, RegisteredDevices
<1>2. \A l \in LicenseId : Asked(l) = {}
  BY DEF Init, Asked
<1>3. Contract!Init
  BY <1>1, <1>2 DEF Init, Contract!Init
<1>4. CurrentOK
  BY DEF Init, CurrentOK, Current, LicenseSaves, ActivateSaves, OtherSaves
<1> QED BY <1>3, <1>4

(* Requests and scans that are served one at a time, and may die between any *)
(* two of their statements, implement the contract.                          *)
THEOREM ContractTheorem == ASSUME OneAtATime PROVE Spec => ImplementsContract
<1>1. IndInv /\ CurrentOK /\ [Next]_vars => [Contract!Next]_Contract!cvars /\ CurrentOK'
  BY StepMaps DEF Allowed
<1>2. Spec => []IndInv
  BY TypeCorrect, PTL DEF IndInv
<1> QED BY <1>1, <1>2, InitMaps, PTL DEF Spec, ImplementsContract, Contract!Spec

-----------------------------------------------------------------------------
\* A request for a stream reads the licenses and writes none of their variables.

\* A step of Streaming is a step of Licensing or leaves its variables alone.
LEMMA StreamIsLicensing == [StreamNext]_<<vars, svars>> => [Next]_vars
  BY DEF StreamNext, vars, svars

\* What was proved of Licensing holds of it beside Streaming.
LEMMA LicensingBeside == StreamSpec => Spec
<1>1. StreamInit => Init
  BY DEF StreamInit
<1> QED BY <1>1, StreamIsLicensing, PTL DEF StreamSpec, Spec

\* No step breaks the types.
LEMMA StreamInvStep ==
  ASSUME IndInv, IndInv', StreamTypeOK, [StreamNext]_<<vars, svars>>
  PROVE  StreamTypeOK'
<1> USE DEF StreamTypeOK
<1>1. TypeOK' /\ now \in Nat
  BY ClockAssumption DEF IndInv, TypeOK
<1>2. CASE UNCHANGED svars
  BY <1>1, <1>2 DEF svars
<1>3. ASSUME NEW v \in Viewer, (\E l \in LicenseId : Watch(v, l)) \/ WatchFreely(v) \/ ViewerCrash(v)
      PROVE  StreamTypeOK'
  BY <1>1, <1>3 DEF Watch, WatchFreely, ViewerCrash
<1>4. ASSUME NEW v \in Viewer, SignUrl(v)
      PROVE  StreamTypeOK'
  <2>1. PICK ttl \in Ttls :
          until' = [l \in LicenseId |->
                      IF l = watches[v] /\ until[l] < now + ttl THEN now + ttl ELSE until[l]]
    BY <1>4 DEF SignUrl
  <2>2. now + ttl \in Nat
    BY <1>1, TtlAssumption
  <2>3. until' \in [LicenseId -> Nat \cup {-1}]
    BY <2>1, <2>2
  <2>4. watches' \in [Viewer -> LicenseId \cup {NoLicense, Idle}]
    BY <1>4 DEF SignUrl
  <2> QED BY <1>1, <2>3, <2>4
<1> QED BY <1>2, <1>3, <1>4 DEF StreamNext, Stream, svars

(* The licenses and the requests for a stream keep their types. *)
THEOREM StreamTypeCorrect == StreamSpec => []StreamTypeOK
<1>1. Spec => []IndInv
  BY TypeCorrect, PTL DEF IndInv
<1>2. StreamInit /\ IndInv => StreamTypeOK
  BY DEF StreamInit, StreamTypeOK, IndInv
<1>3. IndInv /\ IndInv' /\ StreamTypeOK /\ [StreamNext]_<<vars, svars>> => StreamTypeOK'
  BY StreamInvStep
<1> QED BY <1>1, <1>2, <1>3, LicensingBeside, PTL DEF StreamSpec

(* No URL is signed for a license that is over, once the requests that found *)
(* it valid were answered, and none of them finds it valid again until an     *)
(* update asks for it to be active.                                           *)
THEOREM NothingSignedTheorem == StreamSpec => NothingSignedAfterEnd
<1>1. ASSUME IndInv, StreamTypeOK, [StreamNext]_<<vars, svars>>, NEW l \in LicenseId, StreamsOver(l)
      PROVE  /\ StreamsOver(l)' \/ \E p \in Proc : Asks(p, l, NotActive)
             /\ until'[l] = until[l]
  <2>1. Ended(l)' \/ \E p \in Proc : Asks(p, l, NotActive)
    <3>1. NotActive \in Overs /\ "expired" \in NotActive
      BY DEF Overs, NotActive, Status
    <3> QED BY <1>1, <3>1, StreamIsLicensing, OverStep DEF StreamsOver, Ended
  <2>2. license[l].status # "active" /\ \A v \in Viewer : watches[v] # l
    BY <1>1 DEF StreamsOver, Ended, Over, NotActive
  <2>3. (\A v \in Viewer : watches'[v] # l) /\ until'[l] = until[l]
    <3>1. CASE UNCHANGED svars
      BY <2>2, <3>1 DEF svars
    <3>2. ASSUME NEW v \in Viewer, NEW m \in LicenseId, Watch(v, m)
          PROVE  (\A u \in Viewer : watches'[u] # l) /\ until'[l] = until[l]
      BY <1>1, <2>2, <3>2 DEF Watch, StreamTypeOK
    <3>3. ASSUME NEW v \in Viewer, WatchFreely(v) \/ ViewerCrash(v)
          PROVE  (\A u \in Viewer : watches'[u] # l) /\ until'[l] = until[l]
      BY <1>1, <2>2, <3>3, ViewerAssumption DEF WatchFreely, ViewerCrash, StreamTypeOK
    <3>4. ASSUME NEW v \in Viewer, SignUrl(v)
          PROVE  (\A u \in Viewer : watches'[u] # l) /\ until'[l] = until[l]
      BY <1>1, <2>2, <3>4, ViewerAssumption DEF SignUrl, StreamTypeOK
    <3> QED BY <1>1, <3>1, <3>2, <3>3, <3>4 DEF StreamNext, Stream, svars
  <2> QED BY <2>1, <2>3 DEF StreamsOver
<1>2. IndInv /\ StreamTypeOK /\ [StreamNext]_<<vars, svars>> =>
        [\A l \in LicenseId :
           StreamsOver(l) => /\ StreamsOver(l)' \/ \E p \in Proc : Asks(p, l, NotActive)
                             /\ until'[l] = until[l]]_<<vars, svars>>
  BY <1>1
<1>3. Spec => []IndInv
  BY TypeCorrect, PTL DEF IndInv
<1> QED BY <1>2, <1>3, LicensingBeside, StreamTypeCorrect, PTL DEF StreamSpec, NothingSignedAfterEnd
=============================================================================
