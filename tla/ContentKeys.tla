----------------------------- MODULE ContentKeys -----------------------------
(***************************************************************************)
(* The encryption keys of one content item: storeKey, retrieveKey and      *)
(* rotateKey of modules/drm/services/key-management.service.ts, called by  *)
(* encryptContentFile, the rotate-key request and KeyRotationProcessor.    *)
(* Keys of different contents share no rows.                               *)
(*                                                                         *)
(* A key is the row that stores it. content_keys has no unique index on    *)
(* (content_id, key_version) and none on active keys.                      *)
(***************************************************************************)
EXTENDS Integers, FiniteSets

CONSTANTS
  Proc,      \* request handlers and queue workers, of all the replicas
  MaxKey     \* bound on the keys ever stored

ASSUME ProcAssumption == IsFiniteSet(Proc) /\ Proc # {}
ASSUME BoundAssumption == MaxKey \in Nat

\* Rows of content_keys in the order of their insertion; 0 is no key.
Key == 1..MaxKey

VARIABLES
  state,     \* of a row: "none", "active" or "rotated"
  number,    \* its key_version
  files,     \* the keys some encrypted file was made with
  pc,        \* the statement a handler runs next
  latest,    \* the greatest key_version a handler read
  using      \* the key encryptContentFile will encrypt with

vars == <<state, number, files, pc, latest, using>>

\* storeKey runs for a rotation, or for the first encryption of the content.
Storing == {"rotate.deactivate", "rotate.latest", "rotate.insert",
            "encrypt.deactivate", "encrypt.latest", "encrypt.insert"}
Steps == Storing \cup {"idle", "encrypt.upload"}

\* The table and the handlers' local state have their types.
TypeOK ==
  /\ state \in [Key -> {"none", "active", "rotated"}]
  /\ number \in [Key -> 0..MaxKey]
  /\ files \in SUBSET Key
  /\ pc \in [Proc -> Steps]
  /\ latest \in [Proc -> 0..MaxKey]
  /\ using \in [Proc -> 0..MaxKey]

Stored == {k \in Key : state[k] # "none"}
Active == {k \in Key : state[k] = "active"}

Init ==
  /\ state = [k \in Key |-> "none"]
  /\ number = [k \in Key |-> 0]
  /\ files = {}
  /\ pc = [p \in Proc |-> "idle"]
  /\ latest = [p \in Proc |-> 0]
  /\ using = [p \in Proc |-> 0]

-----------------------------------------------------------------------------

Goto(p, step) == pc' = [pc EXCEPT ![p] = step]

Done(p) ==
  /\ Goto(p, "idle")
  /\ latest' = [latest EXCEPT ![p] = 0]
  /\ using' = [using EXCEPT ![p] = 0]

RotateKey(p) ==
  /\ pc[p] = "idle"
  /\ Goto(p, "rotate.deactivate")
  /\ UNCHANGED <<state, number, files, latest, using>>

\* encryptContentFile: any active key will do (the query has no order), and when
\* there is none a new one is stored.
EncryptContent(p) ==
  /\ pc[p] = "idle"
  /\ \/ \E k \in Active : Goto(p, "encrypt.upload") /\ using' = [using EXCEPT ![p] = k]
     \/ Active = {} /\ Goto(p, "encrypt.deactivate") /\ UNCHANGED using
  /\ UNCHANGED <<state, number, files, latest>>

\* Mutant: the update selects the keys that are not active.
DeactivateOthers(p) ==
  /\ \/ pc[p] = "rotate.deactivate" /\ Goto(p, "rotate.latest")
     \/ pc[p] = "encrypt.deactivate" /\ Goto(p, "encrypt.latest")
  /\ UNCHANGED <<state, number, files, latest, using>>

\* Mutant: a state that is none.
DeactivateAsExpired(p) ==
  /\ \/ pc[p] = "rotate.deactivate" /\ Goto(p, "rotate.latest")
     \/ pc[p] = "encrypt.deactivate" /\ Goto(p, "encrypt.latest")
  /\ state' = [k \in Key |-> IF state[k] = "active" THEN "expired" ELSE state[k]]
  /\ UNCHANGED <<number, files, latest, using>>

\* storeKey deactivates the active keys.
Deactivate(p) ==
  /\ \/ pc[p] = "rotate.deactivate" /\ Goto(p, "rotate.latest")
     \/ pc[p] = "encrypt.deactivate" /\ Goto(p, "encrypt.latest")
  /\ state' = [k \in Key |-> IF state[k] = "active" THEN "rotated" ELSE state[k]]
  /\ UNCHANGED <<number, files, latest, using>>

\* Mutant: the versions are counted, not read.
ReadCount(p) ==
  /\ \/ pc[p] = "rotate.latest" /\ Goto(p, "rotate.insert")
     \/ pc[p] = "encrypt.latest" /\ Goto(p, "encrypt.insert")
  /\ latest' = [latest EXCEPT ![p] = Cardinality(Stored)]
  /\ UNCHANGED <<state, number, files, using>>

\* Mutant: only the active keys are looked at.
ReadLatestActive(p) ==
  /\ \/ pc[p] = "rotate.latest" /\ Goto(p, "rotate.insert")
     \/ pc[p] = "encrypt.latest" /\ Goto(p, "encrypt.insert")
  /\ latest' = [latest EXCEPT ![p] = Cardinality(Active)]
  /\ UNCHANGED <<state, number, files, using>>

\* The greatest version among the content's keys.
ReadLatest(p) ==
  /\ \/ pc[p] = "rotate.latest" /\ Goto(p, "rotate.insert")
     \/ pc[p] = "encrypt.latest" /\ Goto(p, "encrypt.insert")
  /\ \E n \in {number[k] : k \in Stored} \cup {0} :
       /\ \A k \in Stored : number[k] <= n
       /\ latest' = [latest EXCEPT ![p] = n]
  /\ UNCHANGED <<state, number, files, using>>

\* ... and inserts the new one. A file is encrypted with the key its handler made,
\* whatever has become of that key since.
Insert(p) ==
  /\ pc[p] \in {"rotate.insert", "encrypt.insert"}
  /\ \E k \in Key \ Stored :
       /\ \A j \in Key : j < k => j \in Stored
       /\ state' = [state EXCEPT ![k] = "active"]
       /\ number' = [number EXCEPT ![k] = latest[p] + 1]
       /\ IF pc[p] = "rotate.insert" THEN Done(p)
          ELSE /\ Goto(p, "encrypt.upload")
               /\ using' = [using EXCEPT ![p] = k]
               /\ UNCHANGED latest
  /\ UNCHANGED files

\* The file is fetched, encrypted and uploaded; its name is returned.
Upload(p) ==
  /\ pc[p] = "encrypt.upload"
  /\ files' = files \cup {using[p]}
  /\ Done(p)
  /\ UNCHANGED <<state, number>>

\* encryptContentFile takes any failure to retrieve the key for a content without
\* one, and stores a new key.
RetrieveThrows(p) ==
  /\ pc[p] = "idle" /\ Active # {}
  /\ Goto(p, "encrypt.deactivate")
  /\ UNCHANGED <<state, number, files, latest, using>>

\* A statement fails, the storage refuses the file, or the replica dies.
Crash(p) ==
  /\ pc[p] # "idle"
  /\ Done(p)
  /\ UNCHANGED <<state, number, files>>

Proceed(p) == Deactivate(p) \/ ReadLatest(p) \/ Insert(p) \/ Upload(p)

Undisturbed == \E p \in Proc : RotateKey(p) \/ EncryptContent(p) \/ Proceed(p)

Next == Undisturbed \/ \E p \in Proc : RetrieveThrows(p) \/ Crash(p)

Spec == Init /\ [][Next]_vars

\* No statement fails.
UndisturbedSpec == Init /\ [][Undisturbed]_vars
-----------------------------------------------------------------------------
\* Properties.

\* storeKey deactivates, reads and inserts with awaits between. Handlers that
\* overlap may each leave an active key, but one each.
ActiveBounded == Cardinality(Active) <= Cardinality(Proc)

\* The versions leave no gap: each was one more than a version in the table,
\* whatever raced or died since it was read.
VersionsDense ==
  \A k \in Stored : \A n \in 1..number[k] : \E j \in Stored : number[j] = n

\* Handlers that overlap may give several keys one version, but one each.
SharingBounded ==
  \A n \in 1..MaxKey : Cardinality({k \in Stored : number[k] = n}) <= Cardinality(Proc)

\* As documented, ContentKey "Supports key versioning for rotation scenarios":
\* when no request is in flight, decryptContentFile, which takes an active key, can
\* read every encrypted file.
FilesReadable == (\A p \in Proc : pc[p] = "idle") => files \subseteq Active
=============================================================================
