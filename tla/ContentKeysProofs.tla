-------------------------- MODULE ContentKeysProofs --------------------------
(***************************************************************************)
(* Theorems about ContentKeys, for any number of handlers and of keys.     *)
(***************************************************************************)
EXTENDS ContentKeys, FiniteSetTheorems, TLAPS

\* Handlers past the statement that deactivates the keys, and among them those
\* past the one that reads the versions.
Reading(p) == pc[p] \in {"rotate.latest", "encrypt.latest"}
Inserting(p) == pc[p] \in {"rotate.insert", "encrypt.insert"}

\* Keys are stored in order, and a key's version is at most its place.
InOrder ==
  \A k \in Stored : number[k] \in 1..k /\ \A j \in Key : j < k => j \in Stored

\* A handler about to insert read the version of some key in the table.
ReadSomeVersion ==
  \A p \in Proc : Inserting(p) => latest[p] = 0 \/ \E j \in Stored : number[j] = latest[p]

\* A handler about to encrypt a file has a key.
HasKey == \A p \in Proc : pc[p] = "encrypt.upload" => using[p] \in Key

IndInv == TypeOK /\ InOrder /\ ReadSomeVersion /\ HasKey

-----------------------------------------------------------------------------
\* What the steps do to the table.

\* A key takes the next place, and the version it gets fits there.
LEMMA NextPlace ==
  ASSUME IndInv, NEW p \in Proc, Inserting(p), NEW k \in Key \ Stored,
         \A j \in Key : j < k => j \in Stored
  PROVE  latest[p] + 1 \in 1..k
<1> USE BoundAssumption
<1>1. \A j \in Stored : j < k
  BY DEF IndInv, InOrder, Stored, Key
<1>2. CASE latest[p] = 0
  BY <1>2 DEF Key
<1>3. CASE \E j \in Stored : number[j] = latest[p]
  BY <1>1, <1>3 DEF IndInv, InOrder, Stored, Key
<1> QED BY <1>2, <1>3 DEF IndInv, ReadSomeVersion

\* A key is inserted with the version after the one its handler read.
LEMMA InsertWrites ==
  ASSUME IndInv, NEW p \in Proc, Insert(p)
  PROVE  /\ Inserting(p)
         /\ \E k \in Key \ Stored :
              /\ \A j \in Key : j < k => j \in Stored
              /\ latest[p] + 1 \in 1..k
              /\ state' = [state EXCEPT ![k] = "active"]
              /\ number' = [number EXCEPT ![k] = latest[p] + 1]
              /\ Stored' = Stored \cup {k}
              /\ Active' = Active \cup {k}
<1>1. PICK k \in Key \ Stored :
        /\ \A j \in Key : j < k => j \in Stored
        /\ state' = [state EXCEPT ![k] = "active"]
        /\ number' = [number EXCEPT ![k] = latest[p] + 1]
  BY DEF Insert
<1>2. Inserting(p)
  BY DEF Insert, Inserting
<1>3. latest[p] + 1 \in 1..k
  BY <1>1, <1>2, NextPlace
<1>4. Stored' = Stored \cup {k} /\ Active' = Active \cup {k}
  BY <1>1 DEF Stored, Active, IndInv, TypeOK
<1> QED BY <1>1, <1>2, <1>3, <1>4

\* Deactivation empties the set of active keys and leaves the rest.
LEMMA DeactivateWrites ==
  ASSUME IndInv, NEW p \in Proc, Deactivate(p)
  PROVE  Active' = {} /\ Stored' = Stored /\ UNCHANGED <<number, latest>>
  BY DEF Deactivate, Active, Stored, IndInv, TypeOK

\* The steps that leave the keys alone.
Elsewhere(p) ==
  \/ RotateKey(p) \/ EncryptContent(p) \/ RetrieveThrows(p)
  \/ ReadLatest(p) \/ Upload(p) \/ Crash(p)

\* The steps that leave the key table alone.
LEMMA ElsewhereWrites ==
  ASSUME NEW p \in Proc, Elsewhere(p)
  PROVE  UNCHANGED <<state, number, Stored, Active>>
  BY DEF Elsewhere, RotateKey, EncryptContent, RetrieveThrows, ReadLatest, Upload, Crash,
         Stored, Active

\* A handler moves by its own steps only.
LEMMA OthersStay ==
  ASSUME TypeOK, NEW p \in Proc, Elsewhere(p) \/ Deactivate(p) \/ Insert(p)
  PROVE  \A q \in Proc \ {p} : pc'[q] = pc[q] /\ latest'[q] = latest[q]
  BY DEF TypeOK, Elsewhere, RotateKey, EncryptContent, RetrieveThrows, ReadLatest, Upload,
         Crash, Deactivate, Insert, Goto, Done

\* The steps of Next, sorted by what they do to the keys.
LEMMA StepCases ==
  ASSUME [Next]_vars
  PROVE  \/ \E p \in Proc : Elsewhere(p)
         \/ \E p \in Proc : Deactivate(p)
         \/ \E p \in Proc : Insert(p)
         \/ UNCHANGED vars
  BY DEF Next, Undisturbed, Proceed, Elsewhere

-----------------------------------------------------------------------------
\* Types.

\* Every step that leaves the keys alone keeps the types.
LEMMA ElsewhereType ==
  ASSUME IndInv, NEW p \in Proc, Elsewhere(p)
  PROVE  TypeOK'
<1> USE DEF IndInv, TypeOK, Goto, Done, Steps, Storing
<1>1. CASE RotateKey(p)
  BY <1>1 DEF RotateKey
<1>2. CASE EncryptContent(p)
  <2>1. \/ \E k \in Active : Goto(p, "encrypt.upload") /\ using' = [using EXCEPT ![p] = k]
        \/ Goto(p, "encrypt.deactivate") /\ UNCHANGED using
    BY <1>2 DEF EncryptContent
  <2>2. Active \subseteq 0..MaxKey
    BY DEF Active, Key
  <2>3. using' \in [Proc -> 0..MaxKey]
    BY <2>1, <2>2
  <2>4. pc' \in [Proc -> Steps]
    BY <2>1
  <2> QED BY <1>2, <2>3, <2>4 DEF EncryptContent
<1>3. CASE RetrieveThrows(p)
  BY <1>3 DEF RetrieveThrows
<1>4. CASE ReadLatest(p)
  <2>1. PICK n \in {number[k] : k \in Stored} \cup {0} : latest' = [latest EXCEPT ![p] = n]
    BY <1>4 DEF ReadLatest
  <2>2. n \in 0..MaxKey
    BY BoundAssumption DEF Stored
  <2> QED BY <1>4, <2>1, <2>2 DEF ReadLatest
<1>5. CASE Upload(p)
  <2>1. files' \in SUBSET Key
    BY <1>5 DEF Upload, HasKey
  <2> QED BY <1>5, <2>1, BoundAssumption DEF Upload
<1>6. CASE Crash(p)
  BY <1>6, BoundAssumption DEF Crash
<1> QED BY <1>1, <1>2, <1>3, <1>4, <1>5, <1>6 DEF Elsewhere

\* So do the others.
LEMMA TypeStep ==
  ASSUME IndInv, [Next]_vars
  PROVE  TypeOK'
<1> USE DEF IndInv, TypeOK, Goto, Done, Steps, Storing
<1>1. ASSUME NEW p \in Proc, Elsewhere(p) PROVE TypeOK'
  BY <1>1, ElsewhereType
<1>2. ASSUME NEW p \in Proc, Deactivate(p) PROVE TypeOK'
  BY <1>2 DEF Deactivate
<1>3. ASSUME NEW p \in Proc, Insert(p) PROVE TypeOK'
  <2>1. PICK k \in Key \ Stored :
          /\ latest[p] + 1 \in 1..k
          /\ state' = [state EXCEPT ![k] = "active"]
          /\ number' = [number EXCEPT ![k] = latest[p] + 1]
    BY <1>3, InsertWrites
  <2>2. number' \in [Key -> 0..MaxKey]
    BY <2>1, BoundAssumption DEF Key
  <2>3. PICK j \in Key :
          \/ Done(p)
          \/ Goto(p, "encrypt.upload") /\ using' = [using EXCEPT ![p] = j] /\ UNCHANGED latest
    BY <1>3 DEF Insert
  <2>4. j \in 0..MaxKey /\ 0 \in 0..MaxKey
    BY BoundAssumption DEF Key
  <2>5. /\ pc' \in [Proc -> Steps]
        /\ latest' \in [Proc -> 0..MaxKey]
        /\ using' \in [Proc -> 0..MaxKey]
    BY <2>3, <2>4
  <2>6. state' \in [Key -> {"none", "active", "rotated"}] /\ UNCHANGED files
    BY <1>3, <2>1 DEF Insert
  <2> QED BY <2>2, <2>5, <2>6
<1>4. CASE UNCHANGED vars
  BY <1>4 DEF vars
<1> QED BY <1>1, <1>2, <1>3, <1>4, StepCases

-----------------------------------------------------------------------------
\* The inductive invariant.

\* The keys stay in order.
LEMMA InOrderStep ==
  ASSUME IndInv, [Next]_vars
  PROVE  InOrder'
<1> USE DEF IndInv
<1>1. ASSUME NEW p \in Proc, Elsewhere(p) PROVE InOrder'
  BY <1>1, ElsewhereWrites DEF InOrder
<1>2. ASSUME NEW p \in Proc, Deactivate(p) PROVE InOrder'
  BY <1>2, DeactivateWrites DEF InOrder
<1>3. ASSUME NEW p \in Proc, Insert(p) PROVE InOrder'
  <2>1. PICK k \in Key \ Stored :
          /\ \A j \in Key : j < k => j \in Stored
          /\ latest[p] + 1 \in 1..k
          /\ number' = [number EXCEPT ![k] = latest[p] + 1]
          /\ Stored' = Stored \cup {k}
    BY <1>3, InsertWrites
  <2>2. Stored \subseteq Key /\ number \in [Key -> 0..MaxKey]
    BY DEF Stored, TypeOK
  <2> QED BY <2>1, <2>2 DEF InOrder
<1>4. CASE UNCHANGED vars
  BY <1>4 DEF vars, InOrder, Stored
<1> QED BY <1>1, <1>2, <1>3, <1>4, StepCases

\* The version a handler read stays in the table.
LEMMA ReadSomeVersionStep ==
  ASSUME IndInv, [Next]_vars
  PROVE  ReadSomeVersion'
<1> USE DEF IndInv
<1>1. ASSUME NEW p \in Proc, Elsewhere(p) PROVE ReadSomeVersion'
  <2> SUFFICES ASSUME NEW q \in Proc, Inserting(q)'
               PROVE  latest'[q] = 0 \/ \E j \in Stored : number[j] = latest'[q]
    BY <1>1, ElsewhereWrites DEF ReadSomeVersion
  <2>1. CASE q # p
    BY <1>1, <2>1, OthersStay DEF ReadSomeVersion, Inserting
  <2>2. CASE q = p
    <3>1. ReadLatest(p)
      BY <1>1, <2>2 DEF Elsewhere, RotateKey, EncryptContent, RetrieveThrows, Upload, Crash,
         Goto, Done, Inserting, TypeOK
    <3> QED BY <2>2, <3>1 DEF ReadLatest, TypeOK
  <2> QED BY <2>1, <2>2
<1>2. ASSUME NEW p \in Proc, Deactivate(p) PROVE ReadSomeVersion'
  <2>1. ~Inserting(p)'
    BY <1>2 DEF Deactivate, Goto, Inserting, TypeOK
  <2> QED BY <1>2, <2>1, DeactivateWrites, OthersStay DEF ReadSomeVersion, Inserting
<1>3. ASSUME NEW p \in Proc, Insert(p) PROVE ReadSomeVersion'
  <2>1. \A j \in Stored : j \in Stored' /\ number'[j] = number[j]
    BY <1>3, InsertWrites DEF TypeOK, Stored
  <2>2. ~Inserting(p)'
    BY <1>3 DEF Insert, Goto, Done, Inserting, TypeOK
  <2> QED BY <1>3, <2>1, <2>2, OthersStay DEF ReadSomeVersion, Inserting
<1>4. CASE UNCHANGED vars
  BY <1>4 DEF vars, ReadSomeVersion, Inserting, Stored
<1> QED BY <1>1, <1>2, <1>3, <1>4, StepCases

\* A handler encrypts with the key it retrieved or the one it inserted.
LEMMA HasKeyStep ==
  ASSUME IndInv, [Next]_vars
  PROVE  HasKey'
<1> USE DEF IndInv, TypeOK, Goto, Done
<1>1. ASSUME NEW p \in Proc, EncryptContent(p) PROVE HasKey'
  <2>1. Active \subseteq Key
    BY DEF Active
  <2> QED BY <1>1, <2>1 DEF EncryptContent, HasKey
<1>2. ASSUME NEW p \in Proc, Insert(p) PROVE HasKey'
  BY <1>2 DEF Insert, HasKey
<1>3. ASSUME NEW p \in Proc,
             \/ RotateKey(p) \/ RetrieveThrows(p) \/ Deactivate(p)
             \/ ReadLatest(p) \/ Upload(p) \/ Crash(p)
      PROVE  HasKey'
  BY <1>3 DEF RotateKey, RetrieveThrows, Deactivate, ReadLatest, Upload, Crash, HasKey
<1>4. CASE UNCHANGED vars
  BY <1>4 DEF vars, HasKey
<1> QED BY <1>1, <1>2, <1>3, <1>4 DEF Next, Undisturbed, Proceed

\* The initial states satisfy it.
LEMMA InitInv ==
  ASSUME Init
  PROVE  IndInv
  BY BoundAssumption DEF Init, IndInv, TypeOK, InOrder, ReadSomeVersion, HasKey, Stored,
     Inserting, Steps

\* Every step keeps the invariant.
LEMMA NextInv ==
  ASSUME IndInv, [Next]_vars
  PROVE  IndInv'
  BY TypeStep, InOrderStep, ReadSomeVersionStep, HasKeyStep DEF IndInv

\* The invariant holds.
LEMMA Invariance == Spec => []IndInv
  BY InitInv, NextInv, PTL DEF Spec

\* The table and the handlers' local state always have their types. A version never
\* outgrows the column's bound because a key's version is at most its place.
THEOREM TypeCorrect == Spec => []TypeOK
<1>1. IndInv => TypeOK
  BY DEF IndInv
<1> QED BY <1>1, Invariance, PTL

-----------------------------------------------------------------------------
\* Versions.

\* No step of storeKey opens a gap between the versions.
LEMMA DenseStep ==
  ASSUME IndInv, VersionsDense, [Next]_vars
  PROVE  VersionsDense'
<1> USE DEF IndInv, VersionsDense
<1>1. ASSUME NEW p \in Proc, Elsewhere(p) PROVE VersionsDense'
  BY <1>1, ElsewhereWrites
<1>2. ASSUME NEW p \in Proc, Deactivate(p) PROVE VersionsDense'
  BY <1>2, DeactivateWrites
<1>3. ASSUME NEW p \in Proc, Insert(p) PROVE VersionsDense'
  <2>1. PICK k \in Key \ Stored :
          /\ number' = [number EXCEPT ![k] = latest[p] + 1]
          /\ Stored' = Stored \cup {k}
    BY <1>3, InsertWrites
  <2>2. Stored \subseteq Key /\ number \in [Key -> 0..MaxKey] /\ latest[p] \in 0..MaxKey
    BY DEF Stored, TypeOK
  <2>3. number'[k] = latest[p] + 1 /\ \A j \in Stored : number'[j] = number[j]
    BY <2>1, <2>2
  <2>4. \A n \in 1..latest[p] : \E j \in Stored : number[j] = n
    BY <1>3, <2>2, InsertWrites DEF ReadSomeVersion
  <2>5. \A n \in 1..(latest[p] + 1) : \E j \in Stored' : number'[j] = n
    BY <2>1, <2>2, <2>3, <2>4
  <2>6. \A j \in Stored : \A n \in 1..number[j] : \E i \in Stored' : number'[i] = n
    BY <2>1, <2>3
  <2> QED BY <2>1, <2>3, <2>5, <2>6
<1>4. CASE UNCHANGED vars
  BY <1>4 DEF vars, Stored
<1> QED BY <1>1, <1>2, <1>3, <1>4, StepCases

\* The versions of a content's keys have no gap, however many handlers store keys at
\* once and wherever they die.
THEOREM DenseTheorem == Spec => []VersionsDense
<1>1. Init => VersionsDense
  BY DEF Init, VersionsDense, Stored
<1> QED BY <1>1, DenseStep, Invariance, PTL DEF Spec

-----------------------------------------------------------------------------
\* Counting.

\* One of a finite set becomes one of another.
LEMMA Trade ==
  ASSUME NEW S, IsFiniteSet(S), NEW T, IsFiniteSet(T), NEW x, x \notin S, NEW y, y \in T
  PROVE  Cardinality(S \cup {x}) + Cardinality(T \ {y}) = Cardinality(S) + Cardinality(T)
<1>1. Cardinality(S \cup {x}) = Cardinality(S) + 1
  BY FS_AddElement
<1>2. Cardinality(T \ {y}) = Cardinality(T) - 1
  BY FS_RemoveElement
<1>3. Cardinality(S) \in Nat /\ Cardinality(T) \in Nat
  BY FS_CardinalityType
<1> QED BY <1>1, <1>2, <1>3

\* Sets of keys and sets of handlers are finite.
LEMMA Finite ==
  /\ \A S \in SUBSET Key : IsFiniteSet(S) /\ Cardinality(S) \in Nat
  /\ \A S \in SUBSET Proc : /\ IsFiniteSet(S) /\ Cardinality(S) \in Nat
                            /\ Cardinality(S) <= Cardinality(Proc)
<1>1. IsFiniteSet(Key)
  BY FS_Interval, BoundAssumption DEF Key
<1>2. ASSUME NEW S \in SUBSET Key PROVE IsFiniteSet(S) /\ Cardinality(S) \in Nat
  BY <1>1, FS_Subset, FS_CardinalityType
<1>3. ASSUME NEW S \in SUBSET Proc
      PROVE  IsFiniteSet(S) /\ Cardinality(S) \in Nat /\ Cardinality(S) <= Cardinality(Proc)
  BY ProcAssumption, FS_Subset, FS_CardinalityType
<1> QED BY <1>2, <1>3

\* Handlers that deactivated the keys and have yet to insert theirs.
Storers == {p \in Proc : Reading(p) \/ Inserting(p)}

\* Each of them may add one active key.
ActiveRoom == Cardinality(Active) + Cardinality(Storers) <= Cardinality(Proc)

\* Handlers that will give their key version n, and the keys that have it.
Numbering(n) == {p \in Proc : Inserting(p) /\ latest[p] + 1 = n}
Numbered(n) == {k \in Stored : number[k] = n}

\* Each of the former may become one of the latter.
VersionRoom ==
  \A n \in 1..MaxKey :
    Cardinality(Numbered(n)) + Cardinality(Numbering(n)) <= Cardinality(Proc)

\* A handler joins the storers by deactivating the active keys, and leaves them by
\* inserting one.
LEMMA ActiveRoomStep ==
  ASSUME IndInv, ActiveRoom, [Next]_vars
  PROVE  ActiveRoom'
<1> USE DEF IndInv
<1>0. /\ Active \in SUBSET Key /\ Storers \in SUBSET Proc
      /\ Active' \in SUBSET Key /\ Storers' \in SUBSET Proc
  BY DEF Active, Storers
<1>1. ASSUME NEW p \in Proc, Elsewhere(p) PROVE ActiveRoom'
  <2>1. Reading(p)' \/ Inserting(p)' => Reading(p)
    BY <1>1 DEF Elsewhere, RotateKey, EncryptContent, RetrieveThrows, ReadLatest, Upload,
       Crash, Goto, Done, Reading, Inserting, TypeOK
  <2>2. Storers' \subseteq Storers
    BY <1>1, <2>1, OthersStay DEF Storers, Reading, Inserting
  <2>3. Cardinality(Storers') <= Cardinality(Storers)
    BY <1>0, <2>2, Finite, FS_Subset
  <2>4. Active' = Active
    BY <1>1, ElsewhereWrites
  <2> QED BY <1>0, <2>3, <2>4, Finite, FS_CardinalityType, ProcAssumption DEF ActiveRoom
<1>2. ASSUME NEW p \in Proc, Deactivate(p) PROVE ActiveRoom'
  <2>1. Cardinality(Active') = 0
    BY <1>2, DeactivateWrites, FS_EmptySet
  <2> QED BY <1>0, <2>1, Finite DEF ActiveRoom
<1>3. ASSUME NEW p \in Proc, Insert(p) PROVE ActiveRoom'
  <2>1. PICK k \in Key \ Stored : Active' = Active \cup {k}
    BY <1>3, InsertWrites
  <2>2. k \notin Active
    BY <2>1 DEF Active, Stored
  <2>3. p \in Storers
    BY <1>3, InsertWrites DEF Storers
  <2>4. ~Reading(p)' /\ ~Inserting(p)'
    BY <1>3 DEF Insert, Goto, Done, Reading, Inserting, TypeOK
  <2>5. Storers' = Storers \ {p}
    BY <1>3, <2>4, OthersStay DEF Storers, Reading, Inserting
  <2>6. Cardinality(Active') + Cardinality(Storers') = Cardinality(Active) + Cardinality(Storers)
    BY <1>0, <2>1, <2>2, <2>3, <2>5, Trade, Finite
  <2> QED BY <2>6 DEF ActiveRoom
<1>4. CASE UNCHANGED vars
  BY <1>4 DEF vars, ActiveRoom, Active, Storers, Reading, Inserting
<1> QED BY <1>1, <1>2, <1>3, <1>4, StepCases

\* Overlapping handlers never leave more active keys than there are handlers.
THEOREM ActiveTheorem == Spec => []ActiveBounded
<1>1. Init => ActiveRoom
  <2> SUFFICES ASSUME Init PROVE ActiveRoom
    OBVIOUS
  <2>1. Active = {} /\ Storers = {}
    BY DEF Init, Active, Storers, Reading, Inserting
  <2> QED BY <2>1, FS_EmptySet, FS_CardinalityType, ProcAssumption DEF ActiveRoom
<1>2. ActiveRoom => ActiveBounded
  <2>1. Active \in SUBSET Key /\ Storers \in SUBSET Proc
    BY DEF Active, Storers
  <2> QED BY <2>1, Finite, FS_CardinalityType, ProcAssumption DEF ActiveRoom, ActiveBounded
<1> QED BY <1>1, <1>2, ActiveRoomStep, Invariance, PTL DEF Spec

\* A handler that reads the greatest version will use one that no key has yet.
LEMMA FreshVersion ==
  ASSUME IndInv, NEW p \in Proc, ReadLatest(p), NEW n \in 1..MaxKey, latest'[p] + 1 = n
  PROVE  Numbered(n) = {}
<1>1. PICK m \in {number[k] : k \in Stored} \cup {0} :
        (\A k \in Stored : number[k] <= m) /\ latest' = [latest EXCEPT ![p] = m]
  BY DEF ReadLatest
<1>2. latest'[p] = m
  BY <1>1 DEF IndInv, TypeOK
<1>3. m \in Nat
  BY BoundAssumption DEF IndInv, TypeOK, Stored
<1> QED BY <1>1, <1>2, <1>3 DEF Numbered, Stored, IndInv, TypeOK

\* A handler joins those numbering n only when no key has version n, and leaves them
\* by giving it to one.
LEMMA VersionRoomStep ==
  ASSUME IndInv, VersionRoom, [Next]_vars
  PROVE  VersionRoom'
<1> USE DEF IndInv
<1> SUFFICES ASSUME NEW n \in 1..MaxKey
             PROVE  Cardinality(Numbered(n)') + Cardinality(Numbering(n)') <= Cardinality(Proc)
  BY DEF VersionRoom
<1> DEFINE Goal == Cardinality(Numbered(n)') + Cardinality(Numbering(n)') <= Cardinality(Proc)
<1>a. Cardinality(Numbered(n)) + Cardinality(Numbering(n)) <= Cardinality(Proc)
  BY DEF VersionRoom
<1>b. /\ Numbered(n) \in SUBSET Key /\ Numbering(n) \in SUBSET Proc
      /\ Numbered(n)' \in SUBSET Key /\ Numbering(n)' \in SUBSET Proc
  BY DEF Numbered, Numbering, Stored
<1>c. Cardinality(Proc) \in Nat
  BY ProcAssumption, FS_CardinalityType
<1>d. ASSUME Numbered(n)' = Numbered(n), Numbering(n)' \subseteq Numbering(n)
      PROVE  Goal
  <2>1. Cardinality(Numbering(n)') <= Cardinality(Numbering(n))
    BY <1>b, <1>d, Finite, FS_Subset
  <2> QED BY <1>a, <1>b, <1>c, <1>d, <2>1, Finite
<1>1. ASSUME NEW p \in Proc, Elsewhere(p) PROVE Goal
  <2>1. Numbered(n)' = Numbered(n)
    BY <1>1, ElsewhereWrites DEF Numbered
  <2>2. CASE ReadLatest(p) /\ latest'[p] + 1 = n
    <3>1. Cardinality(Numbered(n)') = 0
      BY <2>1, <2>2, FreshVersion, FS_EmptySet
    <3> QED BY <1>b, <1>c, <3>1, Finite
  <2>3. CASE ~(ReadLatest(p) /\ latest'[p] + 1 = n)
    <3>1. ~(Inserting(p)' /\ latest'[p] + 1 = n)
      BY <1>1, <2>3 DEF Elsewhere, RotateKey, EncryptContent, RetrieveThrows, Upload,
         Crash, Goto, Done, Inserting, TypeOK
    <3>2. Numbering(n)' \subseteq Numbering(n)
      BY <1>1, <3>1, OthersStay DEF Numbering, Inserting
    <3> QED BY <1>d, <2>1, <3>2
  <2> QED BY <2>2, <2>3
<1>2. ASSUME NEW p \in Proc, Deactivate(p) PROVE Goal
  <2>1. Numbered(n)' = Numbered(n)
    BY <1>2, DeactivateWrites DEF Numbered
  <2>2. ~Inserting(p)'
    BY <1>2 DEF Deactivate, Goto, Inserting, TypeOK
  <2>3. Numbering(n)' \subseteq Numbering(n)
    BY <1>2, <2>2, OthersStay DEF Numbering, Inserting
  <2> QED BY <1>d, <2>1, <2>3
<1>3. ASSUME NEW p \in Proc, Insert(p) PROVE Goal
  <2>1. PICK k \in Key \ Stored :
          /\ number' = [number EXCEPT ![k] = latest[p] + 1]
          /\ Stored' = Stored \cup {k}
    BY <1>3, InsertWrites
  <2>2. Stored \subseteq Key /\ number \in [Key -> 0..MaxKey]
    BY DEF Stored, TypeOK
  <2>3. ~Inserting(p)'
    BY <1>3 DEF Insert, Goto, Done, Inserting, TypeOK
  <2>4. CASE latest[p] + 1 = n
    <3>1. Numbered(n)' = Numbered(n) \cup {k} /\ k \notin Numbered(n)
      BY <2>1, <2>2, <2>4 DEF Numbered
    <3>2. p \in Numbering(n)
      BY <1>3, <2>4, InsertWrites DEF Numbering
    <3>3. Numbering(n)' = Numbering(n) \ {p}
      BY <1>3, <2>3, OthersStay DEF Numbering, Inserting
    <3>4. Cardinality(Numbered(n)') + Cardinality(Numbering(n)')
            = Cardinality(Numbered(n)) + Cardinality(Numbering(n))
      BY <1>b, <3>1, <3>2, <3>3, Trade, Finite
    <3> QED BY <1>a, <3>4
  <2>5. CASE latest[p] + 1 # n
    <3>1. Numbered(n)' = Numbered(n)
      BY <2>1, <2>2, <2>5 DEF Numbered
    <3>2. Numbering(n)' \subseteq Numbering(n)
      BY <1>3, <2>3, OthersStay DEF Numbering, Inserting
    <3> QED BY <1>d, <3>1, <3>2
  <2> QED BY <2>4, <2>5
<1>4. CASE UNCHANGED vars
  <2>1. Numbered(n)' = Numbered(n) /\ Numbering(n)' = Numbering(n)
    BY <1>4 DEF vars, Numbered, Numbering, Inserting, Stored
  <2> QED BY <1>d, <2>1
<1> QED BY <1>1, <1>2, <1>3, <1>4, StepCases

\* No version is given to more keys than there are handlers.
THEOREM SharingTheorem == Spec => []SharingBounded
<1>1. Init => VersionRoom
  <2> SUFFICES ASSUME Init, NEW n \in 1..MaxKey
               PROVE  Cardinality(Numbered(n)) + Cardinality(Numbering(n)) <= Cardinality(Proc)
    BY DEF VersionRoom
  <2>1. Numbered(n) = {} /\ Numbering(n) = {}
    BY DEF Init, Numbered, Stored, Numbering, Inserting
  <2> QED BY <2>1, FS_EmptySet, FS_CardinalityType, ProcAssumption
<1>2. VersionRoom => SharingBounded
  <2> SUFFICES ASSUME VersionRoom, NEW n \in 1..MaxKey
               PROVE  Cardinality(Numbered(n)) <= Cardinality(Proc)
    BY DEF SharingBounded, Numbered
  <2>1. Numbered(n) \in SUBSET Key /\ Numbering(n) \in SUBSET Proc
    BY DEF Numbered, Numbering, Stored
  <2> QED BY <2>1, Finite, FS_CardinalityType, ProcAssumption DEF VersionRoom
<1> QED BY <1>1, <1>2, VersionRoomStep, Invariance, PTL DEF Spec
=============================================================================
