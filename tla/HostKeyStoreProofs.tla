------------------------- MODULE HostKeyStoreProofs -------------------------
(***************************************************************************)
(* The host key store keeps its decisions for any profiles, names, keys    *)
(* and algorithms: every answer the user was given has its reason in the   *)
(* file, and the file changes as TrustDecisions says.                      *)
(***************************************************************************)
EXTENDS HostKeyStore, TLAPS

\* What one call of trust relies on: while it saves, the file is the one it has
\* read, without a key of that algorithm for the host.
SavingInv ==
    saving # None /\ saving.step # "load" =>
        /\ saving.keys = WithKey(saving.entry, known_hosts)
        /\ Lookup(known_hosts, saving.entry.name, saving.entry.key) = {}

\* While the program runs the file only grows, so what a connection has read is
\* still there when it decides.
ReadInv ==
    \A p \in Profiles :
        /\ connecting[p].read \subseteq known_hosts
        /\ connecting[p].step # "read" => connecting[p].read = {}

\* The user edits the file when nobody has been told anything yet.
StoppedInv == ~running => accepted \cup refused \cup stored = {}

TrustInv ==
    /\ Decisions!Consistent(known_hosts)
    /\ ReadInv
    /\ SavingInv
    /\ StoppedInv
    /\ FileBacksDecisions

-----------------------------------------------------------------------------
(* Entries.                                                                 *)

\* A key of the same algorithm for the same name that is another entry is one in
\* conflict.
LEMMA OtherKeyConflicts ==
  ASSUME NEW e \in Entries, NEW f \in Entries, f # e,
         f.name = e.name, AlgorithmOf[f.key] = AlgorithmOf[e.key]
  PROVE  Decisions!Conflict(e, f)
<1>1. e = [name |-> e.name, key |-> e.key] /\ f = [name |-> f.name, key |-> f.key]
  BY DEF Entries, Decisions!Entries
<1> QED
  BY <1>1 DEF Decisions!Conflict

\* A name without a key of that algorithm takes a new one without a conflict.
LEMMA NewKeyIsConsistent ==
  ASSUME NEW entries \in SUBSET Entries, NEW e \in Entries,
         Decisions!Consistent(entries), Lookup(entries, e.name, e.key) = {}
  PROVE  /\ e \notin entries
         /\ \A f \in entries : ~Decisions!Conflict(e, f)
         /\ Decisions!Consistent(WithKey(e, entries))
  BY DEF Lookup, Decisions!Consistent, Decisions!Conflict, WithKey

\* The key a connection was presented is an entry.
LEMMA PresentedIsEntry ==
  ASSUME TypeOK, NEW p \in Profiles, connecting[p].step # "resting"
  PROVE  Presented(p) \in Entries /\ running
  BY ProfilesAssumption
  DEF TypeOK, Presented, Entry, Entries, Decisions!Entry, Decisions!Entries

-----------------------------------------------------------------------------
(* Types.                                                                   *)

\* The file starts with well-typed entries, and nothing older is on the disk.
THEOREM InitType == Init => TypeOK
<1> SUFFICES ASSUME Init PROVE TypeOK
  OBVIOUS
<1>1. known_hosts \subseteq Entries
  BY Zenon DEF Init
<1>2. \A contents \in recent : contents \subseteq known_hosts
  BY DEF Init
<1> QED
  BY <1>1, <1>2 DEF Init, TypeOK, Resting

\* The types are kept by every step: trust writes what it has read and one key
\* (HostKeyStore.trust), the rest writes nothing (verify).
THEOREM NextType == TypeOK /\ SavingInv /\ [Next]_vars => TypeOK'
<1> SUFFICES ASSUME TypeOK, SavingInv, [Next]_vars PROVE TypeOK'
  OBVIOUS
<1>1. ASSUME NEW p \in Profiles, NEW key \in Keys, Connect(p, key) PROVE TypeOK'
  BY <1>1, KeysAssumption DEF Connect, TypeOK
<1>2. ASSUME NEW p \in Profiles, Load(p) PROVE TypeOK'
  BY <1>2 DEF Load, TypeOK, Resting
<1>3. ASSUME NEW p \in Profiles, Verify(p) PROVE TypeOK'
  <2>1. Presented(p) \in Entries /\ running
    BY <1>3, PresentedIsEntry DEF Verify
  <2> QED
    BY <1>3, <2>1 DEF Verify, TypeOK, Resting
<1>4. ASSUME NEW p \in Profiles, Confirm(p) PROVE TypeOK'
  <2>1. Presented(p) \in Entries /\ running
    BY <1>4, PresentedIsEntry DEF Confirm
  <2> QED
    BY <1>4, <2>1 DEF Confirm, Saving, TypeOK, Resting
<1>5. ASSUME NEW p \in Profiles, Decline(p) PROVE TypeOK'
  BY <1>5 DEF Decline, TypeOK, Resting
<1>6. ASSUME LoadForTrust PROVE TypeOK'
  BY <1>6 DEF LoadForTrust, Saving, WithKey, TypeOK
<1>7. ASSUME Save PROVE TypeOK'
  BY <1>7 DEF Save, Prepare, TypeOK
<1>8. ASSUME Replace PROVE TypeOK'
  BY <1>8 DEF Replace, OnDisk, SavingInv, WithKey, TypeOK
<1>9. ASSUME SaveFails PROVE TypeOK'
  BY <1>9 DEF SaveFails, TypeOK
<1>10. ASSUME Environment PROVE TypeOK'
  <2>1. CASE Start
    BY <2>1 DEF Start, TypeOK
  <2>2. CASE Exit
    BY <2>2 DEF Exit, Stop, Resting, TypeOK
  <2>3. CASE PowerLoss
    BY <2>3 DEF PowerLoss, Stop, Resting, TypeOK
  <2>4. CASE Settle
    BY <2>4 DEF Settle, TypeOK
  <2>5. ASSUME NEW e \in Entries, Edit(e) PROVE TypeOK'
    BY <2>5 DEF Edit, TypeOK
  <2> QED
    BY <1>10, <2>1, <2>2, <2>3, <2>4, <2>5 DEF Environment
<1>11. ASSUME UNCHANGED vars PROVE TypeOK'
  BY <1>11 DEF vars, TypeOK
<1> QED
  BY <1>1, <1>2, <1>3, <1>4, <1>5, <1>6, <1>7, <1>8, <1>9, <1>10, <1>11
  DEF Next, Connections, Trusting

-----------------------------------------------------------------------------
(* The invariant.                                                           *)

\* A fresh program has told nobody anything.
THEOREM InitTrust == Init => TrustInv
<1> SUFFICES ASSUME Init PROVE TrustInv
  OBVIOUS
<1>1. Decisions!Consistent(known_hosts)
  BY Zenon DEF Init
<1> QED
  BY <1>1 DEF Init, TrustInv, ReadInv, SavingInv, StoppedInv, FileBacksDecisions,
     TrustedKeysAreInFile, RefusedKeysConflict, Resting

\* A step that leaves the file, the call of trust and the answers alone.
LEMMA ConnectionKeeps ==
  ASSUME TypeOK, TrustInv, ReadInv',
         UNCHANGED <<running, known_hosts, saving, accepted, refused, stored>>
  PROVE  TrustInv'
  BY DEF TrustInv, ReadInv, SavingInv, StoppedInv, FileBacksDecisions,
     TrustedKeysAreInFile, RefusedKeysConflict, Lookup, WithKey, Decisions!Consistent,
     Decisions!Conflict

\* A step that stops the program with a part of the file.
LEMMA StopKeeps ==
  ASSUME TrustInv, Stop, known_hosts' \subseteq known_hosts
  PROVE  TrustInv'
  BY DEF TrustInv, Stop, Resting, ReadInv, SavingInv, StoppedInv, FileBacksDecisions,
     TrustedKeysAreInFile, RefusedKeysConflict, Decisions!Consistent, Decisions!Conflict

\* Every step of verify, trust and of what may happen to the file keeps the
\* reasons of the answers given.
THEOREM NextTrust == TypeOK /\ TrustInv /\ [Next]_vars => TrustInv'
<1> SUFFICES ASSUME TypeOK, TrustInv, [Next]_vars PROVE TrustInv'
  OBVIOUS
<1>1. ASSUME NEW p \in Profiles, NEW key \in Keys, Connect(p, key) PROVE TrustInv'
  <2>1. ReadInv'
    BY <1>1 DEF Connect, TrustInv, ReadInv, TypeOK
  <2> QED
    BY <1>1, <2>1, ConnectionKeeps DEF Connect
<1>2. ASSUME NEW p \in Profiles, Load(p) PROVE TrustInv'
  <2>1. ReadInv'
    BY <1>2 DEF Load, Resting, TrustInv, ReadInv, TypeOK
  <2> QED
    BY <1>2, <2>1, ConnectionKeeps DEF Load
<1>3. ASSUME NEW p \in Profiles, Verify(p) PROVE TrustInv'
  <2> DEFINE found == Lookup(connecting[p].read, NameOf[p], connecting[p].key)
  <2>1. Presented(p) \in Entries /\ running
    BY <1>3, PresentedIsEntry DEF Verify
  <2>2. ReadInv' /\ running'
    BY <1>3, <2>1 DEF Verify, Resting, TrustInv, ReadInv, TypeOK
  <2>3. found \subseteq known_hosts /\ found \subseteq Entries
    BY DEF TrustInv, ReadInv, Lookup, TypeOK
  <2>4. TrustedKeysAreInFile'
    <3>1. CASE found = {Presented(p)} /\ accepted' = accepted \cup {Presented(p)}
      BY <1>3, <2>3, <3>1 DEF Verify, TrustInv, FileBacksDecisions, TrustedKeysAreInFile
    <3>2. CASE UNCHANGED accepted
      BY <1>3, <3>2 DEF Verify, TrustInv, FileBacksDecisions, TrustedKeysAreInFile
    <3> QED
      BY <1>3, <3>1, <3>2 DEF Verify
  <2>5. RefusedKeysConflict'
    <3>1. CASE found # {} /\ found # {Presented(p)}
               /\ refused' = refused \cup {Presented(p)}
      <4>1. PICK f \in found : f # Presented(p)
        BY <3>1
      <4>2. Decisions!Conflict(Presented(p), f)
        <5>1. /\ f.name = Presented(p).name
              /\ AlgorithmOf[f.key] = AlgorithmOf[Presented(p).key]
          BY <4>1 DEF Lookup, Presented, Entry, Decisions!Entry
        <5> QED
          BY <2>1, <2>3, <4>1, <5>1, OtherKeyConflicts
      <4> QED
        BY <1>3, <2>3, <3>1, <4>1, <4>2
        DEF Verify, TrustInv, FileBacksDecisions, RefusedKeysConflict, Decisions!Conflict
    <3>2. CASE UNCHANGED refused
      BY <1>3, <3>2
      DEF Verify, TrustInv, FileBacksDecisions, RefusedKeysConflict, Decisions!Conflict
    <3> QED
      BY <1>3, <3>1, <3>2 DEF Verify
  <2> QED
    BY <1>3, <2>2, <2>4, <2>5
    DEF Verify, TrustInv, SavingInv, StoppedInv, FileBacksDecisions, Lookup, WithKey,
        Decisions!Consistent, Decisions!Conflict
<1>4. ASSUME NEW p \in Profiles, Confirm(p) PROVE TrustInv'
  <2>1. ReadInv'
    BY <1>4 DEF Confirm, Resting, TrustInv, ReadInv, TypeOK
  <2>2. SavingInv'
    BY <1>4 DEF Confirm, Saving, SavingInv
  <2> QED
    BY <1>4, <2>1, <2>2
    DEF Confirm, TrustInv, StoppedInv, FileBacksDecisions, TrustedKeysAreInFile,
        RefusedKeysConflict, Decisions!Consistent, Decisions!Conflict
<1>5. ASSUME NEW p \in Profiles, Decline(p) PROVE TrustInv'
  <2>1. ReadInv'
    BY <1>5 DEF Decline, Resting, TrustInv, ReadInv, TypeOK
  <2> QED
    BY <1>5, <2>1, ConnectionKeeps DEF Decline
<1>6. ASSUME LoadForTrust PROVE TrustInv'
  <2> DEFINE entry == saving.entry
             found == Lookup(known_hosts, entry.name, entry.key)
  <2>1. entry \in Entries /\ running /\ found \subseteq known_hosts
    BY <1>6 DEF LoadForTrust, TypeOK, Lookup
  <2>2. UNCHANGED <<running, known_hosts, connecting, accepted>>
    BY <1>6 DEF LoadForTrust
  <2>3. ReadInv' /\ StoppedInv' /\ Decisions!Consistent(known_hosts)'
    BY <2>1, <2>2
    DEF TrustInv, ReadInv, StoppedInv, Decisions!Consistent, Decisions!Conflict
  <2>4. CASE found = {entry} /\ saving' = None /\ stored' = stored \cup {entry}
             /\ UNCHANGED refused
    BY <2>1, <2>2, <2>3, <2>4
    DEF TrustInv, SavingInv, FileBacksDecisions, TrustedKeysAreInFile,
        RefusedKeysConflict, Decisions!Conflict
  <2>5. CASE found # {} /\ found # {entry} /\ saving' = None
             /\ refused' = refused \cup {entry} /\ UNCHANGED stored
    <3>1. PICK f \in found : f # entry
      BY <2>5
    <3>2. Decisions!Conflict(entry, f)
      <4>1. /\ f \in Entries /\ f.name = entry.name
            /\ AlgorithmOf[f.key] = AlgorithmOf[entry.key]
        BY <3>1 DEF Lookup, TypeOK
      <4> QED
        BY <2>1, <3>1, <4>1, OtherKeyConflicts
    <3> QED
      BY <2>1, <2>2, <2>3, <2>5, <3>1, <3>2
      DEF TrustInv, SavingInv, FileBacksDecisions, TrustedKeysAreInFile,
          RefusedKeysConflict, Decisions!Conflict
  <2>6. CASE found = {} /\ saving' = Saving("make", entry, WithKey(entry, known_hosts))
             /\ UNCHANGED <<refused, stored>>
    <3>1. SavingInv'
      BY <2>2, <2>6 DEF SavingInv, Saving, WithKey, Lookup
    <3> QED
      BY <2>2, <2>3, <2>6, <3>1
      DEF TrustInv, FileBacksDecisions, TrustedKeysAreInFile, RefusedKeysConflict,
          Decisions!Conflict
  <2> QED
    BY <1>6, <2>4, <2>5, <2>6 DEF LoadForTrust, Known
<1>7. ASSUME Save PROVE TrustInv'
  <2>1. /\ saving'.keys = saving.keys /\ saving'.entry = saving.entry
        /\ saving.step # "load"
    BY <1>7 DEF Save, TypeOK
  <2>2. SavingInv'
    BY <1>7, <2>1 DEF Save, TrustInv, SavingInv, WithKey, Lookup
  <2> QED
    BY <1>7, <2>2
    DEF Save, TrustInv, ReadInv, StoppedInv, FileBacksDecisions, TrustedKeysAreInFile,
        RefusedKeysConflict, Decisions!Consistent, Decisions!Conflict
<1>8. ASSUME Replace PROVE TrustInv'
  <2> DEFINE entry == saving.entry
  <2>1. /\ saving # None /\ saving.step # "load" /\ entry \in Entries /\ running
        /\ known_hosts \in SUBSET Entries
    BY <1>8 DEF Replace, TypeOK
  <2>2. /\ known_hosts' = WithKey(entry, known_hosts)
        /\ Lookup(known_hosts, entry.name, entry.key) = {}
    BY <1>8, <2>1 DEF Replace, TrustInv, SavingInv
  <2>3. Decisions!Consistent(known_hosts')
    BY <2>1, <2>2, NewKeyIsConsistent DEF TrustInv
  <2>4. known_hosts \subseteq known_hosts' /\ entry \in known_hosts'
    BY <2>2 DEF WithKey
  <2>5. FileBacksDecisions'
    BY <1>8, <2>4
    DEF Replace, TrustInv, FileBacksDecisions, TrustedKeysAreInFile,
        RefusedKeysConflict, Decisions!Conflict
  <2>6. ReadInv' /\ SavingInv' /\ StoppedInv'
    BY <1>8, <2>1, <2>4 DEF Replace, TrustInv, ReadInv, SavingInv, StoppedInv
  <2> QED
    BY <2>3, <2>5, <2>6 DEF TrustInv, Decisions!Consistent, Decisions!Conflict
<1>9. ASSUME SaveFails PROVE TrustInv'
  BY <1>9
  DEF SaveFails, TrustInv, ReadInv, SavingInv, StoppedInv, FileBacksDecisions,
      TrustedKeysAreInFile, RefusedKeysConflict, Decisions!Consistent, Decisions!Conflict
<1>10. ASSUME Environment PROVE TrustInv'
  <2>1. CASE Start
    BY <2>1
    DEF Start, TrustInv, ReadInv, SavingInv, StoppedInv, FileBacksDecisions, Lookup,
        TrustedKeysAreInFile, RefusedKeysConflict, WithKey, Decisions!Consistent,
        Decisions!Conflict
  <2>2. CASE Exit
    BY <2>2, StopKeeps DEF Exit
  <2>3. CASE PowerLoss
    BY <2>3, StopKeeps DEF PowerLoss, TypeOK
  <2>4. CASE Settle
    BY <2>4, ConnectionKeeps DEF Settle, TrustInv, ReadInv
  <2>5. ASSUME NEW e \in Entries, Edit(e) PROVE TrustInv'
    <3>1. /\ saving = None /\ accepted \cup refused \cup stored = {}
          /\ \A p \in Profiles : connecting[p].read = {}
      BY <2>5 DEF Edit, TypeOK, TrustInv, StoppedInv, ReadInv
    <3> QED
      BY <2>5, <3>1
      DEF Edit, TrustInv, ReadInv, SavingInv, StoppedInv, FileBacksDecisions,
          TrustedKeysAreInFile, RefusedKeysConflict, Decisions!Consistent,
          Decisions!Conflict
  <2> QED
    BY <1>10, <2>1, <2>2, <2>3, <2>4, <2>5 DEF Environment
<1>11. ASSUME UNCHANGED vars PROVE TrustInv'
  BY <1>11, ConnectionKeeps DEF vars, TrustInv, ReadInv
<1> QED
  BY <1>1, <1>2, <1>3, <1>4, <1>5, <1>6, <1>7, <1>8, <1>9, <1>10, <1>11
  DEF Next, Connections, Trusting

-----------------------------------------------------------------------------
(* The theorems of the specification.                                       *)

\* The types, and that all the disk may have is a part of the file, with what
\* the answers rest on: the inductive invariant of the store.
THEOREM TrustInOrder == Spec => [](TypeOK /\ TrustInv)
<1>1. Init => TypeOK /\ TrustInv
  BY InitType, InitTrust
<1>2. TypeOK /\ TrustInv /\ [Next]_vars => TypeOK' /\ TrustInv'
  BY NextType, NextTrust DEF TrustInv
<1> QED
  BY <1>1, <1>2, PTL DEF Spec

\* The variables have their types (the state of HostKeyStore and of the calls
\* that use it).
THEOREM TypeCorrect == Spec => []TypeOK
BY TrustInOrder, PTL

\* Every key the user was told is trusted is in the file, and every key refused
\* as changed has another one there (HostKeyStore.verify, trust).
THEOREM DecisionsHaveReasons == Spec => []FileBacksDecisions
<1>1. TrustInv => FileBacksDecisions
  BY DEF TrustInv
<1> QED
  BY <1>1, TrustInOrder, PTL

-----------------------------------------------------------------------------
(* The refinement.                                                          *)

\* The store starts as a consistent set of decisions.
THEOREM InitMaps == Init => Decisions!Init
<1> SUFFICES ASSUME Init PROVE Decisions!Init
  OBVIOUS
<1>1. known_hosts \in {d \in SUBSET Entries : Decisions!Consistent(d)}
  BY Zenon DEF Init
<1>2. recent = {known_hosts}
  BY Zenon DEF Init
<1> QED
  BY <1>1, <1>2, Zenon DEF Decisions!Init, Entries

\* Replacing the file takes one new decision, without a conflict; a removal in
\* an editor, a loss of power and what the system writes out are steps of the
\* set of decisions; all else leaves the file (_save_atomically).
THEOREM NextMaps ==
  TypeOK /\ TrustInv /\ [Next]_vars => [Decisions!Next]_(Decisions!trustVars)
<1> SUFFICES ASSUME TypeOK, TrustInv, [Next]_vars
             PROVE  Decisions!Next \/ UNCHANGED <<known_hosts, recent>>
  BY DEF Decisions!trustVars
<1>1. CASE Connections \/ LoadForTrust \/ Save \/ SaveFails \/ UNCHANGED vars
  BY <1>1 DEF Connections, Connect, Load, Verify, Confirm, Decline, LoadForTrust, Save,
     SaveFails, vars
<1>2. CASE Replace
  <2> DEFINE entry == saving.entry
  <2>1. /\ saving # None /\ saving.step = "synced" /\ entry \in Entries
        /\ known_hosts \in SUBSET Entries
    BY <1>2 DEF Replace, TypeOK
  <2>2. /\ saving.keys = WithKey(entry, known_hosts)
        /\ Lookup(known_hosts, entry.name, entry.key) = {}
        /\ Decisions!Consistent(known_hosts)
    BY <2>1 DEF TrustInv, SavingInv
  <2>3. /\ entry \notin known_hosts
        /\ \A f \in known_hosts : ~Decisions!Conflict(entry, f)
    BY <2>1, <2>2, NewKeyIsConsistent
  <2>4. known_hosts' = known_hosts \cup {entry} /\ recent' = recent \cup {known_hosts'}
    BY <1>2, <2>1, <2>2 DEF Replace, OnDisk, WithKey
  <2> HIDE DEF entry
  <2>5. Decisions!Trust(entry)
    BY <2>3, <2>4 DEF Decisions!Trust
  <2> QED
    BY <2>1, <2>5 DEF Decisions!Next, Entries
<1>3. CASE Environment
  <2>1. CASE Start
    BY <2>1 DEF Start
  <2>2. CASE Exit
    BY <2>2 DEF Exit
  <2>3. CASE PowerLoss
    BY <2>3 DEF PowerLoss, Decisions!Lose, Decisions!Next
  <2>4. CASE Settle
    BY <2>4 DEF Settle, Decisions!Settle, Decisions!Next
  <2>5. ASSUME NEW e \in Entries, Edit(e) PROVE Decisions!Next
    BY <2>5 DEF Edit, Decisions!Revoke, Decisions!Next, Entries
  <2> QED
    BY <1>3, <2>1, <2>2, <2>3, <2>4, <2>5 DEF Environment
<1> QED
  BY <1>1, <1>2, <1>3 DEF Next, Trusting

\* The file keeps what TrustDecisions promises, for any profiles, names and keys.
THEOREM KeepsItsDecisions == Spec => ImplementsTrustDecisions
<1> QED
  BY TrustInOrder, InitMaps, NextMaps, PTL
  DEF Spec, ImplementsTrustDecisions, Decisions!Spec
=============================================================================
