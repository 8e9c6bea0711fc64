---------------------------- MODULE HostKeyStore ----------------------------
(***************************************************************************)
(* app/ssh/host_keys.py, and of app/ssh/ssh_manager.py what asks it: the   *)
(* known_hosts file, the connections that verify the key a server presents *)
(* (on pool threads, one per profile) and the confirmed challenge that the *)
(* Qt thread stores.  load, verify and trust share no lock and no memory:  *)
(* every call reads the file again.                                        *)
(*                                                                         *)
(* The program may be killed at any step, and the power may fail.  The     *)
(* file is replaced by os.replace, which readers see at once; the          *)
(* directory is not synchronised, so the old contents may come back after  *)
(* a loss of power.  A file that was not synchronised before it was        *)
(* renamed may come back with any part of its lines.                       *)
(*                                                                         *)
(* One instance of the program runs at a time.  A left-over temporary file *)
(* is never read (mkstemp makes a fresh name) and is not modelled.         *)
(***************************************************************************)
CONSTANTS
    None,           \* Python's None
    Profiles,       \* the servers of the configuration
    Names,          \* host names with their ports (_openssh_host_name)
    NameOf,         \* the name of each profile
    Keys,           \* the public keys a host may present
    AlgorithmOf     \* key.get_name()

ASSUME ProfilesAssumption == NameOf \in [Profiles -> Names]
ASSUME KeysAssumption == None \notin Keys

VARIABLES
    running,        \* the program runs
    known_hosts,    \* the entries of the file
    recent,         \* its contents that may be on the disk
    connecting,     \* of each profile: its connection attempt or its challenge
    saving,         \* the call of trust, or None
    accepted,       \* the keys connections were accepted with in this run
    refused,        \* the keys refused as changed in this run
    stored          \* the challenges trust has stored in this run

vars == <<running, known_hosts, recent, connecting, saving, accepted, refused, stored>>

Decisions == INSTANCE TrustDecisions WITH trusted <- known_hosts, past <- recent

Entry(name, key) == Decisions!Entry(name, key)
Entries == Decisions!Entries

\* A profile without a connection attempt: no key presented, nothing read.
Resting == [step |-> "resting", key |-> None, read |-> {}]

Init ==
    /\ running     = FALSE
    /\ known_hosts \in {d \in SUBSET Entries : Decisions!Consistent(d)}
    /\ recent      = {known_hosts}
    /\ connecting  = [p \in Profiles |-> Resting]
    /\ saving      = None
    /\ accepted    = {}
    /\ refused     = {}
    /\ stored      = {}

-----------------------------------------------------------------------------
(* Looking up.                                                              *)

\* _lookup_key: the key of the name of the same algorithm.
Lookup(entries, name, key) ==
    {e \in entries : e.name = name /\ AlgorithmOf[e.key] = AlgorithmOf[key]}

-----------------------------------------------------------------------------
(* SSHManager.connect, in the worker of a connection job.                   *)

Presented(p) == Entry(NameOf[p], connecting[p].key)

\* The server presents a key; an open challenge of the profile is given up.
Connect(p, key) ==
    /\ running
    /\ connecting[p].step \in {"resting", "asked"}
    /\ connecting' = [connecting EXCEPT ![p] = [step |-> "presented", key |-> key, read |-> {}]]
    /\ UNCHANGED <<running, known_hosts, recent, saving, accepted, refused, stored>>

\* verify: load; a file that cannot be read ends the attempt.
Load(p) ==
    /\ connecting[p].step = "presented"
    /\ connecting' \in {[connecting EXCEPT ![p].step = "read", ![p].read = known_hosts],
                        [connecting EXCEPT ![p] = Resting]}
    /\ UNCHANGED <<running, known_hosts, recent, saving, accepted, refused, stored>>

\* verify: the decision.  Only an accepted client becomes the manager's; an
\* unknown key's challenge goes to the user.
Verify(p) ==
    LET trusted == Lookup(connecting[p].read, NameOf[p], connecting[p].key)
    IN  /\ connecting[p].step = "read"
        /\ \/ /\ trusted = {}
              /\ connecting' = [connecting EXCEPT ![p].step = "asked", ![p].read = {}]
              /\ UNCHANGED <<accepted, refused>>
           \/ /\ trusted # {}
              /\ connecting' = [connecting EXCEPT ![p] = Resting]
              /\ IF trusted = {Presented(p)}
                 THEN accepted' = accepted \cup {Presented(p)} /\ UNCHANGED refused
                 ELSE refused' = refused \cup {Presented(p)} /\ UNCHANGED accepted
        /\ UNCHANGED <<running, known_hosts, recent, saving, stored>>

-----------------------------------------------------------------------------
(* trust, called by resolve_host_key on the Qt thread.                      *)

Saving(step, entry, keys) == [step |-> step, entry |-> entry, keys |-> keys]

\* The user's answer.  (A challenge that was built by challenge() is consistent.)
Confirm(p) ==
    /\ connecting[p].step = "asked"
    /\ saving = None
    /\ saving' = Saving("load", Presented(p), {})
    /\ connecting' = [connecting EXCEPT ![p] = Resting]
    /\ UNCHANGED <<running, known_hosts, recent, accepted, refused, stored>>

Decline(p) ==
    /\ connecting[p].step = "asked"
    /\ saving = None
    /\ connecting' = [connecting EXCEPT ![p] = Resting]
    /\ UNCHANGED <<running, known_hosts, recent, saving, accepted, refused, stored>>

\* Mutant: a name with a key of the algorithm needs no other.
KnownByName(entry, trusted) == trusted # {}

\* The confirmed key is in the file already.
Known(entry, trusted) == trusted = {entry}

\* Mutant: the file is not read again, the new key is all there is to save.
OnlyTheNew(entry, entries) == {entry}

\* paramiko's HostKeys.add
WithKey(entry, entries) == entries \cup {entry}

\* load, and the comparison with the key the file has by now: the same one
\* ends the call, a different one is refused.
LoadForTrust ==
    /\ saving # None
    /\ saving.step = "load"
    /\ LET trusted == Lookup(known_hosts, saving.entry.name, saving.entry.key)
       IN  \/ /\ Known(saving.entry, trusted)
              /\ saving' = None
              /\ stored' = stored \cup {saving.entry}
              /\ UNCHANGED refused
           \/ /\ trusted # {}
              /\ ~Known(saving.entry, trusted)
              /\ saving' = None
              /\ refused' = refused \cup {saving.entry}
              /\ UNCHANGED stored
           \/ /\ trusted = {}
              /\ saving' = Saving("make", saving.entry,
                                  WithKey(saving.entry, known_hosts))
              /\ UNCHANGED <<refused, stored>>
    /\ UNCHANGED <<running, known_hosts, recent, connecting, accepted>>

\* Mutant: the temporary file is not synchronised.
PrepareUnsynced(step) ==
    CASE step = "make" -> "write" [] step = "write" -> "replace"
      [] step = "sync" -> "replace"

\* _save_atomically: make a temporary file, write the keys, synchronise it.
Prepare(step) ==
    CASE step = "make" -> "write" [] step = "write" -> "sync"
      [] step = "sync" -> "synced"

Save ==
    /\ saving # None
    /\ saving.step \in {"make", "write", "sync"}
    /\ saving' = [saving EXCEPT !.step = Prepare(saving.step)]
    /\ UNCHANGED <<running, known_hosts, recent, connecting, accepted, refused, stored>>

\* What the disk may have of a file renamed at this step.
OnDisk(step, keys) == IF step = "synced" THEN {keys} ELSE SUBSET keys

\* os.replace
Replace ==
    /\ saving # None
    /\ saving.step \in {"replace", "synced"}
    /\ known_hosts' = saving.keys
    /\ recent' = recent \cup OnDisk(saving.step, saving.keys)
    /\ stored' = stored \cup {saving.entry}
    /\ saving' = None
    /\ UNCHANGED <<running, connecting, accepted, refused>>

\* OSError at any of these steps, or when the file is loaded: HostKeyStoreError.
SaveFails ==
    /\ saving # None
    /\ saving' = None
    /\ UNCHANGED <<running, known_hosts, recent, connecting, accepted, refused, stored>>

-----------------------------------------------------------------------------
(* The program and the machine.                                             *)

Start ==
    /\ ~running
    /\ running' = TRUE
    /\ UNCHANGED <<known_hosts, recent, connecting, saving, accepted, refused, stored>>

\* What ends with the process.
Stop ==
    /\ running' = FALSE
    /\ connecting' = [p \in Profiles |-> Resting]
    /\ saving' = None
    /\ accepted' = {} /\ refused' = {} /\ stored' = {}

\* The program is closed or killed.
Exit ==
    /\ running
    /\ Stop
    /\ UNCHANGED <<known_hosts, recent>>

PowerLoss ==
    /\ known_hosts' \in recent
    /\ recent' = {known_hosts'}
    /\ Stop

\* The operating system writes everything out.
Settle ==
    /\ recent' = {known_hosts}
    /\ UNCHANGED <<running, known_hosts, connecting, saving, accepted, refused, stored>>

\* The user removes an entry with the program closed.
Edit(e) ==
    /\ ~running
    /\ known_hosts' = known_hosts \ {e}
    /\ recent' = {known_hosts'}
    /\ UNCHANGED <<running, connecting, saving, accepted, refused, stored>>

Connections == \E p \in Profiles :
    (\E key \in Keys : Connect(p, key)) \/ Load(p) \/ Verify(p) \/ Confirm(p) \/ Decline(p)
Trusting    == LoadForTrust \/ Save \/ Replace \/ SaveFails
Environment == Start \/ Exit \/ PowerLoss \/ Settle \/ (\E e \in Entries : Edit(e))

Next == Connections \/ Trusting \/ Environment

Spec == Init /\ [][Next]_vars

-----------------------------------------------------------------------------
(* Properties.                                                              *)

\* The types of the variables; and no contents the disk may have holds a
\* decision the file lacks.
TypeOK ==
    /\ running \in BOOLEAN
    /\ known_hosts \subseteq Entries
    /\ \A contents \in recent : contents \subseteq known_hosts
    /\ connecting \in [Profiles ->
            [step : {"resting", "presented", "read", "asked"},
             key : Keys \cup {None}, read : SUBSET Entries]]
    /\ \A p \in Profiles :
        connecting[p].step # "resting" => connecting[p].key # None /\ running
    /\ saving # None =>
        /\ running
        /\ saving \in [step : {"load", "make", "write", "sync", "synced"},
                       entry : Entries, keys : SUBSET Entries]
    /\ accepted \cup refused \cup stored \subseteq Entries

\* What the user was told stands in the file: a key that trust reported as
\* stored, also when another profile's challenge for the same host was
\* confirmed first, and a key a connection was accepted with, whatever was
\* stored between its load and its decision (HostKeyStore.trust, verify).
TrustedKeysAreInFile == accepted \cup stored \subseteq known_hosts

\* A key is refused as changed only if the file has another one of that
\* algorithm for the host; a first key of another algorithm is asked for
\* (HostKeyStore._lookup_key).
RefusedKeysConflict ==
    \A e \in refused : \E f \in known_hosts : Decisions!Conflict(e, f)

\* Every decision the user was told of has its reason in the file.
FileBacksDecisions == TrustedKeysAreInFile /\ RefusedKeysConflict

\* The file keeps what TrustDecisions promises, whatever call fails, and
\* wherever the program is killed or the power fails: no decision is replaced,
\* and none lost but for the latest (HostKeyStore.trust, _save_atomically).
ImplementsTrustDecisions == Decisions!Spec

=============================================================================
