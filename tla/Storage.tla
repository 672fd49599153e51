------------------------------ MODULE Storage ------------------------------
(***************************************************************************)
(* What an installation keeps for good (crypto/identity.mjs): its identity, *)
(* made at the first run, and the devices it is paired with.  Any process   *)
(* of the program may be the one that makes the identity, die at any point, *)
(* and holds the pairings in memory: the control page or a command one list *)
(* since it started, a Host another since sharing started.                  *)
(*                                                                         *)
(* A process takes one step at a time in the file system, and others may    *)
(* take theirs in between.  A save is two: the temporary file is written,   *)
(* then renamed.  Labels and dates are left out.                            *)
(***************************************************************************)
EXTENDS Naturals

CONSTANTS
    Processes,  \* every process that runs here, however often
    Owners,     \* devices that may be paired
    Nothing     \* no process, no list, no file

ASSUME StorageAssumption ==
    Nothing \notin Processes /\ "empty" \notin Processes /\ Nothing # "empty"

VARIABLES
    identity,   \* identity.json: Nothing, "empty" or the process that made it
    tmp,        \* peers.json.tmp, the same name for every process
    peers,      \* peers.json: the devices, none if there is no such file
    pc,         \* where each process is: "off", "creating", "writing", "up", "saving"
    known,      \* the identity it goes by
    listed,     \* the pairings it loaded at its start
    hosting,    \* those its Host loaded, Nothing without one
    change,     \* what it is saving: a device, and whether it stays
    paired      \* devices whose pairing was confirmed, and not taken back since

files == <<identity, tmp, peers>>
memory == <<pc, known, listed, hosting, change>>
storageVars == <<files, memory, paired>>

StorageInit ==
    /\ identity = Nothing /\ tmp = Nothing /\ peers = {}
    /\ pc = [p \in Processes |-> "off"]
    /\ known = [p \in Processes |-> Nothing]
    /\ listed = [p \in Processes |-> {}]
    /\ hosting = [p \in Processes |-> Nothing]
    /\ change = [p \in Processes |-> Nothing]
    /\ paired = {}

Goes(p, where) == pc' = [pc EXCEPT ![p] = where]

-----------------------------------------------------------------------------
(* The identity. *)

\* It is there, and it was read; then the pairings are.
Loaded(p, id) ==
    /\ known' = [known EXCEPT ![p] = id]
    /\ listed' = [listed EXCEPT ![p] = peers]
    /\ Goes(p, "up")
    /\ UNCHANGED <<hosting, change, tmp, peers, paired>>

\* existsSync(); what cannot be parsed is an error.
Begin(p) ==
    /\ pc[p] = "off" /\ UNCHANGED identity
    /\ IF identity = Nothing
       THEN Goes(p, "creating") /\ UNCHANGED <<known, listed, hosting, change, tmp, peers, paired>>
       ELSE identity # "empty" /\ Loaded(p, identity)

\* Mutant: the file is opened with 'w'.
CreateAnyway(p) ==
    /\ pc[p] = "creating"
    /\ identity' = "empty" /\ Goes(p, "writing")
    /\ UNCHANGED <<tmp, peers, known, listed, hosting, change, paired>>

\* openSync(file, 'wx'): the file must not be there, or it is an error.
Create(p) ==
    /\ pc[p] = "creating"
    /\ IF identity = Nothing
       THEN identity' = "empty" /\ Goes(p, "writing")
       ELSE UNCHANGED identity /\ Goes(p, "off")
    /\ UNCHANGED <<tmp, peers, known, listed, hosting, change, paired>>

WriteIdentity(p) ==
    /\ pc[p] = "writing"
    /\ identity' = p
    /\ Loaded(p, p)

\* It exits, dies, or ends with an error; files stay as they are.
Dies(p) ==
    /\ pc[p] # "off"
    /\ Goes(p, "off")
    /\ known' = [known EXCEPT ![p] = Nothing]
    /\ listed' = [listed EXCEPT ![p] = {}]
    /\ hosting' = [hosting EXCEPT ![p] = Nothing]
    /\ change' = [change EXCEPT ![p] = Nothing]
    /\ UNCHANGED <<files, paired>>

-----------------------------------------------------------------------------
(* The pairings. *)

\* A new Host reads the file; it is gone when sharing stops.
Share(p) ==
    /\ pc[p] = "up" /\ hosting[p] = Nothing
    /\ hosting' = [hosting EXCEPT ![p] = peers]
    /\ UNCHANGED <<files, pc, known, listed, change, paired>>

StopShare(p) ==
    /\ pc[p] = "up" /\ hosting[p] # Nothing
    /\ hosting' = [hosting EXCEPT ![p] = Nothing]
    /\ UNCHANGED <<files, pc, known, listed, change, paired>>

\* save(), to the rename: the whole list, as this process has it.
Saves(p, list, d, stays) ==
    /\ tmp' = list
    /\ change' = [change EXCEPT ![p] = [device |-> d, stays |-> stays]]
    /\ Goes(p, "saving")
    /\ UNCHANGED <<identity, peers, known, paired>>

\* trust(): the owner approved a viewer.
Pair(p, d) ==
    /\ pc[p] = "up" /\ hosting[p] # Nothing
    /\ hosting' = [hosting EXCEPT ![p] = @ \cup {d}]
    /\ Saves(p, hosting'[p], d, TRUE)
    /\ UNCHANGED listed

\* revoke(): a device on the list.
Unpair(p, d) ==
    /\ pc[p] = "up" /\ d \in listed[p]
    /\ listed' = [listed EXCEPT ![p] = @ \ {d}]
    /\ Saves(p, listed'[p], d, FALSE)
    /\ UNCHANGED hosting

\* renameSync(): an error if another process has renamed the file.
Rename(p) ==
    /\ pc[p] = "saving" /\ Goes(p, "up")
    /\ change' = [change EXCEPT ![p] = Nothing]
    /\ tmp' = Nothing
    /\ IF tmp = Nothing
       THEN UNCHANGED <<peers, paired>>
       ELSE /\ peers' = tmp
            /\ paired' = IF change[p].stays THEN paired \cup {change[p].device}
                                            ELSE paired \ {change[p].device}
    /\ UNCHANGED <<identity, known, listed, hosting>>
-----------------------------------------------------------------------------

StorageNext ==
    \E p \in Processes :
        \/ Begin(p) \/ Create(p) \/ WriteIdentity(p) \/ Dies(p)
        \/ Share(p) \/ StopShare(p) \/ Rename(p)
        \/ \E d \in Owners : Pair(p, d) \/ Unpair(p, d)

StorageSpec == StorageInit /\ [][StorageNext]_storageVars

-----------------------------------------------------------------------------
(* Properties. *)

\* Processes that start together for the first time, or after one that died
\* half way, all go by one identity, and what is written once stays for good
\* (loadOrCreateIdentity: existsSync, then openSync with 'wx').
OneIdentity ==
    /\ [](\A p \in Processes : known[p] # Nothing => known[p] = identity)
    /\ [][identity # Nothing /\ identity # "empty" => UNCHANGED identity]_storageVars

\* A pairing that was confirmed is found by whoever looks next, until it is
\* taken back (TrustStore.trust, save and load).  It is not so: a list that
\* was loaded before it is saved over it (README, Findings).
PairingSurvives == paired \subseteq peers
=============================================================================
