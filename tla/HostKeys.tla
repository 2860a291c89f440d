------------------------------ MODULE HostKeys ------------------------------
(***************************************************************************)
(* ensure_host_key() of processes that start together on one key file, and *)
(* start again after a crash: the first run creates the server's identity, *)
(* every other one adopts it.  An action ends at a system call on the      *)
(* file, which is where processes interleave.                              *)
(***************************************************************************)
EXTENDS Naturals, FiniteSets

CONSTANTS
    Proc,       \* the processes
    Key,        \* private keys
    NoKey,      \* no private key
    Truncated,  \* what the file holds without a whole key in it
    Absent,     \* there is no file
    Faults      \* what may go wrong: "crash", "full_disk", "short_write"

ASSUME HostKeysAssumption ==
    /\ NoKey \notin Key
    /\ Truncated \notin Key
    /\ Absent \notin Key
    /\ Truncated # Absent
    /\ Faults \subseteq {"crash", "full_disk", "short_write"}

VARIABLES
    file,   \* the key file
    pc,     \* where each process is in ensure_host_key()
    key,    \* the key each process holds
    served  \* history: the keys any process has returned as its identity

vars == << file, pc, key, served >>

Init ==
    /\ file = Absent
    /\ pc = [p \in Proc |-> "idle"]
    /\ key = [p \in Proc |-> NoKey]
    /\ served = {}

(* Nobody has this key yet: generation never repeats one.                   *)
Fresh(k) == k \in Key /\ k # file /\ k \notin served /\ \A p \in Proc : key[p] # k

-----------------------------------------------------------------------------
(* The file exists: it is the one to load.                                  *)
FindsKey(p) ==
    /\ pc[p] = "idle"
    /\ file # Absent
    /\ pc' = [pc EXCEPT ![p] = "load"]
    /\ UNCHANGED << file, key, served >>

(* It does not: generate a key, not yet anyone's.                           *)
Generates(p) ==
    /\ pc[p] = "idle"
    /\ file = Absent
    /\ \E k \in Key : Fresh(k) /\ key' = [key EXCEPT ![p] = k]
    /\ pc' = [pc EXCEPT ![p] = "create"]
    /\ UNCHANGED << file, served >>

(* Mutant: O_CREAT without O_EXCL, truncating what is there.                *)
CreatesAnyway(p) ==
    /\ pc[p] = "create"
    /\ file' = Truncated
    /\ pc' = [pc EXCEPT ![p] = "write"]
    /\ UNCHANGED << key, served >>

(* _write_private_key_secure(): the exclusive create, of an empty file.     *)
Creates(p) ==
    /\ pc[p] = "create"
    /\ file = Absent
    /\ file' = Truncated
    /\ pc' = [pc EXCEPT ![p] = "write"]
    /\ UNCHANGED << key, served >>

(* FileExistsError: somebody was faster, and it is their key that counts.   *)
Loses(p) ==
    /\ pc[p] = "create"
    /\ file # Absent
    /\ pc' = [pc EXCEPT ![p] = "load"]
    /\ key' = [key EXCEPT ![p] = NoKey]
    /\ UNCHANGED << file, served >>

(* Mutant: the key is served without having been written.                   *)
WritesNothing(p) ==
    /\ pc[p] = "write"
    /\ pc' = [pc EXCEPT ![p] = "served"]
    /\ served' = served \union {key[p]}
    /\ UNCHANGED << file, key >>

(* os.write(), and the key is the server's identity.  How much was written  *)
(* nobody looks at: after a short write the file holds part of a key.       *)
Writes(p) ==
    /\ pc[p] = "write"
    /\ file' \in {key[p]} \union {f \in {Truncated} : "short_write" \in Faults}
    /\ pc' = [pc EXCEPT ![p] = "served"]
    /\ served' = served \union {key[p]}
    /\ UNCHANGED key

(* os.write() fails, and nothing removes the file.                          *)
WriteFails(p) ==
    /\ "full_disk" \in Faults
    /\ pc[p] = "write"
    /\ pc' = [pc EXCEPT ![p] = "failed"]
    /\ key' = [key EXCEPT ![p] = NoKey]
    /\ UNCHANGED << file, served >>

(* Mutant: whatever is in the file is taken for a key.                      *)
LoadsAnything(p) ==
    /\ pc[p] = "load"
    /\ key' = [key EXCEPT ![p] = file]
    /\ pc' = [pc EXCEPT ![p] = "served"]
    /\ served' = served \union {file}
    /\ UNCHANGED file

(* load_host_keys(): the key in the file.                                   *)
Loads(p) ==
    /\ pc[p] = "load"
    /\ file \in Key
    /\ key' = [key EXCEPT ![p] = file]
    /\ pc' = [pc EXCEPT ![p] = "served"]
    /\ served' = served \union {file}
    /\ UNCHANGED file

(* load_host_keys(): ValueError, there is no key in the file.               *)
LoadFails(p) ==
    /\ pc[p] = "load"
    /\ file = Truncated
    /\ pc' = [pc EXCEPT ![p] = "failed"]
    /\ UNCHANGED << file, key, served >>

(* The process ends, by itself or by a crash anywhere in between, and may   *)
(* be started again.                                                        *)
Restarts(p) ==
    /\ \/ pc[p] \in {"served", "failed"}
       \/ "crash" \in Faults /\ pc[p] # "idle"
    /\ pc' = [pc EXCEPT ![p] = "idle"]
    /\ key' = [key EXCEPT ![p] = NoKey]
    /\ UNCHANGED << file, served >>

Next ==
    \E p \in Proc :
        \/ FindsKey(p) \/ Generates(p) \/ Creates(p) \/ Loses(p)
        \/ Writes(p) \/ WriteFails(p) \/ Loads(p) \/ LoadFails(p)
        \/ Restarts(p)

Spec == Init /\ [][Next]_vars

-----------------------------------------------------------------------------
TypeOK ==
    /\ file \in Key \union {Truncated, Absent}
    /\ pc \in [Proc -> {"idle", "load", "create", "write", "served", "failed"}]
    /\ key \in [Proc -> Key \union {NoKey}]
    /\ \A p \in Proc : pc[p] \in {"create", "write", "served"} <=> key[p] \in Key
    /\ served \subseteq Key

(* Over every process, crash and restart the server has one identity:       *)
(* clients that trusted it once never see another key.                      *)
OneIdentity == \A k, l \in served : k = l

(* An identity once served is the one on disk, for whoever starts next.     *)
(* (A short write breaks it: hostkeys_short.cfg.)                           *)
ServedIsOnDisk == served \subseteq {file}

-----------------------------------------------------------------------------
(* docs/source/guide/host_keys.rst:84, of processes starting together: "the *)
(* loser reads the winner's, and both serve the same identity"; and         *)
(* keys.py:219, of starting again: "the first run creates a key, every      *)
(* later run reuses it".                                                    *)
KeyIsEnsured == \A p \in Proc : pc[p] # "failed"
=============================================================================
