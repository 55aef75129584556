----------------------------- MODULE StateStore -----------------------------
(***************************************************************************)
(* What the node keeps across restarts of its process, from                *)
(* subprojects/libzt-wrapper/NodeService.cpp: nodeStatePutFunction() and   *)
(* nodeStateGetFunction(), with the identity and the networks.d files of   *)
(* the home path.  A put opens the file for writing, which empties it, and *)
(* writes it afterwards; the process may be killed in between.             *)
(***************************************************************************)
EXTENDS Naturals

CONSTANTS
    Networks,       \* the networks the application joins
    Identities,     \* bound: the identities the core may generate
    Contents,       \* network configurations as they are stored
    None, Blank     \* no file; a file without (usable) content

Identity == "identity"
Objects == {Identity} \cup Networks

\* The values of the files are of different kinds.
ASSUME StoreAssumption ==
    /\ Identity \notin Networks
    /\ {None, Blank} \cap (Identities \cup Contents) = {} /\ None # Blank
    /\ None \notin [object : Objects, value : Identities \cup Contents]

VARIABLES
    disk,           \* the file of each object
    home,           \* whether _homePath is set
    memory,         \* _secretIdStr, or None
    put,            \* the put that holds _store_m between fopen and fclose
    kept            \* history: the first identity that was stored completely

storeVars == <<disk, home, memory, put, kept>>

StoreInit ==
    /\ disk = [o \in Objects |-> None]
    /\ home = TRUE
    /\ memory = None
    /\ put = None
    /\ kept = None

\* The copy in memory comes first, but only for the identity.
Get(o) ==
    IF o = Identity /\ memory # None THEN memory
    ELSE IF home THEN disk[o] ELSE None

PutAlways(o, v) ==                                                  \* mutant
    /\ put = None
    /\ memory' = IF o = Identity THEN v ELSE memory
    /\ \/ UNCHANGED <<disk, put>>
       \/ home /\ disk' = [disk EXCEPT ![o] = Blank] /\ put' = [object |-> o, value |-> v]
    /\ UNCHANGED <<home, kept>>

\* nodeStatePutFunction() up to fopen(p, "wb"): nothing happens without a home
\* path or when the file holds the value already; the file may not open.
Put(o, v) ==
    /\ put = None
    /\ memory' = IF o = Identity THEN v ELSE memory
    /\ \/ UNCHANGED <<disk, put>>
       \/ /\ home /\ disk[o] # v
          /\ disk' = [disk EXCEPT ![o] = Blank]
          /\ put' = [object |-> o, value |-> v]
    /\ UNCHANGED <<home, kept>>

\* fwrite() and fclose(); an I/O error is only reported.
WritePut ==
    /\ put # None
    /\ put' = None
    /\ \/ UNCHANGED <<disk, kept>>
       \/ /\ disk' = [disk EXCEPT ![put.object] = put.value]
          /\ kept' = IF put.object = Identity /\ kept = None THEN put.value ELSE kept
    /\ UNCHANGED <<home, memory>>

\* nodeStatePutFunction() with a negative length.
Remove(o) ==
    /\ put = None
    /\ disk' = IF home THEN [disk EXCEPT ![o] = None] ELSE disk
    /\ UNCHANGED <<home, memory, put, kept>>

\* terminate() forgets the path and the identity; the files stay.
Forget ==
    /\ home' = FALSE /\ memory' = None
    /\ UNCHANGED <<disk, put, kept>>

\* The process is killed, and started again with the same options.
Reboot ==
    /\ home' = TRUE /\ memory' = None /\ put' = None
    /\ UNCHANGED <<disk, kept>>
=============================================================================
