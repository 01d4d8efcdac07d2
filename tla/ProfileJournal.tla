-------------------------- MODULE ProfileJournal --------------------------
(***************************************************************************)
(* The profile directory and the journal inside it (crate marlowe-journal),*)
(* as several processes open them: Daemon::open's choice between           *)
(* Profile::init and Profile::open, every file step of both, the POSIX     *)
(* lock file with its liveness check and its reclaim, Journal::open with   *)
(* verify_chain, Journal::append, and the moment Daemon::open returns and  *)
(* its local Profile, with the lock, is dropped.  A process may die        *)
(* between any two file steps.  A row may be edited or deleted under the   *)
(* program, as the journal's tests do it.                                  *)
(*                                                                         *)
(* The HMAC is ideal: a signature is the tuple it signs.                   *)
(***************************************************************************)
EXTENDS Naturals, FiniteSets

CONSTANTS
    Procs,          \* processes; one that ended may start again
    Pids,           \* process ids the system hands out
    Events,         \* [tier: BOOLEAN, permission: BOOLEAN], with a payload
    MaxSeq,         \* bound: rows of the journal
    MaxDamage,      \* bound: rows edited or deleted under the program
    Genesis,        \* the signature of the empty chain
    Original,       \* the key of a profile made before the model starts
    NoPid           \* a lock file whose pid is not written yet

ASSUME ProcsAssumption == Procs # {} /\ Original \notin Procs
ASSUME BoundsAssumption == MaxSeq \in Nat /\ MaxDamage \in Nat
ASSUME PidsAssumption == NoPid \notin Pids

VARIABLES
    existed,        \* the profile was there at the start (never changes)
    diskKey,        \* profile.key: {} or {the key}
    manifest,       \* profile.json exists
    db,             \* journal.db: "none", "empty" (no table), "table"
    lock,           \* profile.lock: {} or {[by, pid]}
    log,            \* table journal: seq -> [event, prev, sig]
    issued,         \* history: <<seq, row>> every append committed
    damage,         \* history: rows edited or deleted so far
    pc, pid,        \* per process: the step of Daemon::open, its process id
    key,            \* Journal.key
    lastSeq, lastSig \* Journal.last_seq, Journal.last_signature

disk == <<diskKey, manifest, db>>
journal == <<log, issued, damage>>
memory == <<key, lastSeq, lastSig>>
vars == <<existed, disk, lock, journal, pc, pid, memory>>

Keys == Procs \cup {Original}
Seqs == 1..MaxSeq
Live == {q \in Procs : pc[q] # "off"}

Goto(p, step) == pc' = [pc EXCEPT ![p] = step]

-----------------------------------------------------------------------------
(* The chain *)

Sign(k, seq, event, prev) == <<k, seq, event, prev>>

Prev(seq) == IF seq = 1 THEN Genesis ELSE log[seq - 1].sig

(* mutant: the signature is not recomputed *)
RowUnsigned(k, seq) == /\ seq = 1 \/ seq - 1 \in DOMAIN log
                       /\ log[seq].prev = Prev(seq)

(* one iteration of verify_chain: no gap, the chain, the signature *)
RowVerifies(k, seq) ==
    /\ seq = 1 \/ seq - 1 \in DOMAIN log
    /\ log[seq].prev = Prev(seq)
    /\ log[seq].sig = Sign(k, seq, log[seq].event, log[seq].prev)

VerifyChain(k) == \A seq \in DOMAIN log : RowVerifies(k, seq)

(* what a chain that verifies leaves in last_seq *)
End == {n \in 0..MaxSeq : DOMAIN log = 1..n}

-----------------------------------------------------------------------------
Init ==
    /\ existed \in BOOLEAN
    /\ diskKey = IF existed THEN {Original} ELSE {}
    /\ manifest = existed
    /\ db = IF existed THEN "table" ELSE "none"
    /\ lock = {}
    /\ log = <<>> /\ issued = {} /\ damage = 0
    /\ pc = [p \in Procs |-> "off"]
    /\ pid \in [Procs -> Pids]
    /\ key = [p \in Procs |-> Original]
    /\ lastSeq = [p \in Procs |-> 0]
    /\ lastSig = [p \in Procs |-> Genesis]

(* Daemon::open asks for profile.json and takes init or open *)
Start(p) ==
    /\ pc[p] = "off"
    /\ \E i \in Pids \ {pid[q] : q \in Live} : pid' = [pid EXCEPT ![p] = i]
    /\ Goto(p, IF manifest THEN "open" ELSE "init")
    /\ UNCHANGED <<existed, disk, lock, journal, memory>>

(* Profile::init, before its first write: read_dir finds nothing *)
InitCheck(p) ==
    /\ pc[p] = "init"
    /\ Goto(p, IF diskKey = {} /\ ~manifest /\ db = "none" /\ lock = {}
               THEN "generate" ELSE "off")
    /\ UNCHANGED <<existed, disk, lock, journal, pid, memory>>

WriteKey(p) ==
    /\ pc[p] = "generate"
    /\ diskKey' = {p} /\ key' = [key EXCEPT ![p] = p]
    /\ Goto(p, "manifest")
    /\ UNCHANGED <<existed, manifest, db, lock, journal, pid, lastSeq, lastSig>>

WriteManifest(p) ==
    /\ pc[p] = "manifest"
    /\ manifest' = TRUE
    /\ Goto(p, "database")
    /\ UNCHANGED <<existed, diskKey, db, lock, journal, pid, memory>>

(* create_schema: connecting makes the file, CREATE TABLE fails on a second *)
OpenDatabase(p) ==
    /\ pc[p] = "database"
    /\ db' = IF db = "none" THEN "empty" ELSE db
    /\ Goto(p, "schema")
    /\ UNCHANGED <<existed, diskKey, manifest, lock, journal, pid, memory>>

CreateSchema(p) ==
    /\ pc[p] = "schema"
    /\ db' = "table"
    /\ Goto(p, IF db = "table" THEN "off" ELSE "acquire")
    /\ UNCHANGED <<existed, diskKey, manifest, lock, journal, pid, memory>>

(* Profile::open: every file is there *)
OpenCheck(p) ==
    /\ pc[p] = "open"
    /\ Goto(p, IF diskKey # {} /\ manifest /\ db # "none" THEN "read" ELSE "off")
    /\ UNCHANGED <<existed, disk, lock, journal, pid, memory>>

(* mutant: opening makes a key *)
ReadKeyAnew(p) ==
    /\ pc[p] = "read"
    /\ diskKey' = {p} /\ key' = [key EXCEPT ![p] = p]
    /\ Goto(p, "acquire")
    /\ UNCHANGED <<existed, manifest, db, lock, journal, pid, lastSeq, lastSig>>

ReadKey(p) ==
    /\ pc[p] = "read"
    /\ \E k \in diskKey : key' = [key EXCEPT ![p] = k]
    /\ Goto(p, "acquire")
    /\ UNCHANGED <<existed, disk, lock, journal, pid, lastSeq, lastSig>>

-----------------------------------------------------------------------------
(* ProfileLock::exclusive, not(windows) *)

(* create_new: the file is there, without its pid; else `otherwise` *)
CreateLock(p, otherwise) ==
    /\ lock' = IF lock = {} THEN {[by |-> p, pid |-> NoPid]} ELSE lock
    /\ Goto(p, IF lock = {} THEN "write" ELSE otherwise)

Acquire(p) ==
    /\ pc[p] = "acquire"
    /\ CreateLock(p, "inspect")
    /\ UNCHANGED <<existed, disk, journal, pid, memory>>

(* the write goes to the file this process created, if it is still there *)
WritePid(p) ==
    /\ pc[p] = "write"
    /\ lock' = {IF l.by = p THEN [l EXCEPT !.pid = pid[p]] ELSE l : l \in lock}
    /\ Goto(p, "verify")
    /\ UNCHANGED <<existed, disk, journal, pid, memory>>

(* a pid that parses and has a /proc entry is a holder *)
Inspect(p) ==
    /\ pc[p] = "inspect"
    /\ Goto(p, IF \E l \in lock : l.pid \in {pid[q] : q \in Live}
               THEN "off" ELSE "reclaim")
    /\ UNCHANGED <<existed, disk, lock, journal, pid, memory>>

Reclaim(p) ==
    /\ pc[p] = "reclaim"
    /\ lock' = {}
    /\ Goto(p, "recreate")
    /\ UNCHANGED <<existed, disk, journal, pid, memory>>

Recreate(p) ==
    /\ pc[p] = "recreate"
    /\ CreateLock(p, "off")
    /\ UNCHANGED <<existed, disk, journal, pid, memory>>

-----------------------------------------------------------------------------
(* Journal::open; a refusal drops the Profile and removes the lock file *)
Verify(p) ==
    /\ pc[p] = "verify"
    /\ \/ /\ db = "table" /\ VerifyChain(key[p])
          /\ \E n \in End :
                /\ lastSeq' = [lastSeq EXCEPT ![p] = n]
                /\ lastSig' = [lastSig EXCEPT ![p] = Prev(n + 1)]
          /\ Goto(p, "opened")
          /\ UNCHANGED lock
       \/ /\ db # "table" \/ ~VerifyChain(key[p])
          /\ Goto(p, "off")
          /\ lock' = {}
          /\ UNCHANGED <<lastSeq, lastSig>>
    /\ UNCHANGED <<existed, disk, journal, pid, key>>

(* Daemon::open returns: the Profile is a local of it, whether the rest of  *)
(* the opening succeeded or not                                             *)
Opened(p) ==
    /\ pc[p] = "opened"
    /\ lock' = {}
    /\ \E step \in {"serving", "off"} : Goto(p, step)
    /\ UNCHANGED <<existed, disk, journal, pid, memory>>

NextSeq(p) == lastSeq[p] + 1

(* mutant: INSERT OR REPLACE *)
InsertsAlways(seq) == TRUE

(* INTEGER PRIMARY KEY *)
Inserts(seq) == seq \notin DOMAIN log

(* Journal::append.  A refused event and a refused INSERT change nothing *)
AppendRow(p) ==
    /\ pc[p] = "serving" /\ NextSeq(p) <= MaxSeq
    /\ \E event \in Events :
        LET seq == NextSeq(p)
            sig == Sign(key[p], seq, event, lastSig[p])
            row == [event |-> event, prev |-> lastSig[p], sig |-> sig]
        IN  /\ event.tier => event.permission
            /\ Inserts(seq)
            /\ log' = [s \in DOMAIN log \cup {seq} |-> IF s = seq THEN row ELSE log[s]]
            /\ issued' = issued \cup {<<seq, row>>}
            /\ lastSeq' = [lastSeq EXCEPT ![p] = seq]
            /\ lastSig' = [lastSig EXCEPT ![p] = sig]
    /\ UNCHANGED <<existed, disk, lock, damage, pc, pid, key>>

Close(p) ==
    /\ pc[p] = "serving"
    /\ Goto(p, "off")
    /\ UNCHANGED <<existed, disk, lock, journal, pid, memory>>

(* the process dies where it stands: nothing is dropped *)
Crash(p) ==
    /\ pc[p] # "off"
    /\ Goto(p, "off")
    /\ UNCHANGED <<existed, disk, lock, journal, pid, memory>>

-----------------------------------------------------------------------------
(* UPDATE and DELETE on journal.db from outside the program *)

EditRow(seq) ==
    /\ damage < MaxDamage
    /\ \E event \in Events \ {log[seq].event} :
        log' = [log EXCEPT ![seq] = [event |-> event, prev |-> @.prev, sig |-> @.sig]]
    /\ damage' = damage + 1
    /\ UNCHANGED <<existed, disk, lock, issued, pc, pid, memory>>

DeleteRow(seq) ==
    /\ damage < MaxDamage
    /\ log' = [s \in DOMAIN log \ {seq} |-> log[s]]
    /\ damage' = damage + 1
    /\ UNCHANGED <<existed, disk, lock, issued, pc, pid, memory>>

Next ==
    \/ \E p \in Procs :
        \/ Start(p)
        \/ InitCheck(p) \/ WriteKey(p) \/ WriteManifest(p)
        \/ OpenDatabase(p) \/ CreateSchema(p)
        \/ OpenCheck(p) \/ ReadKey(p)
        \/ Acquire(p) \/ WritePid(p) \/ Inspect(p) \/ Reclaim(p) \/ Recreate(p)
        \/ Verify(p) \/ Opened(p) \/ AppendRow(p) \/ Close(p) \/ Crash(p)
    \/ \E seq \in DOMAIN log : EditRow(seq) \/ DeleteRow(seq)

Spec == Init /\ [][Next]_vars

-----------------------------------------------------------------------------
Steps == {"off", "init", "generate", "manifest", "database", "schema", "open",
          "read", "acquire", "write", "inspect", "reclaim", "recreate",
          "verify", "opened", "serving"}

(* The shape of the profile directory, the table and the processes.         *)
TypeOK ==
    /\ existed \in BOOLEAN /\ manifest \in BOOLEAN
    /\ diskKey \in SUBSET Keys /\ \A k, l \in diskKey : k = l
    /\ db \in {"none", "empty", "table"}
    /\ lock \in SUBSET [by : Procs, pid : Pids \cup {NoPid}]
    /\ \A k, l \in lock : k = l
    /\ DOMAIN log \subseteq Seqs
    /\ \A seq \in DOMAIN log : log[seq].event \in Events
    /\ damage \in 0..MaxDamage
    /\ pc \in [Procs -> Steps] /\ pid \in [Procs -> Pids]
    /\ key \in [Procs -> Keys] /\ lastSeq \in [Procs -> 0..MaxSeq]
    /\ DOMAIN lastSig = Procs

(* However many processes write, with or without the lock, the log does not *)
(* fork and loses nothing it acknowledged: unless rows were damaged, the    *)
(* table is exactly the rows append committed, one per number, without a    *)
(* gap, each chained to the one before it (journal.rs, append against the   *)
(* seq primary key of store.rs).                                            *)
LogNeverForks ==
    damage = 0 =>
        /\ issued = {<<seq, log[seq]>> : seq \in DOMAIN log}
        /\ \A seq \in DOMAIN log :
            /\ seq = 1 \/ seq - 1 \in DOMAIN log
            /\ log[seq].prev = Prev(seq)

(* A journal that opens holds only rows that append wrote, each under its   *)
(* own number and without a gap, whatever was edited or deleted before      *)
(* (verify_chain).                                                          *)
OpenedIsAuthentic ==
    [][\A p \in Procs : pc[p] = "verify" /\ pc'[p] = "opened" =>
        \A seq \in DOMAIN log :
            /\ <<seq, log[seq]>> \in issued
            /\ seq = 1 \/ seq - 1 \in DOMAIN log]_vars

(* A profile that existed never refuses its own undamaged journal: every    *)
(* row verifies under the key on disk, whoever wrote it and whatever died.  *)
JournalReopens ==
    existed /\ damage = 0 => \A k \in diskKey : VerifyChain(k)
=============================================================================
