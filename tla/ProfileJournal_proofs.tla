---------------------- MODULE ProfileJournal_proofs ----------------------
(***************************************************************************)
(* The journal's guarantees for any number of processes, rows and damaged  *)
(* rows.  None of them rests on the profile lock: what keeps the log one   *)
(* chain is the primary key, what keeps it authentic is the signature.     *)
(* Then the terminal surface's, for any number of messages, questions,     *)
(* bursts of keys and faults: which question an answer is for, and what a  *)
(* message says.                                                           *)
(***************************************************************************)
EXTENDS ProfileJournal, Surface, Composer_proofs

USE DEF disk, journal, memory

-----------------------------------------------------------------------------
(* Type correctness *)

LEMMA NextTyped == TypeOK /\ [Next]_vars => TypeOK'
<1> SUFFICES ASSUME TypeOK, [Next]_vars PROVE TypeOK'
  OBVIOUS
<1> USE ProcsAssumption, BoundsAssumption, PidsAssumption
    DEF TypeOK, Steps, Keys, Seqs, Goto
<1>1. ASSUME NEW p \in Procs, Start(p) \/ InitCheck(p) \/ OpenCheck(p) PROVE TypeOK'
  BY <1>1 DEF Start, InitCheck, OpenCheck
<1>a. ASSUME NEW p \in Procs, WriteKey(p) PROVE TypeOK'
  BY <1>a DEF WriteKey
<1>b. ASSUME NEW p \in Procs, WriteManifest(p) \/ OpenDatabase(p) \/ CreateSchema(p)
      PROVE  TypeOK'
  BY <1>b DEF WriteManifest, OpenDatabase, CreateSchema
<1>c. ASSUME NEW p \in Procs, ReadKey(p) PROVE TypeOK'
  BY <1>c DEF ReadKey
<1>2. ASSUME NEW p \in Procs, Acquire(p) \/ Recreate(p) PROVE TypeOK'
  BY <1>2 DEF Acquire, Recreate, CreateLock
<1>3. ASSUME NEW p \in Procs, WritePid(p) PROVE TypeOK'
  BY <1>3 DEF WritePid
<1>4. ASSUME NEW p \in Procs,
             Inspect(p) \/ Reclaim(p) \/ Opened(p) \/ Close(p) \/ Crash(p)
      PROVE  TypeOK'
  BY <1>4 DEF Inspect, Reclaim, Opened, Close, Crash
<1>5. ASSUME NEW p \in Procs, Verify(p) PROVE TypeOK'
  <2>1. lastSeq' \in [Procs -> 0..MaxSeq]
    BY <1>5 DEF Verify, End
  <2>2. DOMAIN lastSig' = Procs /\ pc' \in [Procs -> Steps]
    BY <1>5 DEF Verify
  <2>3. /\ lock' \in SUBSET [by : Procs, pid : Pids \cup {NoPid}]
        /\ \A k, l \in lock' : k = l
    BY <1>5 DEF Verify
  <2>4. UNCHANGED <<existed, disk, journal, pid, key>>
    BY <1>5 DEF Verify
  <2> QED BY <2>1, <2>2, <2>3, <2>4
<1>6. ASSUME NEW p \in Procs, AppendRow(p) PROVE TypeOK'
  <2>1. PICK event \in Events :
            LET row == [event |-> event, prev |-> lastSig[p],
                        sig |-> Sign(key[p], NextSeq(p), event, lastSig[p])]
            IN  /\ log' = [s \in DOMAIN log \cup {NextSeq(p)} |->
                                IF s = NextSeq(p) THEN row ELSE log[s]]
                /\ lastSeq' = [lastSeq EXCEPT ![p] = NextSeq(p)]
                /\ lastSig' = [lastSig EXCEPT ![p] = row.sig]
    BY <1>6 DEF AppendRow
  <2>2. NextSeq(p) \in Seqs
    BY <1>6 DEF AppendRow, NextSeq
  <2>3. /\ DOMAIN log' \subseteq Seqs
        /\ \A seq \in DOMAIN log' : log'[seq].event \in Events
        /\ lastSeq' \in [Procs -> 0..MaxSeq] /\ DOMAIN lastSig' = Procs
    BY <2>1, <2>2
  <2>4. UNCHANGED <<existed, disk, lock, damage, pc, pid, key>>
    BY <1>6 DEF AppendRow
  <2> QED BY <2>3, <2>4
<1>7. ASSUME NEW seq \in DOMAIN log, EditRow(seq) \/ DeleteRow(seq) PROVE TypeOK'
  BY <1>7 DEF EditRow, DeleteRow
<1>8. CASE UNCHANGED vars
  BY <1>8 DEF vars
<1> QED BY <1>1, <1>a, <1>b, <1>c, <1>2, <1>3, <1>4, <1>5, <1>6, <1>7, <1>8 DEF Next

(* Type correctness of the profile directory, the table and the processes. *)
THEOREM ProfileTyped == Spec => []TypeOK
<1>1. Init => TypeOK
  BY ProcsAssumption, BoundsAssumption, PidsAssumption
     DEF Init, TypeOK, Steps, Keys, Seqs
<1> QED BY <1>1, NextTyped, PTL DEF Spec

-----------------------------------------------------------------------------
(* One chain *)

(* What an open journal remembers is where the table ends for it: its last_signature is
   the signature of row last_seq, and that row is there. *)
Loaded ==
    damage = 0 => \A p \in Procs : pc[p] \in {"opened", "serving"} =>
        /\ lastSeq[p] = 0 \/ lastSeq[p] \in DOMAIN log
        /\ lastSig[p] = Prev(lastSeq[p] + 1)

ChainInv == TypeOK /\ LogNeverForks /\ Loaded

LEMMA NextChain == ChainInv /\ [Next]_vars => ChainInv'
<1> SUFFICES ASSUME ChainInv, [Next]_vars PROVE LogNeverForks' /\ Loaded'
  BY NextTyped DEF ChainInv
<1> USE BoundsAssumption DEF Prev, Goto
<1>0. TypeOK /\ TypeOK'
  BY NextTyped DEF ChainInv
<1>1. ASSUME UNCHANGED <<log, issued, damage, lastSeq, lastSig>>,
             \A q \in Procs : pc'[q] \in {"opened", "serving"} => pc[q] \in {"opened", "serving"}
      PROVE  LogNeverForks' /\ Loaded'
  BY <1>1 DEF ChainInv, LogNeverForks, Loaded
<1>2. ASSUME NEW p \in Procs,
             \/ Start(p) \/ InitCheck(p) \/ WriteKey(p) \/ WriteManifest(p)
             \/ OpenDatabase(p) \/ CreateSchema(p) \/ OpenCheck(p) \/ ReadKey(p)
      PROVE  LogNeverForks' /\ Loaded'
  BY <1>0, <1>1, <1>2 DEF TypeOK, Start, InitCheck, WriteKey, WriteManifest, OpenDatabase,
     CreateSchema, OpenCheck, ReadKey
<1>3. ASSUME NEW p \in Procs,
             \/ Acquire(p) \/ WritePid(p) \/ Inspect(p) \/ Reclaim(p) \/ Recreate(p)
             \/ Opened(p) \/ Close(p) \/ Crash(p)
      PROVE  LogNeverForks' /\ Loaded'
  BY <1>0, <1>1, <1>3 DEF TypeOK, Acquire, WritePid, Inspect, Reclaim, Recreate, CreateLock,
     Opened, Close, Crash
<1>4. ASSUME NEW p \in Procs, Verify(p) PROVE LogNeverForks' /\ Loaded'
  <2>1. LogNeverForks'
    BY <1>4 DEF Verify, ChainInv, LogNeverForks
  <2>2. Loaded'
    <3> SUFFICES ASSUME damage = 0, NEW q \in Procs, pc'[q] \in {"opened", "serving"}
                 PROVE  /\ lastSeq'[q] = 0 \/ lastSeq'[q] \in DOMAIN log
                        /\ lastSig'[q] = Prev(lastSeq'[q] + 1)
      BY <1>4 DEF Verify, Loaded
    <3>1. CASE q = p
      <4>1. PICK n \in 0..MaxSeq :
                /\ DOMAIN log = 1..n
                /\ lastSeq' = [lastSeq EXCEPT ![p] = n]
                /\ lastSig' = [lastSig EXCEPT ![p] = Prev(n + 1)]
        BY <1>0, <1>4, <3>1 DEF Verify, End, TypeOK
      <4>2. lastSeq'[q] = n /\ lastSig'[q] = Prev(n + 1)
        BY <1>0, <3>1, <4>1 DEF TypeOK
      <4> QED BY <4>1, <4>2
    <3>2. CASE q # p
      <4>1. pc'[q] = pc[q] /\ lastSeq'[q] = lastSeq[q] /\ lastSig'[q] = lastSig[q]
        BY <1>0, <1>4, <3>2 DEF Verify, TypeOK
      <4> QED BY <4>1 DEF ChainInv, Loaded
    <3> QED BY <3>1, <3>2
  <2> QED BY <2>1, <2>2
<1>5. ASSUME NEW p \in Procs, AppendRow(p) PROVE LogNeverForks' /\ Loaded'
  <2>0. lastSeq[p] \in Nat
    BY <1>0 DEF TypeOK
  <2>a. PICK seq \in Nat : seq = lastSeq[p] + 1
    BY <2>0
  <2>b. PICK event \in Events :
            LET row == [event |-> event, prev |-> lastSig[p],
                        sig |-> Sign(key[p], seq, event, lastSig[p])]
            IN  /\ seq \notin DOMAIN log
                /\ log' = [s \in DOMAIN log \cup {seq} |-> IF s = seq THEN row ELSE log[s]]
                /\ issued' = issued \cup {<<seq, row>>}
                /\ lastSeq' = [lastSeq EXCEPT ![p] = seq]
                /\ lastSig' = [lastSig EXCEPT ![p] = row.sig]
    BY <1>5, <2>a DEF AppendRow, NextSeq, Inserts
  <2>1. PICK row :
            /\ row.prev = lastSig[p] /\ seq \notin DOMAIN log
            /\ log' = [s \in DOMAIN log \cup {seq} |-> IF s = seq THEN row ELSE log[s]]
            /\ issued' = issued \cup {<<seq, row>>}
            /\ lastSeq' = [lastSeq EXCEPT ![p] = seq]
            /\ lastSig' = [lastSig EXCEPT ![p] = row.sig]
    BY <2>b
  <2>2. UNCHANGED <<damage, pc>> /\ pc[p] = "serving"
    BY <1>5 DEF AppendRow
  <2>3. /\ log'[seq] = row /\ DOMAIN log' = DOMAIN log \cup {seq}
        /\ \A s \in DOMAIN log : log'[s] = log[s]
    BY <2>1
  <2>4. CASE damage = 0
    <3>1. /\ lastSeq[p] = 0 \/ lastSeq[p] \in DOMAIN log
          /\ lastSig[p] = Prev(seq)
      BY <2>2, <2>4, <2>a DEF ChainInv, Loaded
    <3>2. issued' = {<<s, log'[s]>> : s \in DOMAIN log'}
      <4>1. issued = {<<s, log[s]>> : s \in DOMAIN log}
        BY <2>4 DEF ChainInv, LogNeverForks
      <4>2. {<<s, log'[s]>> : s \in DOMAIN log'}
                = {<<s, log[s]>> : s \in DOMAIN log} \cup {<<seq, row>>}
        BY <2>3
      <4> QED BY <2>1, <4>1, <4>2
    <3>3. \A s \in DOMAIN log' : /\ s = 1 \/ s - 1 \in DOMAIN log'
                                 /\ log'[s].prev = Prev(s)'
      <4>1. seq = 1 \/ seq - 1 \in DOMAIN log
        BY <2>0, <2>a, <3>1
      <4>2. log'[seq].prev = Prev(seq)'
        BY <2>1, <2>3, <2>a, <3>1, <4>1
      <4>3. \A s \in DOMAIN log : /\ s = 1 \/ s - 1 \in DOMAIN log
                                  /\ log'[s].prev = Prev(s)'
        BY <2>3, <2>4 DEF ChainInv, LogNeverForks
      <4> QED BY <2>3, <4>1, <4>2, <4>3
    <3>4. Loaded'
      <4> SUFFICES ASSUME NEW q \in Procs, pc[q] \in {"opened", "serving"}
                   PROVE  /\ lastSeq'[q] = 0 \/ lastSeq'[q] \in DOMAIN log'
                          /\ lastSig'[q] = Prev(lastSeq[q] + 1)'
        BY <2>2 DEF Loaded
      <4>1. CASE q = p
        BY <1>0, <2>0, <2>1, <2>3, <2>a, <4>1 DEF TypeOK
      <4>2. CASE q # p
        <5>1. lastSeq'[q] = lastSeq[q] /\ lastSig'[q] = lastSig[q] /\ lastSeq[q] \in Nat
          BY <1>0, <2>1, <4>2 DEF TypeOK
        <5>2. /\ lastSeq[q] = 0 \/ lastSeq[q] \in DOMAIN log
              /\ lastSig[q] = Prev(lastSeq[q] + 1)
          BY <2>4 DEF ChainInv, Loaded
        <5> QED BY <2>3, <5>1, <5>2
      <4> QED BY <4>1, <4>2
    <3> QED BY <3>2, <3>3, <3>4 DEF LogNeverForks
  <2>5. CASE damage # 0
    BY <2>2, <2>5 DEF LogNeverForks, Loaded
  <2> QED BY <2>4, <2>5
<1>6. ASSUME NEW seq \in DOMAIN log, EditRow(seq) \/ DeleteRow(seq)
      PROVE  LogNeverForks' /\ Loaded'
  BY <1>0, <1>6 DEF TypeOK, EditRow, DeleteRow, LogNeverForks, Loaded
<1>7. CASE UNCHANGED vars
  BY <1>1, <1>7 DEF vars
<1> QED BY <1>2, <1>3, <1>4, <1>5, <1>6, <1>7 DEF Next

LEMMA InitChain == Init => ChainInv
<1> SUFFICES ASSUME Init PROVE ChainInv
  OBVIOUS
<1>1. TypeOK
  BY ProcsAssumption, BoundsAssumption, PidsAssumption
     DEF Init, TypeOK, Steps, Keys, Seqs
<1>2. DOMAIN log = {}
  BY DEF Init
<1> QED BY <1>1, <1>2 DEF Init, ChainInv, LogNeverForks, Loaded

(* However many processes have the journal open, whatever they crash in, the log is one
   chain holding exactly what append committed: the guarantee ProfileLock is there for
   holds without it, by the primary key. *)
THEOREM OneChain == Spec => []LogNeverForks
<1>1. ChainInv => LogNeverForks
  BY DEF ChainInv
<1> QED BY <1>1, InitChain, NextChain, PTL DEF Spec

-----------------------------------------------------------------------------
(* Authentic rows *)

(* Damage does not sign: a row of the table carries the signature of a row append
   issued, and what append issued is signed over its own number and content. *)
Signed ==
    /\ \A i \in issued : \E k, s, e, v : i = <<s, [event |-> e, prev |-> v, sig |-> Sign(k, s, e, v)]>>
    /\ \A seq \in DOMAIN log :
        /\ log[seq] = [event |-> log[seq].event, prev |-> log[seq].prev, sig |-> log[seq].sig]
        /\ \E i \in issued : i[2].sig = log[seq].sig

LEMMA NextSigned == TypeOK /\ Signed /\ [Next]_vars => Signed'
<1> SUFFICES ASSUME TypeOK, Signed, [Next]_vars PROVE Signed'
  OBVIOUS
<1>1. ASSUME UNCHANGED <<log, issued>> PROVE Signed'
  BY <1>1 DEF Signed
<1>2. ASSUME NEW p \in Procs, AppendRow(p) PROVE Signed'
  <2>a. PICK seq : seq = NextSeq(p)
    OBVIOUS
  <2>b. PICK event \in Events :
            LET row == [event |-> event, prev |-> lastSig[p],
                        sig |-> Sign(key[p], seq, event, lastSig[p])]
            IN  /\ log' = [s \in DOMAIN log \cup {seq} |-> IF s = seq THEN row ELSE log[s]]
                /\ issued' = issued \cup {<<seq, row>>}
    BY <1>2, <2>a DEF AppendRow
  <2>c. PICK k, v : k = key[p] /\ v = lastSig[p]
    OBVIOUS
  <2> DEFINE row == [event |-> event, prev |-> v, sig |-> Sign(k, seq, event, v)]
  <2>1. /\ log' = [s \in DOMAIN log \cup {seq} |-> IF s = seq THEN row ELSE log[s]]
        /\ issued' = issued \cup {<<seq, row>>}
    BY <2>b, <2>c
  <2>2. \A i \in issued' :
            \E kk, s, e, vv : i = <<s, [event |-> e, prev |-> vv, sig |-> Sign(kk, s, e, vv)]>>
    BY <2>1 DEF Signed
  <2>3. row = [event |-> row.event, prev |-> row.prev, sig |-> row.sig]
    OBVIOUS
  <2>4. <<seq, row>>[2].sig = row.sig
    OBVIOUS
  <2> HIDE DEF row
  <2>5. \A s \in DOMAIN log' :
            /\ log'[s] = [event |-> log'[s].event, prev |-> log'[s].prev, sig |-> log'[s].sig]
            /\ \E i \in issued' : i[2].sig = log'[s].sig
    <3> SUFFICES ASSUME NEW s \in DOMAIN log'
                 PROVE  /\ log'[s] = [event |-> log'[s].event, prev |-> log'[s].prev,
                                      sig |-> log'[s].sig]
                        /\ \E i \in issued' : i[2].sig = log'[s].sig
      OBVIOUS
    <3>1. CASE s = seq
      <4>1. log'[s] = row
        BY <2>1, <3>1
      <4> QED BY <2>1, <2>3, <2>4, <4>1
    <3>2. CASE s # seq
      <4>1. s \in DOMAIN log /\ log'[s] = log[s]
        BY <2>1, <3>2
      <4> QED BY <2>1, <4>1 DEF Signed
    <3> QED BY <3>1, <3>2
  <2> QED BY <2>2, <2>5 DEF Signed
<1>3. ASSUME NEW seq \in DOMAIN log, EditRow(seq) PROVE Signed'
  <2>1. PICK event : log' = [log EXCEPT ![seq] =
                                [event |-> event, prev |-> @.prev, sig |-> @.sig]]
    BY <1>3 DEF EditRow
  <2>2. issued' = issued
    BY <1>3 DEF EditRow
  <2> SUFFICES ASSUME NEW s \in DOMAIN log'
               PROVE  /\ log'[s] = [event |-> log'[s].event, prev |-> log'[s].prev,
                                    sig |-> log'[s].sig]
                      /\ \E i \in issued : i[2].sig = log'[s].sig
    BY <2>2 DEF Signed
  <2>3. CASE s = seq
    <3>1. log'[s] = [event |-> event, prev |-> log[s].prev, sig |-> log[s].sig]
      BY <2>1, <2>3
    <3> QED BY <2>3, <3>1 DEF Signed
  <2>4. CASE s # seq
    <3>1. s \in DOMAIN log /\ log'[s] = log[s]
      BY <2>1, <2>4
    <3> QED BY <3>1 DEF Signed
  <2> QED BY <2>3, <2>4
<1>4. ASSUME NEW seq \in DOMAIN log, DeleteRow(seq) PROVE Signed'
  BY <1>4 DEF DeleteRow, Signed
<1>5. ASSUME NEW p \in Procs,
             \/ Start(p) \/ InitCheck(p) \/ WriteKey(p) \/ WriteManifest(p)
             \/ OpenDatabase(p) \/ CreateSchema(p) \/ OpenCheck(p) \/ ReadKey(p)
             \/ Acquire(p) \/ WritePid(p) \/ Inspect(p) \/ Reclaim(p) \/ Recreate(p)
             \/ Verify(p) \/ Opened(p) \/ Close(p) \/ Crash(p)
      PROVE  Signed'
  <2>1. UNCHANGED <<log, issued>>
    BY <1>5 DEF Start, InitCheck, WriteKey, WriteManifest, OpenDatabase, CreateSchema,
       OpenCheck, ReadKey, Acquire, WritePid, Inspect, Reclaim, Recreate, CreateLock,
       Verify, Opened, Close, Crash
  <2> QED BY <1>1, <2>1
<1>6. CASE UNCHANGED vars
  BY <1>1, <1>6 DEF vars
<1> QED BY <1>2, <1>3, <1>4, <1>5, <1>6 DEF Next

(* A row that verifies under some key is the issued row whose signature it carries. *)
LEMMA VerifiedIsIssued ==
    ASSUME Signed, NEW k, NEW seq \in DOMAIN log, RowVerifies(k, seq)
    PROVE  <<seq, log[seq]>> \in issued
<1>1. PICK i \in issued : i[2].sig = log[seq].sig
  BY DEF Signed
<1>2. PICK kk, s, e, v : i = <<s, [event |-> e, prev |-> v, sig |-> Sign(kk, s, e, v)]>>
  BY DEF Signed
<1>3. i[2].sig = <<kk, s, e, v>>
  BY <1>2 DEF Sign
<1>4. log[seq].sig = <<k, seq, log[seq].event, log[seq].prev>>
  BY DEF RowVerifies, Sign
<1>5. s = seq /\ e = log[seq].event /\ v = log[seq].prev
  <2>1. ASSUME NEW a1, NEW a2, NEW a3, NEW a4, NEW b1, NEW b2, NEW b3, NEW b4,
               <<a1, a2, a3, a4>> = <<b1, b2, b3, b4>>
        PROVE  a2 = b2 /\ a3 = b3 /\ a4 = b4
    BY <2>1
  <2>2. <<kk, s, e, v>> = <<k, seq, log[seq].event, log[seq].prev>>
    BY <1>1, <1>3, <1>4
  <2> QED BY ONLY <2>1, <2>2, Zenon
<1>6. log[seq] = [event |-> e, prev |-> v, sig |-> Sign(kk, s, e, v)]
  BY <1>1, <1>3, <1>5 DEF Signed, Sign
<1> QED BY <1>2, <1>5, <1>6

(* Whatever was edited or deleted, a journal that opens holds only rows append wrote,
   each at its own number, without a gap. *)
THEOREM VerifyChainIsSound == Spec => OpenedIsAuthentic
<1>1. Init => Signed
  BY DEF Init, Signed
<1>2. TypeOK /\ Signed /\ [Next]_vars =>
        [\A p \in Procs : pc[p] = "verify" /\ pc'[p] = "opened" =>
            \A seq \in DOMAIN log :
                /\ <<seq, log[seq]>> \in issued
                /\ seq = 1 \/ seq - 1 \in DOMAIN log]_vars
  <2> SUFFICES ASSUME TypeOK, Signed, Next, NEW p \in Procs,
                      pc[p] = "verify", pc'[p] = "opened", NEW seq \in DOMAIN log
               PROVE  /\ <<seq, log[seq]>> \in issued
                      /\ seq = 1 \/ seq - 1 \in DOMAIN log
    OBVIOUS
  <2>1. CASE Verify(p)
    BY <2>1, VerifiedIsIssued DEF Verify, VerifyChain, RowVerifies, Goto, TypeOK
  <2>2. ASSUME NEW q \in Procs, q # p, Verify(q) PROVE FALSE
    BY <2>2 DEF Verify, Goto, TypeOK
  <2>3. ASSUME NEW q \in Procs,
               \/ Start(q) \/ InitCheck(q) \/ WriteKey(q) \/ WriteManifest(q)
               \/ OpenDatabase(q) \/ CreateSchema(q) \/ OpenCheck(q) \/ ReadKey(q)
               \/ Acquire(q) \/ WritePid(q) \/ Inspect(q) \/ Reclaim(q) \/ Recreate(q)
        PROVE  FALSE
    BY <2>3 DEF TypeOK, Start, InitCheck, WriteKey, WriteManifest, OpenDatabase,
       CreateSchema, OpenCheck, ReadKey, Acquire, WritePid, Inspect, Reclaim, Recreate,
       CreateLock, Goto
  <2>4. ASSUME NEW q \in Procs, Opened(q) \/ AppendRow(q) \/ Close(q) \/ Crash(q) PROVE FALSE
    BY <2>4 DEF TypeOK, Opened, AppendRow, Close, Crash, Goto
  <2>5. ASSUME NEW s \in DOMAIN log, EditRow(s) \/ DeleteRow(s) PROVE FALSE
    BY <2>5 DEF EditRow, DeleteRow
  <2> QED BY <2>1, <2>2, <2>3, <2>4, <2>5 DEF Next
<1>3. Init => TypeOK
  BY InitChain DEF ChainInv
<1> QED BY <1>1, <1>2, <1>3, NextTyped, NextSigned, PTL DEF Spec, OpenedIsAuthentic

-----------------------------------------------------------------------------
(* The key *)

(* A profile that existed is only ever opened, so every process signs with its key, and
   while nothing is damaged every row is signed with it. *)
OneKey ==
    existed =>
        /\ manifest /\ diskKey = {Original}
        /\ \A p \in Procs :
            /\ pc[p] \notin {"init", "generate", "manifest", "database", "schema"}
            /\ key[p] = Original
        /\ damage = 0 => \A seq \in DOMAIN log :
               log[seq].sig = Sign(Original, seq, log[seq].event, log[seq].prev)

LEMMA NextKey == TypeOK /\ OneKey /\ [Next]_vars => OneKey'
<1> SUFFICES ASSUME TypeOK, OneKey, [Next]_vars PROVE OneKey'
  OBVIOUS
<1>0. UNCHANGED existed
  <2>1. ASSUME NEW p \in Procs,
               \/ Start(p) \/ InitCheck(p) \/ WriteKey(p) \/ WriteManifest(p)
               \/ OpenDatabase(p) \/ CreateSchema(p) \/ OpenCheck(p) \/ ReadKey(p)
               \/ Acquire(p) \/ WritePid(p) \/ Inspect(p) \/ Reclaim(p) \/ Recreate(p)
               \/ Verify(p) \/ Opened(p) \/ AppendRow(p) \/ Close(p) \/ Crash(p)
        PROVE  UNCHANGED existed
    BY <2>1 DEF Start, InitCheck, WriteKey, WriteManifest, OpenDatabase, CreateSchema,
       OpenCheck, ReadKey, Acquire, WritePid, Inspect, Reclaim, Recreate, Verify, Opened,
       AppendRow, Close, Crash
  <2>2. ASSUME NEW seq \in DOMAIN log, EditRow(seq) \/ DeleteRow(seq) PROVE UNCHANGED existed
    BY <2>2 DEF EditRow, DeleteRow
  <2>c. ASSUME UNCHANGED vars PROVE UNCHANGED existed
    BY <2>c DEF vars
  <2> QED BY <2>1, <2>2, <2>c DEF Next
<1> SUFFICES ASSUME existed PROVE OneKey'
  BY <1>0 DEF OneKey
<1> USE DEF OneKey, TypeOK, Goto
<1>1. ASSUME NEW p \in Procs,
             \/ Start(p) \/ InitCheck(p) \/ WriteKey(p) \/ WriteManifest(p)
             \/ OpenDatabase(p) \/ CreateSchema(p) \/ OpenCheck(p)
      PROVE  OneKey'
  BY <1>1 DEF Start, InitCheck, WriteKey, WriteManifest, OpenDatabase, CreateSchema,
     OpenCheck
<1>2. ASSUME NEW p \in Procs, ReadKey(p) PROVE OneKey'
  BY <1>2 DEF ReadKey
<1>3. ASSUME NEW p \in Procs,
             \/ Acquire(p) \/ WritePid(p) \/ Inspect(p) \/ Reclaim(p) \/ Recreate(p)
             \/ Opened(p) \/ Close(p) \/ Crash(p)
      PROVE  OneKey'
  BY <1>3 DEF Acquire, WritePid, Inspect, Reclaim, Recreate, CreateLock, Opened, Close, Crash
<1>4. ASSUME NEW p \in Procs, Verify(p) PROVE OneKey'
  BY <1>4 DEF Verify
<1>5. ASSUME NEW p \in Procs, AppendRow(p) PROVE OneKey'
  <2>1. PICK event \in Events :
            LET row == [event |-> event, prev |-> lastSig[p],
                        sig |-> Sign(key[p], NextSeq(p), event, lastSig[p])]
            IN  log' = [s \in DOMAIN log \cup {NextSeq(p)} |->
                            IF s = NextSeq(p) THEN row ELSE log[s]]
    BY <1>5 DEF AppendRow
  <2>2. UNCHANGED <<existed, disk, damage, pc, key>> /\ key[p] = Original
    BY <1>5 DEF AppendRow
  <2>3. damage = 0 => \A seq \in DOMAIN log' :
            log'[seq].sig = Sign(Original, seq, log'[seq].event, log'[seq].prev)
    BY <2>1, <2>2
  <2> QED BY <2>2, <2>3
<1>6. ASSUME NEW seq \in DOMAIN log, EditRow(seq) \/ DeleteRow(seq) PROVE OneKey'
  <2>1. damage' # 0
    <3>1. damage' = damage + 1
      BY <1>6 DEF EditRow, DeleteRow
    <3>2. damage \in Nat
      BY BoundsAssumption
    <3> QED BY ONLY <3>1, <3>2
  <2>2. UNCHANGED <<existed, disk, pc, key>>
    BY <1>6 DEF EditRow, DeleteRow
  <2> QED BY <2>1, <2>2
<1>7. CASE UNCHANGED vars
  BY <1>7 DEF vars
<1> QED BY <1>1, <1>2, <1>3, <1>4, <1>5, <1>6, <1>7 DEF Next

(* An existing profile never refuses its own undamaged journal: whichever processes wrote
   it and wherever they died, verify_chain accepts it under the key on disk. *)
THEOREM ProfileReopens == Spec => []JournalReopens
<1>1. Init => OneKey
  BY DEF Init, OneKey
<1>2. ChainInv /\ OneKey => JournalReopens
  <2> SUFFICES ASSUME ChainInv, OneKey, existed, damage = 0, NEW k \in diskKey,
                      NEW seq \in DOMAIN log
               PROVE  RowVerifies(k, seq)
    BY DEF JournalReopens, VerifyChain
  <2>1. k = Original
    BY DEF OneKey
  <2>2. log[seq].sig = Sign(Original, seq, log[seq].event, log[seq].prev)
    BY DEF OneKey
  <2>3. (seq = 1 \/ seq - 1 \in DOMAIN log) /\ log[seq].prev = Prev(seq)
    BY DEF ChainInv, LogNeverForks
  <2> QED BY <2>1, <2>2, <2>3 DEF RowVerifies
<1>3. ChainInv => TypeOK
  BY DEF ChainInv
<1> QED BY <1>1, <1>2, <1>3, InitChain, NextChain, NextKey, PTL DEF Spec

-----------------------------------------------------------------------------
(* The surface: what its variables hold *)

Windows == Nat \X Nat
Approvals == [k : {"approve"}, granted : BOOLEAN, window : Windows]
Requests == Approvals \cup [k : {"runs"}] \cup [k : {"select"}, model : Models]
            \cup [k : {"send"}, whole : BOOLEAN]
Messages == [k : {"approval", "done", "error"}, w : Nat, d : Nat]
Threads == [at : {"none", "new", "read", "ask", "ended"}, whole : BOOLEAN, chan : Seq(Messages),
            down : Seq(Messages), up : Seq([d : Nat, a : Approvals]), shut : BOOLEAN, q : Nat,
            end : {"none", "done", "error"}]
Connections == [who : Nat, want : {"ask", "stop", "runs"} \cup Models, id : Nat]

UiTyped(u, n) ==
    /\ DOMAIN u = {"at", "keys", "todo", "inbox", "answer", "gave", "reason", "armed"}
    /\ u.at \in {"top", "keys", "draw", "give", "wait", "gone"}
    /\ u.todo \in Seq(Requests) /\ u.gave \in Seq(Approvals)
    /\ u.at = "give" => u.gave # <<>>
    /\ u.answer \in 0..n /\ u.inbox \in {0, u.answer}
ViewTyped(v) ==
    /\ DOMAIN v = {"band", "window", "model"}
    /\ v.window \in Windows
DrawingTyped == UiTyped(ui, sends) /\ ViewTyped(view) /\ sends \in 0..MaxSends

CallTyped == DOMAIN call = {"at", "id", "down"} /\ call.id \in Nat

(* What waits in the line and what the daemon serves was sent *)
LineTyped ==
    /\ line \in Seq(Connections)
    /\ \A i \in DOMAIN line : line[i].who \in Turns => line[i].who <= sends
DaemonTyped ==
    /\ DOMAIN daemon = {"up", "at", "turn", "asked", "model"}
    /\ daemon.asked \in Nat
    /\ daemon.at # "idle" => daemon.turn \in 1..sends

(* A question travels on its own message's connection and channel *)
Carries(t, w) ==
    /\ \A i \in DOMAIN t.down : t.down[i].k = "approval" => t.down[i].w = w
    /\ \A i \in DOMAIN t.chan : t.chan[i].k = "approval" => t.chan[i].w = w

(* A thread that was not started is blank *)
TurnsTyped ==
    /\ turn \in [Turns -> Threads]
    /\ \A w \in Turns : Carries(turn[w], w) /\ (w > sends => turn[w] = NewTurn)

SurfaceTyped == DrawingTyped /\ CallTyped /\ LineTyped /\ DaemonTyped /\ TurnsTyped

(* A number, the empty window and the numbers of messages. *)
LEMMA Numbered == None \in Windows /\ Turns = 1..MaxSends /\ 0 \notin Turns /\ Stop \in Nat /\ Call \in Nat
BY SurfaceAssumption DEF None, Windows, Turns, Stop, Call

-----------------------------------------------------------------------------
(* One tick *)

QuestionsIn(chan) == {i \in DOMAIN chan : Raises(chan[i])}

(* The window after a tick is one that was up, or a question's on the channel. *)
LEMMA RaisedTyped ==
    ASSUME NEW window \in Windows, NEW chan \in Seq(Messages)
    PROVE  Raised(window, chan) \in Windows
<1>1. CASE QuestionsIn(chan) = {}
  BY <1>1 DEF Raised, QuestionsIn
<1>2. CASE QuestionsIn(chan) # {}
  <2>1. Raised(window, chan) = <<chan[Max(QuestionsIn(chan))].w, chan[Max(QuestionsIn(chan))].d>>
    BY <1>2 DEF Raised, QuestionsIn
  <2>2. Len(chan) \in Nat /\ QuestionsIn(chan) \in SUBSET (0..Len(chan))
    BY DEF QuestionsIn
  <2>3. \E m \in QuestionsIn(chan) : \A k \in QuestionsIn(chan) : m >= k
    BY <1>2, <2>2, GreatestNatural
  <2>4. Max(QuestionsIn(chan)) \in QuestionsIn(chan)
    BY <2>3 DEF Max
  <2>5. chan[Max(QuestionsIn(chan))] \in Messages
    BY <2>4 DEF QuestionsIn
  <2> QED BY <2>1, <2>5 DEF Messages, Windows
<1> QED BY <1>1, <1>2

(* The only question on the channel is the one that raises the window. *)
LEMMA RaisedByOne ==
    ASSUME NEW window, NEW chan, NEW i \in Nat, QuestionsIn(chan) = {i}
    PROVE  Raised(window, chan) = <<chan[i].w, chan[i].d>>
<1>1. Max({i}) = i
  BY DEF Max
<1> QED BY <1>1 DEF Raised, QuestionsIn

-----------------------------------------------------------------------------
(* One key *)

(* An answer is for the window that is up, and a message is sent with none up *)
Fits(r, window) ==
    /\ r.k = "approve" => window # None /\ r.window = window
    /\ r.k = "send" => window = None

(* A hand's parts, and what a key may do to them *)
HandParts == {"v", "f", "m", "reason", "armed", "out", "quit"}
Same(h, g) == DOMAIN g = DOMAIN h /\ g.v = h.v /\ g.out = h.out
Adds(h, g) ==
    /\ DOMAIN g = DOMAIN h /\ g.v = h.v
    /\ \/ g.out = h.out
       \/ \E r \in Requests : Fits(r, h.v.window) /\ g.out = Append(h.out, r)

(* A request is put behind the ones the burst has made. *)
LEMMA AsksAdds ==
    ASSUME NEW h, NEW g, HandParts \subseteq DOMAIN h, Same(h, g),
           NEW r \in Requests, Fits(r, h.v.window)
    PROVE  Adds(h, Asks(g, r))
BY DEF Asks, Adds, Same, HandParts

LEMMA SameAdds == \A h, g : Same(h, g) => Adds(h, g)
BY DEF Same, Adds

(* A key that edits asks for nothing. *)
LEMMA EditSame ==
    ASSUME NEW h, NEW g, HandParts \subseteq DOMAIN h, Same(h, g), NEW f, NEW k, NEW b
    PROVE  Same(h, Edit(g, f, k, b))
BY DEF Edit, Same, HandParts

(* With the window up a key answers its question or asks for nothing. *)
LEMMA ApprovalKeyAdds ==
    ASSUME NEW h, NEW press, HandParts \subseteq DOMAIN h,
           h.v.window \in Windows, h.v.window # None
    PROVE  Adds(h, OnPendingApprovalKey(h, press))
<1>1. ASSUME NEW g, Same(h, g), NEW granted \in BOOLEAN PROVE Adds(h, Answers(g, granted))
  <2> DEFINE r == [k |-> "approve", granted |-> granted, window |-> g.v.window]
  <2>1. r \in Requests /\ Fits(r, h.v.window)
    BY <1>1 DEF Requests, Approvals, Fits, Same
  <2> QED BY <1>1, <2>1, AsksAdds DEF Answers
<1>2. Same(h, h) /\ Same(h, [h EXCEPT !.reason = FALSE]) /\ Same(h, [h EXCEPT !.reason = TRUE])
  BY DEF Same, HandParts
<1>3. TRUE \in BOOLEAN /\ FALSE \in BOOLEAN
  OBVIOUS
<1> HIDE DEF Same, Adds, Answers
<1> QED BY <1>1, <1>2, <1>3, SameAdds DEF OnPendingApprovalKey

(* With no window up a submitted field is a command or a message. *)
LEMMA SubmitAdds ==
    ASSUME NEW h, HandParts \subseteq DOMAIN h, h.v.window = None
    PROVE  Adds(h, Submit(h))
<1> DEFINE clean == [h EXCEPT !.f.input = <<>>, !.f.pastes = <<>>, !.m.text = <<>>, !.m.broken = FALSE]
           text == Submitted(h.f)
           send == [k |-> "send", whole |-> h.m.broken \/ text = Trim(h.m.text)]
<1>1. Same(h, clean)
  BY DEF Same, HandParts
<1>2. send \in Requests /\ Fits(send, h.v.window)
  BY DEF Requests, Fits
<1>3. [k |-> "runs"] \in Requests /\ Fits([k |-> "runs"], h.v.window)
  BY DEF Requests, Fits
<1>4. \A c \in Models : LET r == [k |-> "select", model |-> c] IN r \in Requests /\ Fits(r, h.v.window)
  BY DEF Requests, Fits
<1>5. Same(h, [clean EXCEPT !.quit = TRUE])
  BY DEF Same, HandParts
<1>6. \A c : Adds(h, RunCommand(clean, c))
  <2> HIDE DEF clean
  <2> QED BY <1>1, <1>3, <1>4, <1>5, AsksAdds, SameAdds DEF RunCommand
<1>7. Submit(h) \in {clean, RunCommand(clean, Head(text).b), Asks(clean, send)}
  BY DEF Submit
<1> HIDE DEF clean, text, send
<1> QED BY <1>1, <1>2, <1>6, <1>7, AsksAdds, SameAdds

(* Each key asks for at most one thing, and for one that fits the window. *)
LEMMA KeyAdds ==
    ASSUME NEW h, NEW press, HandParts \subseteq DOMAIN h, h.v.window \in Windows
    PROVE  Adds(h, HandleKey(h, press))
<1>1. Same(h, h)
  BY DEF Same
<1>2. \A f, k, b : Same(h, Edit(h, f, k, b))
  BY <1>1, EditSame
<1>3. ASSUME NEW g, Same(h, g), h.v.window = None PROVE Adds(h, OnTextKey(g, press)) /\ Adds(h, OnGlobalCtrl(g, press))
  <2>1. HandParts \subseteq DOMAIN g /\ g.v.window = None
    BY <1>3 DEF Same
  <2>2. \A f, k, b : Same(h, Edit(g, f, k, b))
    BY <1>3, EditSame
  <2>3. Adds(h, Submit(g))
    <3>1. Adds(g, Submit(g))
      BY <2>1, SubmitAdds
    <3> QED BY <1>3, <3>1 DEF Same, Adds
  <2>4. Adds(h, OnTextKey(g, press))
    BY <1>3, <2>2, <2>3, SameAdds DEF OnTextKey
  <2>5. \A f : /\ Same(h, [g EXCEPT !.f = f]) /\ Same(h, [g EXCEPT !.quit = TRUE])
               /\ Same(h, [g EXCEPT !.armed = TRUE])
    BY <1>3 DEF Same, HandParts
  <2>6. Adds(h, OnGlobalCtrl(g, press))
    BY <1>3, <2>2, <2>5, SameAdds DEF OnGlobalCtrl
  <2> QED BY <2>4, <2>6
<1>4. Same(h, [h EXCEPT !.armed = FALSE])
  BY DEF Same, HandParts
<1>5. Adds(h, OnKey(h, press))
  BY <1>1, <1>3, <1>4, ApprovalKeyAdds DEF OnKey
<1>6. Adds(h, OnClick(h))
  <2> DEFINE others == Models \ {h.v.model}
             r == [k |-> "select", model |-> CHOOSE m \in others : TRUE]
  <2>1. CASE others = {}
    BY <1>1, <2>1, SameAdds DEF OnClick
  <2>2. CASE others # {}
    <3>1. r \in Requests /\ Fits(r, h.v.window)
      BY <2>2 DEF Requests, Fits
    <3> QED BY <1>1, <2>2, <3>1, AsksAdds DEF OnClick
  <2> QED BY <2>1, <2>2
<1> QED BY <1>2, <1>5, <1>6, SameAdds DEF HandleKey

(* ... and a paste for nothing. *)
LEMMA BurstAdds ==
    ASSUME NEW h, NEW keys, HandParts \subseteq DOMAIN h, h.v.window \in Windows
    PROVE  Adds(h, ReadBurst(h, keys))
<1>1. Same(h, PasteBurst(h, keys))
  BY DEF PasteBurst, Same, HandParts
<1>2. Adds(h, HandleKey(h, Head(keys)))
  BY KeyAdds
<1> QED BY <1>1, <1>2, SameAdds DEF ReadBurst

-----------------------------------------------------------------------------
(* What one tick leaves *)

(* A thread with one part changed. *)
LEMMA ThreadWith ==
    ASSUME NEW t \in Threads
    PROVE  /\ [t EXCEPT !.chan = <<>>] \in Threads
           /\ [t EXCEPT !.shut = TRUE] \in Threads
           /\ \A e \in Messages : [t EXCEPT !.chan = Append(@, e)] \in Threads
           /\ \A e \in Messages : [t EXCEPT !.down = Append(@, e)] \in Threads
           /\ \A r \in [d : Nat, a : Approvals] : [t EXCEPT !.up = Append(@, r)] \in Threads
           /\ t.down # <<>> => [t EXCEPT !.down = Tail(@)] \in Threads
           /\ t.up # <<>> => [t EXCEPT !.up = Tail(@)] \in Threads
           /\ \A at \in {"none", "new", "read", "ask", "ended"} : [t EXCEPT !.at = at] \in Threads
           /\ \A q \in Nat : [t EXCEPT !.q = q] \in Threads
           /\ \A whole \in BOOLEAN : [t EXCEPT !.whole = whole] \in Threads
           /\ \A end \in {"none", "done", "error"} : [t EXCEPT !.end = end] \in Threads
<1>1. \A c \in Seq(Messages) : [t EXCEPT !.chan = c] \in Threads /\ [t EXCEPT !.down = c] \in Threads
  BY DEF Threads
<1>2. \A c \in Seq([d : Nat, a : Approvals]) : [t EXCEPT !.up = c] \in Threads
  BY DEF Threads
<1>3. /\ [t EXCEPT !.shut = TRUE] \in Threads
      /\ \A at \in {"none", "new", "read", "ask", "ended"} : [t EXCEPT !.at = at] \in Threads
      /\ \A q \in Nat : [t EXCEPT !.q = q] \in Threads
      /\ \A end \in {"none", "done", "error"} : [t EXCEPT !.end = end] \in Threads
  BY DEF Threads
<1>4. \A whole \in BOOLEAN : [t EXCEPT !.whole = whole] \in Threads
  BY DEF Threads
<1>5. t.chan \in Seq(Messages) /\ t.down \in Seq(Messages) /\ t.up \in Seq([d : Nat, a : Approvals])
  BY DEF Threads
<1>6. /\ <<>> \in Seq(Messages)
      /\ \A e \in Messages : Append(t.chan, e) \in Seq(Messages) /\ Append(t.down, e) \in Seq(Messages)
      /\ \A r \in [d : Nat, a : Approvals] : Append(t.up, r) \in Seq([d : Nat, a : Approvals])
      /\ t.down # <<>> => Tail(t.down) \in Seq(Messages)
      /\ t.up # <<>> => Tail(t.up) \in Seq([d : Nat, a : Approvals])
  BY <1>5
<1> HIDE DEF Threads, Messages
<1> QED BY <1>1, <1>2, <1>3, <1>4, <1>6

(* A tick touches the window, the band, the inbox and one channel. *)
LEMMA TickTyped ==
    ASSUME SurfaceTyped
    PROVE  /\ LET u == Tick(ui, view).u
              IN  u.at = ui.at /\ u.todo = ui.todo /\ u.answer = ui.answer /\ u.gave = ui.gave
           /\ UiTyped(Tick(ui, view).u, sends)
           /\ ViewTyped(Tick(ui, view).v)
           /\ Drained \in [Turns -> Threads]
           /\ \A w \in Turns : Drained[w] = IF ui.inbox = w THEN [turn[w] EXCEPT !.chan = <<>>] ELSE turn[w]
<1> USE DEF SurfaceTyped, DrawingTyped, TurnsTyped
<1>1. ui.inbox \in {0} \cup Turns
  BY SurfaceAssumption, Numbered DEF UiTyped
<1>2. /\ Drained \in [Turns -> Threads]
      /\ \A w \in Turns : Drained[w] = IF ui.inbox = w THEN [turn[w] EXCEPT !.chan = <<>>] ELSE turn[w]
  <2>1. \A t \in Threads : [t EXCEPT !.chan = <<>>] \in Threads
    BY ThreadWith
  <2>2. CASE ui.inbox = 0
    BY <2>2, Numbered DEF Drained
  <2>3. CASE ui.inbox \in Turns
    <3> HIDE DEF SurfaceTyped, DrawingTyped
    <3>1. Drained = [turn EXCEPT ![ui.inbox] = [turn[ui.inbox] EXCEPT !.chan = <<>>]]
      BY <2>3, Numbered DEF Drained
    <3>2. turn \in [Turns -> Threads]
      BY DEF SurfaceTyped
    <3> QED BY <2>1, <2>3, <3>1, <3>2
  <2> QED BY <1>1, <2>2, <2>3
<1>3. CASE ui.inbox = 0
  <2>1. Tick(ui, view) = [u |-> ui, v |-> view]
    BY <1>3 DEF Tick
  <2> QED BY <1>2, <1>3, <2>1 DEF UiTyped
<1>4. CASE ui.inbox # 0
  <2> DEFINE u == Tick(ui, view).u
             v == Tick(ui, view).v
             chan == turn[ui.inbox].chan
  <2>1. /\ u = IF turn[ui.inbox].at = "ended" THEN [ui EXCEPT !.inbox = 0] ELSE ui
        /\ v = [view EXCEPT !.band = FoldLeft(ApplyEvent, view.band, chan),
                            !.window = Raised(view.window, chan)]
    BY <1>4 DEF Tick
  <2>2. chan \in Seq(Messages)
    BY <1>1, <1>4 DEF Threads
  <2>3. Raised(view.window, chan) \in Windows
    BY <2>2, RaisedTyped DEF ViewTyped
  <2>4. ViewTyped(v)
    <3> DEFINE b == FoldLeft(ApplyEvent, view.band, chan)
               x == Raised(view.window, chan)
    <3>1. v = [view EXCEPT !.band = b, !.window = x] /\ x \in Windows
      BY <2>1, <2>3
    <3> HIDE DEF b, x, v
    <3> QED BY <3>1 DEF ViewTyped
  <2>5. /\ UiTyped(u, sends)
        /\ u.at = ui.at /\ u.todo = ui.todo /\ u.answer = ui.answer /\ u.gave = ui.gave
    <3>1. u \in {ui, [ui EXCEPT !.inbox = 0]} /\ UiTyped(ui, sends)
      BY <2>1
    <3> HIDE DEF u, SurfaceTyped, DrawingTyped, TurnsTyped
    <3> QED BY <3>1 DEF UiTyped
  <2> QED BY <1>2, <2>4, <2>5
<1> QED BY <1>3, <1>4

(* The requests of a hand that has read a key. *)
LEMMA AddsTyped ==
    ASSUME NEW h, NEW g, Adds(h, g), h.out \in Seq(Requests)
    PROVE  g.out \in Seq(Requests)
BY DEF Adds

LEMMA HandFits == \A v : HandParts = DOMAIN Hand(v) /\ Hand(v).v = v /\ Hand(v).out = ui.todo
BY DEF Hand, HandParts

(* What a handled key leaves. *)
LEMMA HandledTyped ==
    ASSUME NEW u, NEW h, NEW unread, UiTyped(u, sends), h.out \in Seq(Requests),
           Handled(u, h, unread), UNCHANGED sends
    PROVE  /\ UiTyped(ui', sends')
           /\ ui'.at \in {"keys", "draw", "gone"}
           /\ ui'.todo = IF ui'.at = "gone" THEN <<>> ELSE h.out
           /\ ui'.inbox = u.inbox /\ ui'.answer = u.answer /\ ui'.gave = u.gave
           /\ line' \in {line, Append(line, Entry(Stop, "stop"))}
           /\ doubled' = (doubled \/ Twice(h.out))
<1>1. CASE h.quit
  <2>1. /\ ui' = [u EXCEPT !.at = "gone", !.keys = <<>>, !.todo = <<>>, !.reason = FALSE]
        /\ line' \in {line, Append(line, Entry(Stop, "stop"))} /\ doubled' = (doubled \/ Twice(h.out))
    BY <1>1 DEF Handled
  <2> QED BY <2>1 DEF UiTyped
<1>2. CASE ~h.quit
  <2>1. /\ ui' = [u EXCEPT !.at = IF unread = <<>> THEN "draw" ELSE "keys", !.keys = unread,
                           !.todo = h.out, !.reason = h.reason, !.armed = h.armed]
        /\ line' = line /\ doubled' = (doubled \/ Twice(h.out))
    BY <1>2 DEF Handled
  <2> QED BY <2>1 DEF UiTyped
<1> QED BY <1>1, <1>2

(* A connection that was opened is in the line. *)
LEMMA EntryTyped ==
    ASSUME SurfaceTyped, NEW who \in Nat, NEW want \in {"ask", "stop", "runs"} \cup Models,
           who \in Turns => who <= sends
    PROVE  /\ Append(line, Entry(who, want)) \in Seq(Connections)
           /\ \A i \in DOMAIN Append(line, Entry(who, want)) :
                Append(line, Entry(who, want))[i].who \in Turns =>
                    Append(line, Entry(who, want))[i].who <= sends
<1>1. Entry(who, want) \in Connections /\ Entry(who, want).who = who
  BY DEF Entry, Connections, SurfaceTyped, CallTyped
<1>2. line \in Seq(Connections)
  BY DEF SurfaceTyped, LineTyped
<1> HIDE DEF Entry
<1> QED BY <1>1, <1>2 DEF SurfaceTyped, LineTyped

-----------------------------------------------------------------------------
(* Type correctness of a step *)

(* One thread moves. *)
LEMMA ThreadMoves ==
    ASSUME TurnsTyped, NEW w \in Turns, NEW t \in Threads, Carries(t, w),
           turn' = [turn EXCEPT ![w] = t],
           sends \in Nat, sends' \in Nat, sends <= sends', w <= sends'
    PROVE  TurnsTyped' /\ \A x \in Turns : turn'[x] = IF x = w THEN t ELSE turn[x]
<1>1. turn' \in [Turns -> Threads] /\ \A x \in Turns : turn'[x] = IF x = w THEN t ELSE turn[x]
  BY DEF TurnsTyped
<1>2. ASSUME NEW x \in Turns PROVE Carries(turn'[x], x) /\ (x > sends' => turn'[x] = NewTurn)
  <2>1. x \in Int /\ w \in Int
    BY SurfaceAssumption, Numbered
  <2>2. CASE x = w
    BY <1>1, <2>1, <2>2
  <2>3. CASE x # w
    <3>1. turn'[x] = turn[x] /\ (x > sends' => x > sends)
      BY <1>1, <2>1, <2>3
    <3> QED BY <3>1 DEF TurnsTyped
  <2> QED BY <2>2, <2>3
<1> QED BY <1>1, <1>2 DEF TurnsTyped

(* The numbers of the bound, for the arithmetic of a step. *)
LEMMA Counted ==
    ASSUME SurfaceTyped
    PROVE  /\ sends \in Nat /\ sends <= MaxSends /\ MaxSends \in Nat
           /\ \A w \in Turns : w \in Nat /\ turn[w] \in Threads /\ Carries(turn[w], w)
           /\ \A w \in Turns : turn[w].at # "none" => w <= sends
           /\ \A w \in 1..sends : w \in Turns
<1>1. sends \in Nat /\ sends <= MaxSends /\ MaxSends \in Nat
  BY SurfaceAssumption DEF SurfaceTyped, DrawingTyped
<1>2. \A w \in Turns : w \in Nat /\ turn[w] \in Threads /\ Carries(turn[w], w)
  BY SurfaceAssumption, Numbered DEF SurfaceTyped, TurnsTyped
<1>3. ASSUME NEW w \in Turns, turn[w].at # "none" PROVE w <= sends
  <2>1. ~ (w > sends)
    BY <1>3 DEF SurfaceTyped, TurnsTyped, NewTurn
  <2> QED BY <1>1, <1>2, <2>1
<1>4. \A w \in 1..sends : w \in Turns
  BY <1>1, Numbered
<1> QED BY <1>1, <1>2, <1>3, <1>4

(* What is left alone keeps its type. *)
LEMMA PartsKept ==
    ASSUME SurfaceTyped
    PROVE  /\ UNCHANGED <<ui, view, sends>> => DrawingTyped'
           /\ UNCHANGED call => CallTyped'
           /\ UNCHANGED <<line, sends>> => LineTyped'
           /\ UNCHANGED <<daemon, sends>> => DaemonTyped'
           /\ UNCHANGED <<turn, sends>> => TurnsTyped'
<1> USE DEF SurfaceTyped
<1>1. UNCHANGED <<ui, view, sends>> => DrawingTyped'
  BY DEF DrawingTyped
<1>2. UNCHANGED call => CallTyped'
  BY DEF CallTyped
<1>3. UNCHANGED <<line, sends>> => LineTyped'
  BY DEF LineTyped
<1>4. UNCHANGED <<daemon, sends>> => DaemonTyped'
  BY DEF DaemonTyped
<1>5. UNCHANGED <<turn, sends>> => TurnsTyped'
  BY DEF TurnsTyped
<1> QED BY <1>1, <1>2, <1>3, <1>4, <1>5

(* A tick leaves the threads typed, and a key the line. *)
LEMMA DrainedTyped ==
    ASSUME SurfaceTyped, turn' = Drained, UNCHANGED sends
    PROVE  TurnsTyped'
<1>1. /\ Drained \in [Turns -> Threads]
      /\ \A w \in Turns : Drained[w] = IF ui.inbox = w THEN [turn[w] EXCEPT !.chan = <<>>] ELSE turn[w]
  BY TickTyped
<1>2. ASSUME NEW w \in Turns PROVE Carries(turn'[w], w) /\ (w > sends' => turn'[w] = NewTurn)
  <2>1. CASE ui.inbox # w
    BY <1>1, <2>1 DEF SurfaceTyped, TurnsTyped
  <2>2. CASE ui.inbox = w
    <3>1. turn'[w] = [turn[w] EXCEPT !.chan = <<>>] /\ turn[w] \in Threads /\ Carries(turn[w], w)
      BY <1>1, <2>2, Counted
    <3>2. turn'[w].down = turn[w].down /\ turn'[w].chan = <<>>
      BY <3>1 DEF Threads
    <3>3. Carries(turn'[w], w)
      BY <3>1, <3>2 DEF Carries
    <3>4. ~ (w > sends)
      <4>1. w <= sends /\ w \in Nat /\ sends \in Nat
        BY <2>2, Counted, Numbered DEF SurfaceTyped, DrawingTyped, UiTyped
      <4> QED BY <4>1
    <3> QED BY <3>3, <3>4
  <2> QED BY <2>1, <2>2
<1> QED BY <1>1, <1>2 DEF TurnsTyped

LEMMA StopTyped ==
    ASSUME SurfaceTyped, line' \in {line, Append(line, Entry(Stop, "stop"))}, UNCHANGED sends
    PROVE  LineTyped'
<1>1. Stop \in Nat /\ Stop \notin Turns
  BY SurfaceAssumption, Numbered DEF Stop
<1>2. Append(line, Entry(Stop, "stop")) \in Seq(Connections) /\
      \A i \in DOMAIN Append(line, Entry(Stop, "stop")) :
                Append(line, Entry(Stop, "stop"))[i].who \in Turns =>
                    Append(line, Entry(Stop, "stop"))[i].who <= sends
  BY <1>1, EntryTyped
<1> HIDE DEF Entry
<1> QED BY <1>2 DEF SurfaceTyped, LineTyped

(* A request is done with, whatever it was. *)
LEMMA DoneTyped ==
    ASSUME SurfaceTyped, ui.todo # <<>>
    PROVE  /\ UiTyped(Done(ui), sends) /\ Done(ui).todo = Tail(ui.todo) /\ Done(ui).at = ui.at
           /\ Done(ui).inbox = ui.inbox /\ Done(ui).answer = ui.answer /\ Done(ui).gave = ui.gave
           /\ Head(ui.todo) \in Requests
<1>1. UiTyped(ui, sends)
  BY DEF SurfaceTyped, DrawingTyped
<1>2. ui.todo \in Seq(Requests) /\ Tail(ui.todo) \in Seq(Requests) /\ Head(ui.todo) \in Requests
  BY <1>1 DEF UiTyped
<1> DEFINE t == Tail(ui.todo)
<1>3. Done(ui) = [ui EXCEPT !.todo = t] /\ t \in Seq(Requests)
  BY <1>2 DEF Done
<1> HIDE DEF Requests, t
<1>4. /\ UiTyped(Done(ui), sends) /\ Done(ui).todo = t /\ Done(ui).at = ui.at
      /\ Done(ui).inbox = ui.inbox /\ Done(ui).answer = ui.answer /\ Done(ui).gave = ui.gave
  BY <1>1, <1>3 DEF UiTyped
<1> QED BY <1>2, <1>4 DEF t

(* The drawing thread's steps that take a key, or none. *)
LEMMA IdleTyped ==
    ASSUME SurfaceTyped, Idle \/ TickAndDraw
    PROVE  SurfaceTyped'
<1>1. UNCHANGED <<call, line, daemon, sends>> /\ turn' = Drained /\ view' = Tick(ui, view).v
  BY DEF Idle, TickAndDraw, daemonVars
<1>2. UiTyped(Tick(ui, view).u, sends) /\ ViewTyped(Tick(ui, view).v)
  BY TickTyped
<1>3. UiTyped(ui', sends')
  <2>1. CASE Idle
    BY <1>1, <1>2, <2>1 DEF Idle
  <2>2. CASE TickAndDraw
    <3> DEFINE u == Tick(ui, view).u
    <3>1. ui' = [u EXCEPT !.at = "top"] /\ UiTyped(u, sends)
      BY <1>2, <2>2 DEF TickAndDraw
    <3> HIDE DEF u
    <3> QED BY <1>1, <3>1 DEF UiTyped
  <2> QED BY <2>1, <2>2
<1>4. DrawingTyped'
  BY <1>1, <1>2, <1>3 DEF DrawingTyped, SurfaceTyped
<1> QED BY <1>1, <1>4, PartsKept, DrainedTyped DEF SurfaceTyped

LEMMA PressTyped ==
    ASSUME SurfaceTyped, PressKeys
    PROVE  /\ SurfaceTyped'
           /\ \E h : /\ Adds(Hand(view'), h) /\ ui'.todo = IF ui'.at = "gone" THEN <<>> ELSE h.out
                     /\ doubled' = (doubled \/ Twice(h.out))
           /\ ui'.at \in {"keys", "draw", "gone"} /\ ui'.answer = ui.answer
<1>1. UNCHANGED <<call, daemon, sends>> /\ turn' = Drained /\ view' = Tick(ui, view).v
  BY DEF PressKeys
<1>2. /\ UiTyped(Tick(ui, view).u, sends) /\ ViewTyped(view') /\ Tick(ui, view).u.answer = ui.answer
  BY <1>1, TickTyped
<1>3. PICK keys : Handled(Tick(ui, view).u, ReadBurst(Hand(view'), keys), Unread(keys))
  BY DEF PressKeys
<1> DEFINE h == ReadBurst(Hand(view'), keys)
<1>4. Adds(Hand(view'), h)
  BY <1>2, HandFits, BurstAdds DEF ViewTyped
<1>5. h.out \in Seq(Requests)
  BY <1>4, HandFits, AddsTyped DEF SurfaceTyped, DrawingTyped, UiTyped
<1> HIDE DEF h
<1>6. /\ UiTyped(ui', sends') /\ line' \in {line, Append(line, Entry(Stop, "stop"))}
      /\ ui'.at \in {"keys", "draw", "gone"} /\ ui'.answer = ui.answer
      /\ ui'.todo = IF ui'.at = "gone" THEN <<>> ELSE h.out
      /\ doubled' = (doubled \/ Twice(h.out))
  <2>1. Handled(Tick(ui, view).u, h, Unread(keys))
    BY <1>3 DEF h
  <2> QED BY <1>1, <1>2, <1>5, <2>1, HandledTyped
<1>7. DrawingTyped'
  BY <1>1, <1>2, <1>6 DEF DrawingTyped, SurfaceTyped
<1> QED BY <1>1, <1>4, <1>6, <1>7, PartsKept, DrainedTyped, StopTyped DEF SurfaceTyped

LEMMA HandleTyped ==
    ASSUME SurfaceTyped, HandleNext
    PROVE  /\ SurfaceTyped'
           /\ \E h : /\ Adds(Hand(view), h) /\ ui'.todo = IF ui'.at = "gone" THEN <<>> ELSE h.out
                     /\ doubled' = (doubled \/ Twice(h.out))
           /\ ui'.at \in {"keys", "draw", "gone"} /\ ui'.answer = ui.answer
<1>1. UNCHANGED <<call, daemon, sends, view, turn>>
  BY DEF HandleNext
<1>2. UiTyped(ui, sends) /\ ViewTyped(view)
  BY DEF SurfaceTyped, DrawingTyped
<1> DEFINE h == HandleKey(Hand(view), Head(ui.keys))
<1>4. Adds(Hand(view), h)
  BY <1>2, HandFits, KeyAdds DEF ViewTyped
<1>5. h.out \in Seq(Requests)
  BY <1>2, <1>4, HandFits, AddsTyped DEF UiTyped
<1>6. Handled(ui, h, Tail(ui.keys))
  BY DEF HandleNext
<1> HIDE DEF h
<1>7. /\ UiTyped(ui', sends') /\ line' \in {line, Append(line, Entry(Stop, "stop"))}
      /\ ui'.at \in {"keys", "draw", "gone"} /\ ui'.answer = ui.answer
      /\ ui'.todo = IF ui'.at = "gone" THEN <<>> ELSE h.out
      /\ doubled' = (doubled \/ Twice(h.out))
  BY <1>1, <1>2, <1>5, <1>6, HandledTyped
<1>8. DrawingTyped'
  BY <1>1, <1>2, <1>7 DEF DrawingTyped, SurfaceTyped
<1> QED BY <1>1, <1>4, <1>7, <1>8, PartsKept, StopTyped DEF SurfaceTyped

(* A request that is handed over. *)
LEMMA SendTyped ==
    ASSUME SurfaceTyped, Send
    PROVE  SurfaceTyped'
<1>1. /\ ui.todo # <<>> /\ Head(ui.todo).k = "send" /\ sends < MaxSends /\ sends' = sends + 1
      /\ turn' = [turn EXCEPT ![sends'].at = "new", ![sends'].whole = Head(ui.todo).whole]
      /\ view' = [view EXCEPT !.band = "thinking"]
      /\ ui' = [Done(ui) EXCEPT !.inbox = sends', !.answer = sends']
      /\ UNCHANGED <<call, line, daemon>>
  BY DEF Send, Doing, daemonVars
<1>2. sends \in Nat /\ sends' \in Turns /\ sends' \in Nat /\ sends' <= MaxSends /\ sends <= sends'
  BY <1>1, Counted, Numbered
<1>3. DrawingTyped'
  <2>1. UiTyped(ui', sends')
    <3> DEFINE u == Done(ui)
    <3>1. ui' = [u EXCEPT !.inbox = sends', !.answer = sends'] /\ UiTyped(u, sends)
      BY <1>1, DoneTyped
    <3> HIDE DEF u
    <3> QED BY <1>2, <3>1 DEF UiTyped
  <2>2. ViewTyped(view')
    BY <1>1 DEF SurfaceTyped, DrawingTyped, ViewTyped
  <2> QED BY <1>2, <2>1, <2>2 DEF DrawingTyped
<1>4. LineTyped' /\ DaemonTyped'
  <2>1. \A n \in Int : n <= sends => n <= sends'
    BY <1>2
  <2>2. LineTyped'
    BY <1>1, <1>2, <2>1, Counted DEF SurfaceTyped, LineTyped
  <2>3. DaemonTyped'
    BY <1>1, <1>2 DEF SurfaceTyped, DaemonTyped
  <2> QED BY <2>2, <2>3
<1>5. TurnsTyped'
  <2> DEFINE whole == Head(ui.todo).whole
             t == [turn[sends'] EXCEPT !.at = "new", !.whole = whole]
  <2>1. whole \in BOOLEAN
    BY <1>1, DoneTyped DEF Requests, Approvals
  <2>2. turn[sends'] \in Threads /\ Carries(turn[sends'], sends')
    BY <1>2, Counted
  <2> HIDE DEF whole
  <2>3. t \in Threads
    <3>1. [turn[sends'] EXCEPT !.at = "new"] \in Threads
      BY <2>2, ThreadWith
    <3> QED BY <2>1, <3>1, ThreadWith
  <2>4. Carries(t, sends')
    <3>1. t.down = turn[sends'].down /\ t.chan = turn[sends'].chan
      BY <2>2 DEF Threads
    <3> QED BY <2>2, <3>1 DEF Carries
  <2>5. turn' = [turn EXCEPT ![sends'] = t]
    BY <1>1, <1>2 DEF SurfaceTyped, TurnsTyped, whole
  <2> HIDE DEF t
  <2>6. sends' <= sends' /\ TurnsTyped
    BY <1>2 DEF SurfaceTyped
  <2> QED BY <1>2, <2>3, <2>4, <2>5, <2>6, ThreadMoves
<1> QED BY <1>1, <1>3, <1>4, <1>5, PartsKept DEF SurfaceTyped

LEMMA ApproveTyped ==
    ASSUME SurfaceTyped, Approve
    PROVE  SurfaceTyped'
<1>1. /\ ui.todo # <<>> /\ Head(ui.todo).k = "approve"
      /\ UNCHANGED <<turn, call, line, daemon, sends>>
  BY DEF Approve, Doing, daemonVars
<1>2. UiTyped(Done(ui), sends) /\ Head(ui.todo) \in Approvals
  BY <1>1, DoneTyped DEF Requests
<1>3. DrawingTyped'
  <2>1. CASE ui.answer = 0
    BY <1>1, <1>2, <2>1 DEF Approve, DrawingTyped, SurfaceTyped
  <2>2. CASE ui.answer # 0
    <3> DEFINE u == Done(ui)
               r == Head(ui.todo)
    <3>1. /\ ui' = [u EXCEPT !.at = "give", !.gave = <<r>>] /\ UiTyped(u, sends) /\ r \in Approvals
          /\ view' = [view EXCEPT !.window = None, !.band = "thinking"]
      BY <1>2, <2>2 DEF Approve
    <3> HIDE DEF u, r
    <3>2. UiTyped(ui', sends)
      <4>1. <<r>> \in Seq(Approvals)
        BY <3>1
      <4> HIDE DEF Approvals
      <4> QED BY <3>1, <4>1 DEF UiTyped
    <3>3. ViewTyped(view')
      BY <3>1, Numbered DEF SurfaceTyped, DrawingTyped, ViewTyped
    <3> QED BY <1>1, <3>2, <3>3 DEF SurfaceTyped, DrawingTyped
  <2> QED BY <2>1, <2>2
<1> QED BY <1>1, <1>3, PartsKept DEF SurfaceTyped

LEMMA GivenTyped ==
    ASSUME SurfaceTyped, Given
    PROVE  SurfaceTyped'
<1>1. /\ ui' = [ui EXCEPT !.at = "draw", !.gave = <<>>]
      /\ UNCHANGED <<view, turn, call, line, daemon, sends>>
  BY DEF Given, daemonVars
<1>2. UiTyped(ui', sends)
  <2>1. UiTyped(ui, sends)
    BY DEF SurfaceTyped, DrawingTyped
  <2>2. <<>> \in Seq(Approvals)
    OBVIOUS
  <2> QED BY <1>1, <2>1, <2>2 DEF UiTyped
<1> QED BY <1>1, <1>2, PartsKept DEF SurfaceTyped, DrawingTyped

(* What waits on the main port. *)
LEMMA OnMainPortTyped ==
    ASSUME SurfaceTyped, ui.todo # <<>>, NEW want \in {"runs"} \cup Models, OnMainPort(want),
           UNCHANGED <<view, turn, daemon, sends>>
    PROVE  /\ SurfaceTyped' /\ ui'.todo = Tail(ui.todo) /\ ui'.at \in {ui.at, "wait"}
           /\ ui'.answer = ui.answer /\ ui'.gave = ui.gave
<1>1. UiTyped(Done(ui), sends)
  BY DoneTyped
<1>2. /\ Append(line, Entry(Call, want)) \in Seq(Connections)
      /\ \A i \in DOMAIN Append(line, Entry(Call, want)) :
                Append(line, Entry(Call, want))[i].who \in Turns =>
                    Append(line, Entry(Call, want))[i].who <= sends
  <2>1. Call \in Nat /\ Call \notin Turns /\ want \in {"ask", "stop", "runs"} \cup Models
    BY Numbered DEF Call
  <2> QED BY <2>1, EntryTyped
<1>3. /\ Done(ui).todo = Tail(ui.todo) /\ Done(ui).at = ui.at
      /\ Done(ui).answer = ui.answer /\ Done(ui).gave = ui.gave
  BY DoneTyped
<1>4. /\ UiTyped(ui', sends) /\ ui'.todo = Tail(ui.todo) /\ ui'.at \in {ui.at, "wait"}
      /\ ui'.answer = ui.answer /\ ui'.gave = ui.gave
  <2> DEFINE u == Done(ui)
  <2>1. ui' \in {u, [u EXCEPT !.at = "wait"]}
    BY DEF OnMainPort
  <2> HIDE DEF u
  <2>2. \A x : UiTyped(x, sends) => LET y == [x EXCEPT !.at = "wait"]
                                    IN  /\ UiTyped(y, sends) /\ y.todo = x.todo /\ y.at = "wait"
                                        /\ y.answer = x.answer /\ y.gave = x.gave
    BY DEF UiTyped
  <2>3. u = Done(ui)
    BY DEF u
  <2> QED BY <1>1, <1>3, <2>1, <2>2, <2>3
<1>5. DrawingTyped'
  BY <1>4 DEF SurfaceTyped, DrawingTyped
<1>6. CallTyped'
  <2>1. call' \in {call, [at |-> "open", id |-> call.id + 1, down |-> <<>>]}
    BY DEF OnMainPort
  <2> QED BY <2>1 DEF SurfaceTyped, CallTyped
<1>7. LineTyped'
  <2>1. line' \in {line, Append(line, Entry(Call, want))}
    BY DEF OnMainPort
  <2> HIDE DEF Entry
  <2> QED BY <1>2, <2>1 DEF SurfaceTyped, LineTyped
<1> QED BY <1>4, <1>5, <1>6, <1>7, PartsKept DEF SurfaceTyped

LEMMA PortCallTyped ==
    ASSUME SurfaceTyped, Select \/ Runs
    PROVE  /\ SurfaceTyped' /\ ui'.todo = Tail(ui.todo) /\ ui'.at \in {"draw", "wait"}
           /\ ui'.answer = ui.answer /\ ui'.gave = ui.gave /\ UNCHANGED <<view, turn, doubled>>
<1>1. /\ ui.todo # <<>> /\ ui.at = "draw" /\ UNCHANGED <<view, turn, daemon, sends, doubled>>
  BY DEF Select, Runs, Doing, person
<1>2. CASE ui' = Done(ui) /\ UNCHANGED <<call, line>>
  <2>1. /\ UiTyped(Done(ui), sends) /\ Done(ui).todo = Tail(ui.todo) /\ Done(ui).at = ui.at
        /\ Done(ui).answer = ui.answer /\ Done(ui).gave = ui.gave
    BY <1>1, DoneTyped
  <2>2. DrawingTyped'
    BY <1>1, <1>2, <2>1 DEF SurfaceTyped, DrawingTyped
  <2> QED BY <1>1, <1>2, <2>1, <2>2, PartsKept DEF SurfaceTyped
<1>3. ASSUME NEW want \in {"runs"} \cup Models, OnMainPort(want)
      PROVE  /\ SurfaceTyped' /\ ui'.todo = Tail(ui.todo) /\ ui'.at \in {"draw", "wait"}
             /\ ui'.answer = ui.answer /\ ui'.gave = ui.gave
  BY <1>1, <1>3, OnMainPortTyped
<1>4. CASE Select
  <2>1. Head(ui.todo).k = "select" /\ Head(ui.todo) \in Requests
    BY <1>1, <1>4, DoneTyped DEF Select, Doing
  <2>2. Head(ui.todo).model \in Models
    BY <2>1 DEF Requests, Approvals
  <2>3. (ui' = Done(ui) /\ UNCHANGED <<call, line>>) \/ OnMainPort(Head(ui.todo).model)
    BY <1>4 DEF Select
  <2> QED BY <1>1, <1>2, <1>3, <2>2, <2>3
<1>5. CASE Runs
  BY <1>1, <1>2, <1>3, <1>5 DEF Runs
<1> QED BY <1>4, <1>5

LEMMA WaitTyped ==
    ASSUME SurfaceTyped, Reply \/ CallTimesOut
    PROVE  /\ SurfaceTyped' /\ ui'.todo = ui.todo /\ ui'.at = "draw" /\ ui.at = "wait"
           /\ ui'.answer = ui.answer /\ ui'.gave = ui.gave /\ view'.window = view.window
           /\ UNCHANGED <<turn, doubled>>
<1>1. /\ ui' = [ui EXCEPT !.at = "draw"] /\ ui.at = "wait" /\ UNCHANGED <<turn, daemon, line, sends, doubled>>
      /\ view' \in {view, [view EXCEPT !.model = Head(call.down)]}
      /\ call' \in {[call EXCEPT !.at = "none", !.down = <<>>], [call EXCEPT !.at = "none"]}
  BY DEF Reply, CallTimesOut, daemonVars, person
<1>2. UiTyped(ui', sends) /\ ui'.todo = ui.todo /\ ui'.answer = ui.answer /\ ui'.gave = ui.gave
  BY <1>1 DEF SurfaceTyped, DrawingTyped, UiTyped
<1>3. ViewTyped(view') /\ view'.window = view.window
  <2> DEFINE m == Head(call.down)
  <2>1. view' \in {view, [view EXCEPT !.model = m]} /\ ViewTyped(view)
    BY <1>1 DEF SurfaceTyped, DrawingTyped
  <2> HIDE DEF m
  <2> QED BY <2>1 DEF ViewTyped
<1>4. CallTyped'
  BY <1>1 DEF SurfaceTyped, CallTyped
<1>5. DrawingTyped'
  BY <1>1, <1>2, <1>3 DEF SurfaceTyped, DrawingTyped
<1> QED BY <1>1, <1>2, <1>3, <1>4, <1>5, PartsKept DEF SurfaceTyped

-----------------------------------------------------------------------------
(* A message's thread and the daemon *)

(* An event that is passed on, and a thread that gives up. *)
LEMMA EmitTyped ==
    ASSUME NEW t \in Threads, NEW w, Carries(t, w), NEW e \in Messages, e.k = "approval" => e.w = w
    PROVE  /\ Emit(t, e) \in Threads /\ Carries(Emit(t, e), w)
           /\ Emit(t, e).chan = Append(t.chan, e) /\ Emit(t, e).at = t.at /\ Emit(t, e).q = t.q
           /\ Emit(t, e).down = t.down /\ Emit(t, e).up = t.up
<1>1. Emit(t, e) = [t EXCEPT !.chan = Append(@, e)] /\ Emit(t, e) \in Threads
  BY ThreadWith DEF Emit
<1>2. /\ Emit(t, e).chan = Append(t.chan, e) /\ Emit(t, e).at = t.at /\ Emit(t, e).q = t.q
      /\ Emit(t, e).down = t.down /\ Emit(t, e).up = t.up
  BY <1>1 DEF Threads
<1>3. t.chan \in Seq(Messages)
  BY DEF Threads
<1>4. Carries(Emit(t, e), w)
  <2> HIDE DEF Messages
  <2>1. ASSUME NEW i \in DOMAIN Append(t.chan, e), Append(t.chan, e)[i].k = "approval"
        PROVE  Append(t.chan, e)[i].w = w
    BY <1>3, <2>1 DEF Carries
  <2> QED BY <1>2, <2>1 DEF Carries
<1> QED BY <1>1, <1>2, <1>4

LEMMA FailedTyped ==
    ASSUME NEW t \in Threads, NEW w, Carries(t, w)
    PROVE  /\ Failed(t) \in Threads /\ Carries(Failed(t), w) /\ Failed(t).at = "ended"
           /\ Failed(t).up = t.up
           /\ QuestionsIn(t.chan) = {} => QuestionsIn(Failed(t).chan) = {}
<1> DEFINE e == [k |-> "error", w |-> 0, d |-> 0]
           s == Emit(t, e)
<1>1. e \in Messages /\ e.k = "error"
  BY DEF Messages
<1> HIDE DEF e
<1>2. s \in Threads /\ Carries(s, w) /\ s.chan = Append(t.chan, e) /\ s.up = t.up
  BY <1>1, EmitTyped
<1>3. Failed(t) = [s EXCEPT !.at = "ended", !.end = "error"]
  BY DEF Failed, e
<1> HIDE DEF s
<1>4. Failed(t) \in Threads
  <2>1. [s EXCEPT !.at = "ended"] \in Threads
    BY <1>2, ThreadWith
  <2> QED BY <1>3, <2>1, ThreadWith
<1>5. Failed(t).at = "ended" /\ Failed(t).chan = s.chan /\ Failed(t).down = s.down /\ Failed(t).up = s.up
  BY <1>2, <1>3 DEF Threads
<1>6. Carries(Failed(t), w)
  BY <1>2, <1>5 DEF Carries
<1>7. ASSUME QuestionsIn(t.chan) = {} PROVE QuestionsIn(Failed(t).chan) = {}
  <2>1. t.chan \in Seq(Messages)
    BY DEF Threads
  <2>2. ASSUME NEW i \in DOMAIN Append(t.chan, e), Raises(Append(t.chan, e)[i]) PROVE FALSE
    BY <1>1, <1>7, <2>1, <2>2 DEF QuestionsIn, Raises
  <2> QED BY <1>2, <1>5, <2>2 DEF QuestionsIn
<1> QED BY <1>2, <1>4, <1>5, <1>6, <1>7

(* A step of a thread that was started. *)
LEMMA WorkerTyped ==
    ASSUME SurfaceTyped, NEW w \in Turns, turn[w].at # "none", NEW t \in Threads, Carries(t, w),
           Worker(w, t), ui' \in {ui, [ui EXCEPT !.at = "draw", !.gave = <<>>]},
           line' \in {line, Append(line, Entry(w, "ask"))}
    PROVE  /\ SurfaceTyped' /\ UNCHANGED <<view, acted, doubled, sends>>
           /\ \A x \in Turns : turn'[x] = IF x = w THEN t ELSE turn[x]
           /\ ui'.todo = ui.todo /\ ui'.answer = ui.answer
<1>1. /\ UNCHANGED <<view, call, daemon, acted, sends, doubled>> /\ turn' = [turn EXCEPT ![w] = t]
  BY DEF Worker, person
<1>2. w <= sends /\ w \in Nat /\ sends \in Nat
  BY Counted
<1>3. TurnsTyped' /\ \A x \in Turns : turn'[x] = IF x = w THEN t ELSE turn[x]
  <2>1. sends' \in Nat /\ sends <= sends' /\ w <= sends' /\ TurnsTyped
    BY <1>1, <1>2 DEF SurfaceTyped
  <2> QED BY <1>1, <1>2, <2>1, ThreadMoves
<1>4. LineTyped'
  <2>1. /\ Append(line, Entry(w, "ask")) \in Seq(Connections)
        /\ \A i \in DOMAIN Append(line, Entry(w, "ask")) :
                Append(line, Entry(w, "ask"))[i].who \in Turns =>
                    Append(line, Entry(w, "ask"))[i].who <= sends
    BY <1>2, EntryTyped
  <2> HIDE DEF Entry
  <2> QED BY <1>1, <2>1 DEF SurfaceTyped, LineTyped
<1>5. DrawingTyped' /\ ui'.todo = ui.todo /\ ui'.answer = ui.answer
  <2>1. UiTyped(ui, sends) /\ <<>> \in Seq(Approvals)
    BY DEF SurfaceTyped, DrawingTyped
  <2>2. UiTyped(ui', sends) /\ ui'.todo = ui.todo /\ ui'.answer = ui.answer
    BY <2>1 DEF UiTyped
  <2> QED BY <1>1, <2>2 DEF SurfaceTyped, DrawingTyped
<1> QED BY <1>1, <1>3, <1>4, <1>5, PartsKept DEF SurfaceTyped

(* A thread reads its connection: a question stops it, anything else is passed on. *)
LEMMA ReadLineTyped ==
    ASSUME NEW s \in Threads, NEW w, Carries(s, w), s.down # <<>>, s.at = "read"
    PROVE  LET e == Head(s.down)
               t == [Emit(s, e) EXCEPT !.down = Tail(@)]
               r == IF e.k = "approval" /\ e.d # 0 THEN [t EXCEPT !.at = "ask", !.q = e.d]
                    ELSE IF e.k \in {"done", "error"} THEN [t EXCEPT !.end = e.k] ELSE t
           IN  /\ r \in Threads /\ Carries(r, w) /\ r.up = s.up /\ r.chan = Append(s.chan, e)
               /\ e \in Messages
               /\ Raises(e) => r.at = "ask" /\ r.q = e.d
<1> DEFINE e == Head(s.down)
           p == Emit(s, e)
           t == [p EXCEPT !.down = Tail(@)]
           r == IF e.k = "approval" /\ e.d # 0 THEN [t EXCEPT !.at = "ask", !.q = e.d]
                ELSE IF e.k \in {"done", "error"} THEN [t EXCEPT !.end = e.k] ELSE t
<1>1. s.down \in Seq(Messages)
  BY DEF Threads
<1>2. e \in Messages /\ (e.k = "approval" => e.w = w) /\ 1 \in DOMAIN s.down /\ e = s.down[1]
  BY <1>1 DEF Carries
<1>3. /\ p \in Threads /\ Carries(p, w) /\ p.up = s.up /\ p.chan = Append(s.chan, e)
      /\ p.down = s.down /\ p.at = "read"
  BY <1>2, EmitTyped
<1> HIDE DEF p
<1>4. t \in Threads
  BY <1>3, ThreadWith
<1>5. t.up = s.up /\ t.chan = p.chan /\ t.down = Tail(s.down) /\ t.at = "read"
  BY <1>3 DEF Threads
<1>6. Carries(t, w)
  <2>1. \A i \in DOMAIN Tail(s.down) : i + 1 \in DOMAIN s.down /\ Tail(s.down)[i] = s.down[i + 1]
    BY <1>1
  <2> QED BY <1>3, <1>5, <2>1 DEF Carries
<1> HIDE DEF t, e
<1>7. e.d \in Nat
  BY <1>2 DEF Messages
<1>8. /\ r \in Threads /\ r.up = t.up /\ r.chan = t.chan /\ r.down = t.down
      /\ Raises(e) => r.at = "ask" /\ r.q = e.d
  <2>1. CASE Raises(e)
    <3>1. r = [t EXCEPT !.at = "ask", !.q = e.d]
      BY <2>1 DEF Raises
    <3>2. r \in Threads
      <4>1. [t EXCEPT !.at = "ask"] \in Threads
        BY <1>4, ThreadWith
      <4> QED BY <1>7, <3>1, <4>1, ThreadWith
    <3> QED BY <1>4, <3>1, <3>2 DEF Threads
  <2>2. CASE ~Raises(e)
    <3>1. r \in {[t EXCEPT !.end = e.k], t} /\ (r # t => e.k \in {"done", "error"})
      BY <2>2 DEF Raises
    <3>2. r \in Threads
      BY <1>4, <3>1, ThreadWith
    <3> HIDE DEF r
    <3> QED BY <1>4, <2>2, <3>1, <3>2 DEF Threads
  <2> QED BY <2>1, <2>2
<1>9. Carries(r, w)
  <2> HIDE DEF r
  <2> QED BY <1>6, <1>8 DEF Carries
<1> QED BY <1>2, <1>3, <1>5, <1>8, <1>9 DEF p, t, e

(* An answer goes to the daemon with the number of the question it is for. *)
LEMMA RepliedTyped ==
    ASSUME NEW s \in Threads, NEW w, Carries(s, w), NEW a \in Approvals, NEW t \in Replied(s, a)
    PROVE  /\ t \in Threads /\ Carries(t, w) /\ t.at \in {"read", "ended"}
           /\ t.up \in {s.up, Append(s.up, [d |-> s.q, a |-> a])}
           /\ QuestionsIn(s.chan) = {} => QuestionsIn(t.chan) = {}
<1>1. CASE t = Failed(s)
  BY <1>1, FailedTyped
<1>2. CASE t # Failed(s)
  <2> DEFINE b == [d |-> s.q, a |-> a]
  <2>1. b \in [d : Nat, a : Approvals]
    BY DEF Threads
  <2> HIDE DEF b
  <2>2. t = [s EXCEPT !.at = "read", !.q = 0, !.up = Append(@, b)]
    BY <1>2 DEF Replied, b
  <2>3. t \in Threads
    <3> DEFINE u1 == [s EXCEPT !.at = "read"]
               u2 == [u1 EXCEPT !.q = 0]
    <3>0. u1 \in Threads
      BY ThreadWith
    <3>1. u1 \in Threads /\ u1.up = s.up
      BY <3>0 DEF Threads
    <3>2. u2 \in Threads
      <4> HIDE DEF u1
      <4> QED BY <3>1, ThreadWith
    <3>3. t = [u2 EXCEPT !.up = Append(@, b)]
      BY <2>2
    <3> HIDE DEF u2
    <3> QED BY <2>1, <3>2, <3>3, ThreadWith
  <2>4. /\ t.at = "read" /\ t.up = Append(s.up, b) /\ t.chan = s.chan /\ t.down = s.down
    BY <2>2 DEF Threads
  <2>5. Carries(t, w)
    BY <2>4 DEF Carries
  <2> QED BY <2>3, <2>4, <2>5 DEF b
<1> QED BY <1>1, <1>2

LEMMA DeniedTyped == Denied \in Approvals /\ ~Denied.granted
BY Numbered DEF Denied, Approvals

(* The daemon's steps that touch no thread. *)
LEMMA ServeTyped ==
    ASSUME SurfaceTyped, ServeTurn \/ ServeCall \/ ServeStop
    PROVE  SurfaceTyped' /\ UNCHANGED <<ui, view, turn, acted, doubled>>
<1>1. /\ UNCHANGED <<ui, view, turn, acted, doubled, sends>>
      /\ line # <<>> /\ line' = Tail(line)
  BY DEF ServeTurn, ServeCall, ServeStop, Surfaces, person
<1>2. LineTyped' /\ Head(line) = line[1] /\ 1 \in DOMAIN line
  <2>1. line \in Seq(Connections)
    BY DEF SurfaceTyped, LineTyped
  <2>2. /\ Tail(line) \in Seq(Connections) /\ 1 \in DOMAIN line /\ Head(line) = line[1]
        /\ \A i \in DOMAIN Tail(line) : i + 1 \in DOMAIN line /\ Tail(line)[i] = line[i + 1]
    BY <1>1, <2>1
  <2> QED BY <1>1, <2>2 DEF SurfaceTyped, LineTyped
<1>3. CallTyped'
  <2>1. CASE ServeCall
    <3>1. PICK c : call' \in {call, [call EXCEPT !.at = "shut", !.down = c]}
      BY <2>1 DEF ServeCall
    <3> QED BY <3>1 DEF SurfaceTyped, CallTyped
  <2>2. CASE ~ServeCall
    BY <2>2, PartsKept DEF ServeTurn, ServeStop
  <2> QED BY <2>1, <2>2
<1>4. DaemonTyped'
  <2>1. CASE ServeTurn
    <3> DEFINE w == Head(line).who
    <3>1. w \in Turns /\ w <= sends /\ sends \in Nat
      BY <1>2, <2>1, Counted DEF ServeTurn, SurfaceTyped, LineTyped
    <3>2. daemon' = [daemon EXCEPT !.at = "run", !.turn = w, !.asked = 0]
      BY <2>1 DEF ServeTurn
    <3> HIDE DEF w
    <3>3. w \in 1..sends
      BY <3>1, SurfaceAssumption, Numbered
    <3> QED BY <1>1, <3>2, <3>3 DEF SurfaceTyped, DaemonTyped
  <2>2. CASE ServeCall
    <3> DEFINE want == Head(line).want
    <3>1. daemon.at = "idle" /\ daemon' \in {daemon, [daemon EXCEPT !.model = want]}
      BY <2>2 DEF ServeCall
    <3> HIDE DEF want
    <3> QED BY <1>1, <3>1 DEF SurfaceTyped, DaemonTyped
  <2>3. CASE ServeStop
    <3>1. PICK live \in BOOLEAN : daemon' = [daemon EXCEPT !.up = live]
      BY <2>3 DEF ServeStop
    <3>2. daemon.at = "idle"
      BY <2>3 DEF ServeStop
    <3> QED BY <1>1, <3>1, <3>2 DEF SurfaceTyped, DaemonTyped
  <2> QED BY <2>1, <2>2, <2>3
<1> QED BY <1>1, <1>2, <1>3, <1>4, PartsKept DEF SurfaceTyped

(* The daemon's steps on one thread: what it sends, and the answer it reads. *)
LEMMA SentDown ==
    ASSUME NEW t \in Threads, NEW w, Carries(t, w), NEW e \in Messages, e.k = "approval" => e.w = w
    PROVE  LET r == [t EXCEPT !.down = Append(@, e)]
           IN  r \in Threads /\ Carries(r, w) /\ r.at = t.at /\ r.chan = t.chan /\ r.q = t.q /\ r.up = t.up
<1> DEFINE r == [t EXCEPT !.down = Append(@, e)]
<1>1. r \in Threads
  BY ThreadWith
<1>2. r.at = t.at /\ r.chan = t.chan /\ r.q = t.q /\ r.up = t.up /\ r.down = Append(t.down, e)
  BY DEF Threads
<1>3. t.down \in Seq(Messages)
  BY DEF Threads
<1>4. Carries(r, w)
  <2> HIDE DEF Messages, r
  <2>1. ASSUME NEW i \in DOMAIN Append(t.down, e), Append(t.down, e)[i].k = "approval"
        PROVE  Append(t.down, e)[i].w = w
    BY <1>3, <2>1 DEF Carries
  <2> QED BY <1>2, <2>1 DEF Carries
<1> QED BY <1>1, <1>2, <1>4

(* What a thread shows of itself, whatever has come down its connection *)
Alike(s, t) == t.at = s.at /\ t.chan = s.chan /\ t.q = s.q /\ t.up = s.up

(* A step of the daemon on the thread it serves. *)
LEMMA DaemonStep ==
    ASSUME SurfaceTyped, daemon.at # "idle", NEW t \in Threads, Carries(t, daemon.turn),
           turn' \in {turn, [turn EXCEPT ![daemon.turn] = t]},
           DOMAIN daemon' = DOMAIN daemon, daemon'.turn = daemon.turn, daemon'.asked \in Nat,
           UNCHANGED <<ui, view, call, line, sends>>
    PROVE  /\ SurfaceTyped'
           /\ \A x \in Turns : turn'[x] \in {turn[x], t} /\ (x # daemon.turn => turn'[x] = turn[x])
<1>1. daemon.turn \in 1..sends /\ daemon.turn \in Turns
  BY Counted DEF SurfaceTyped, DaemonTyped
<1>2. DaemonTyped'
  BY <1>1 DEF SurfaceTyped, DaemonTyped
<1>3. /\ TurnsTyped'
      /\ \A x \in Turns : turn'[x] \in {turn[x], t} /\ (x # daemon.turn => turn'[x] = turn[x])
  <2>1. CASE turn' = turn
    <3>1. UNCHANGED <<turn, sends>>
      BY <2>1
    <3> QED BY <3>1, PartsKept
  <2>2. CASE turn' = [turn EXCEPT ![daemon.turn] = t]
    <3>1. PICK w \in Turns : w = daemon.turn
      BY <1>1
    <3>2. /\ sends \in Nat /\ sends' \in Nat /\ w <= sends' /\ sends <= sends' /\ TurnsTyped
          /\ Carries(t, w) /\ turn' = [turn EXCEPT ![w] = t]
      BY <1>1, <2>2, <3>1, Counted DEF SurfaceTyped
    <3>3. TurnsTyped' /\ \A x \in Turns : turn'[x] = IF x = w THEN t ELSE turn[x]
      BY ONLY <3>2, ThreadMoves, w \in Turns, t \in Threads
    <3> QED BY <3>1, <3>3
  <2> QED BY <2>1, <2>2
<1>4. DrawingTyped' /\ CallTyped' /\ LineTyped'
  BY PartsKept
<1> QED BY <1>2, <1>3, <1>4 DEF SurfaceTyped

-----------------------------------------------------------------------------
(* Answers are for the question on the screen *)

(* A question on the channel is the one its thread waits with, and no window is up yet *)
Unseen ==
    ui.answer # 0 =>
        LET t == turn[ui.answer]
        IN  \A i \in QuestionsIn(t.chan) :
                /\ t.at = "ask" /\ t.chan[i].d = t.q /\ QuestionsIn(t.chan) = {i}
                /\ view.window = None /\ ui.at # "give"

Asking == ui.answer # 0 /\ turn[ui.answer].at = "ask"
Asked == <<ui.answer, turn[ui.answer].q>>

(* The window is the question's that the current thread waits with *)
OnScreen == view.window # None => Asking /\ view.window = Asked /\ ui.at # "give"

(* An answer that was pressed is the window's, and the only one *)
Pressed(out, window) == \A i \in DOMAIN out : Fits(out[i], window)
Pending ==
    /\ Pressed(ui.todo, view.window) /\ ~Twice(ui.todo)
    /\ ui.at \in {"top", "gone"} => ui.todo = <<>>
    /\ ui.at = "give" => Asking /\ Head(ui.gave).window = Asked

(* A grant on its way to the daemon names the question it was pressed for *)
OwnAnswers(t, w) == \A i \in DOMAIN t.up : t.up[i].a.granted => t.up[i].a.window = <<w, t.up[i].d>>
Underway == \A w \in Turns : OwnAnswers(turn[w], w)

ActedOurs == \A x \in acted : x.a.window = <<x.w, x.d>>

OursNow == Unseen /\ OnScreen /\ Pending /\ Underway /\ ActedOurs
SurfaceInv == SurfaceTyped /\ (doubled \/ OursNow)

(* A tick puts the question on the screen that was on the channel. *)
LEMMA TickOurs ==
    ASSUME SurfaceTyped, Unseen, OnScreen, Underway, ui.at # "give", ui'.at # "give",
           turn' = Drained, view' = Tick(ui, view).v, ui'.answer = ui.answer
    PROVE  Unseen' /\ OnScreen' /\ Underway'
<1>1. \A w \in Turns : Drained[w] = IF ui.inbox = w THEN [turn[w] EXCEPT !.chan = <<>>] ELSE turn[w]
  BY TickTyped
<1>2. \A w \in Turns : /\ turn'[w].at = turn[w].at /\ turn'[w].q = turn[w].q /\ turn'[w].up = turn[w].up
                       /\ turn'[w].chan = IF ui.inbox = w THEN <<>> ELSE turn[w].chan
  <2> SUFFICES ASSUME NEW w \in Turns
               PROVE  /\ turn'[w].at = turn[w].at /\ turn'[w].q = turn[w].q /\ turn'[w].up = turn[w].up
                      /\ turn'[w].chan = IF ui.inbox = w THEN <<>> ELSE turn[w].chan
    OBVIOUS
  <2>1. CASE ui.inbox # w
    BY <1>1, <2>1
  <2>2. CASE ui.inbox = w
    <3>1. turn'[w] = [turn[w] EXCEPT !.chan = <<>>] /\ turn[w] \in Threads
      BY <1>1, <2>2, Counted
    <3> QED BY <2>2, <3>1 DEF Threads
  <2> QED BY <2>1, <2>2
<1>3. Underway'
  BY <1>2 DEF Underway, OwnAnswers
<1>4. ui.answer = 0 \/ ui.answer \in Turns
  BY SurfaceAssumption, Numbered DEF SurfaceTyped, DrawingTyped, UiTyped
<1>5. ui.inbox \in {0, ui.answer} /\ DOMAIN view = {"band", "window", "model"}
  BY DEF SurfaceTyped, DrawingTyped, UiTyped, ViewTyped
<1>6. CASE ui.inbox = 0
  <2>1. view' = view
    BY <1>6 DEF Tick
  <2>2. \A w \in Turns : turn'[w].chan = turn[w].chan
    BY <1>2, <1>6, Numbered
  <2> QED BY <1>2, <1>3, <1>4, <2>1, <2>2 DEF Unseen, OnScreen, Asking, Asked
<1>7. CASE ui.inbox # 0
  <2> DEFINE w == ui.answer
             chan == turn[w].chan
  <2>1. w \in Turns /\ ui.inbox = w /\ w # 0
    BY <1>4, <1>5, <1>7
  <2>2. turn'[w].chan = <<>> /\ turn'[w].at = turn[w].at /\ turn'[w].q = turn[w].q
    BY <1>2, <2>1
  <2>3. view'.window = Raised(view.window, chan)
    <3> DEFINE b == FoldLeft(ApplyEvent, view.band, chan)
               x == Raised(view.window, chan)
    <3>1. view' = [view EXCEPT !.band = b, !.window = x]
      BY <1>7, <2>1 DEF Tick
    <3> HIDE DEF b, x
    <3>2. view'.window = x
      BY <1>5, <3>1
    <3> QED BY <3>2 DEF x
  <2>4. Unseen'
    BY <2>2 DEF Unseen, QuestionsIn
  <2>5. OnScreen'
    <3>1. CASE QuestionsIn(chan) = {}
      <4>1. view'.window = view.window
        BY <2>3, <3>1 DEF Raised, QuestionsIn
      <4> QED BY <2>2, <4>1 DEF OnScreen, Asking, Asked
    <3>2. CASE QuestionsIn(chan) # {}
      <4>1. PICK i \in QuestionsIn(chan) : TRUE
        BY <3>2
      <4>2. turn[w].at = "ask" /\ chan[i].d = turn[w].q /\ QuestionsIn(chan) = {i}
        BY <2>1, <4>1 DEF Unseen
      <4>3. i \in DOMAIN chan /\ chan[i].k = "approval"
        BY <4>1 DEF QuestionsIn, Raises
      <4>4. chan[i].w = w /\ i \in Nat
        <5>1. Carries(turn[w], w) /\ chan \in Seq(Messages)
          BY <2>1, Counted DEF Threads
        <5> QED BY <4>3, <5>1 DEF Carries
      <4>5. view'.window = <<w, turn[w].q>>
        BY <2>3, <4>2, <4>4, RaisedByOne
      <4> QED BY <2>1, <2>2, <4>2, <4>5 DEF OnScreen, Asking, Asked
    <3> QED BY <3>1, <3>2
  <2> QED BY <1>3, <2>4, <2>5
<1> QED BY <1>6, <1>7

(* A key presses only what the window it saw allows. *)
LEMMA AddsPressed ==
    ASSUME NEW h, NEW g, Adds(h, g), h.out \in Seq(Requests), Pressed(h.out, h.v.window)
    PROVE  Pressed(g.out, h.v.window)
<1>1. CASE g.out = h.out
  BY <1>1
<1>2. CASE g.out # h.out
  <2>1. PICK r \in Requests : Fits(r, h.v.window) /\ g.out = Append(h.out, r)
    BY <1>2 DEF Adds
  <2> HIDE DEF Requests
  <2>2. \A i \in DOMAIN g.out : g.out[i] = r \/ (i \in DOMAIN h.out /\ g.out[i] = h.out[i])
    BY <2>1
  <2> QED BY <2>1, <2>2 DEF Pressed
<1> QED BY <1>1, <1>2

LEMMA NonePressed == Pressed(<<>>, view.window) /\ Pressed(<<>>, view'.window) /\ ~Twice(<<>>)
BY DEF Pressed, Twice

(* What is left of the requests was pressed too. *)
LEMMA RestPressed ==
    ASSUME NEW out \in Seq(Requests), out # <<>>, NEW window, Pressed(out, window), ~Twice(out)
    PROVE  /\ Pressed(Tail(out), window) /\ ~Twice(Tail(out)) /\ Fits(Head(out), window)
           /\ Head(out).k = "approve" => Pressed(Tail(out), None)
<1>1. \A i \in DOMAIN Tail(out) : /\ i + 1 \in DOMAIN out /\ Tail(out)[i] = out[i + 1] /\ i + 1 # 1
                                  /\ i \in Nat
  OBVIOUS
<1>2. 1 \in DOMAIN out /\ Head(out) = out[1]
  OBVIOUS
<1> HIDE DEF Requests
<1>3. Pressed(Tail(out), window) /\ Fits(Head(out), window)
  BY <1>1, <1>2 DEF Pressed
<1>4. ~Twice(Tail(out))
  <2> SUFFICES ASSUME NEW i \in DOMAIN Tail(out), NEW j \in DOMAIN Tail(out), i # j,
                      Tail(out)[i].k = "approve", Tail(out)[j].k = "approve"
               PROVE  FALSE
    BY DEF Twice
  <2>1. i + 1 # j + 1 /\ out[i + 1].k = "approve" /\ out[j + 1].k = "approve"
    BY <1>1
  <2> QED BY <1>1, <2>1 DEF Twice
<1>5. ASSUME Head(out).k = "approve", NEW i \in DOMAIN Tail(out) PROVE Fits(Tail(out)[i], None)
  <2>1. Tail(out)[i].k # "approve"
    BY <1>1, <1>2, <1>5 DEF Twice
  <2> QED BY <2>1 DEF Fits
<1> QED BY <1>3, <1>4, <1>5 DEF Pressed

(* The drawing thread's own steps. *)
LEMMA IdleOurs ==
    ASSUME SurfaceTyped, OursNow, Idle \/ TickAndDraw
    PROVE  OursNow'
<1>1. /\ turn' = Drained /\ view' = Tick(ui, view).v /\ UNCHANGED acted
      /\ ui.at \in {"top", "draw"} /\ (ui.at = "draw" => ui.todo = <<>>)
      /\ ui' \in {Tick(ui, view).u, [Tick(ui, view).u EXCEPT !.at = "top"]}
  BY DEF Idle, TickAndDraw, daemonVars
<1>2. /\ UiTyped(Tick(ui, view).u, sends) /\ Tick(ui, view).u.at = ui.at
      /\ Tick(ui, view).u.todo = ui.todo /\ Tick(ui, view).u.answer = ui.answer
  BY TickTyped
<1>3. ui'.at \in {"top", "draw"} /\ ui'.todo = <<>> /\ ui'.answer = ui.answer
  <2> DEFINE u == Tick(ui, view).u
  <2>1. u.at = ui.at /\ u.todo = <<>> /\ u.answer = ui.answer /\ UiTyped(u, sends)
    BY <1>1, <1>2 DEF OursNow, Pending
  <2>2. ui' \in {u, [u EXCEPT !.at = "top"]}
    BY <1>1
  <2> HIDE DEF u
  <2> QED BY <1>1, <2>1, <2>2 DEF UiTyped
<1>4. Unseen' /\ OnScreen' /\ Underway'
  BY <1>1, <1>3, TickOurs DEF OursNow
<1>5. Pending'
  BY <1>3, NonePressed DEF Pending
<1> QED BY <1>1, <1>4, <1>5 DEF OursNow, ActedOurs

LEMMA KeysOurs ==
    ASSUME SurfaceTyped, OursNow, ~doubled', PressKeys \/ HandleNext
    PROVE  OursNow'
<1>1. UNCHANGED acted
  BY DEF PressKeys, HandleNext
<1>2. /\ UNCHANGED view \/ view' = Tick(ui, view).v
      /\ PressKeys => turn' = Drained /\ view' = Tick(ui, view).v /\ ui.at = "top"
      /\ HandleNext => UNCHANGED <<turn, view>> /\ ui.at = "keys"
  BY DEF PressKeys, HandleNext
<1>3. PICK h : /\ Adds(Hand(view'), h) /\ ui'.todo = IF ui'.at = "gone" THEN <<>> ELSE h.out
               /\ doubled' = (doubled \/ Twice(h.out))
  <2>1. CASE PressKeys
    BY <2>1, PressTyped
  <2>2. CASE HandleNext
    <3>1. view' = view
      BY <1>2, <2>2
    <3> QED BY <2>2, <3>1, HandleTyped
  <2> QED BY <2>1, <2>2
<1>4. ui'.at \in {"keys", "draw", "gone"} /\ ui'.answer = ui.answer
  BY PressTyped, HandleTyped
<1>5. Unseen' /\ OnScreen' /\ Underway'
  <2>1. CASE PressKeys
    BY <1>2, <1>4, <2>1, TickOurs DEF OursNow
  <2>2. CASE HandleNext
    BY <1>2, <1>4, <2>2 DEF OursNow, Unseen, OnScreen, Asking, Asked, Underway
  <2> QED BY <2>1, <2>2
<1>6. Pressed(Hand(view').out, Hand(view').v.window) /\ Hand(view').out \in Seq(Requests)
  <2>1. Hand(view').out = ui.todo /\ Hand(view').v = view' /\ ui.todo \in Seq(Requests)
    BY HandFits DEF SurfaceTyped, DrawingTyped, UiTyped
  <2>2. Pressed(ui.todo, view'.window)
    <3>1. CASE PressKeys
      <4>1. ui.todo = <<>>
        BY <1>2, <3>1 DEF OursNow, Pending
      <4> QED BY <4>1, NonePressed
    <3>2. CASE HandleNext
      BY <1>2, <3>2 DEF OursNow, Pending
    <3> QED BY <3>1, <3>2
  <2> QED BY <2>1, <2>2
<1>7. Pressed(h.out, view'.window)
  <2>1. Pressed(h.out, Hand(view').v.window)
    BY <1>3, <1>6, AddsPressed
  <2> QED BY <2>1, HandFits
<1>8. ~Twice(h.out)
  BY <1>3
<1>9. Pending'
  <2>1. CASE ui'.at = "gone"
    BY <1>3, <2>1, NonePressed DEF Pending
  <2>2. CASE ui'.at # "gone"
    BY <1>3, <1>4, <1>7, <1>8, <2>2 DEF Pending
  <2> QED BY <2>1, <2>2
<1> QED BY <1>1, <1>5, <1>9 DEF OursNow, ActedOurs

(* With nothing asked on it, a channel raises nothing. *)
LEMMA EmptyChannel == QuestionsIn(<<>>) = {}
BY DEF QuestionsIn

LEMMA SendOurs ==
    ASSUME SurfaceTyped, OursNow, Send
    PROVE  OursNow'
<1>1. /\ ui.at = "draw" /\ ui.todo # <<>> /\ Head(ui.todo).k = "send" /\ sends < MaxSends
      /\ sends' = sends + 1
      /\ turn' = [turn EXCEPT ![sends'].at = "new", ![sends'].whole = Head(ui.todo).whole]
      /\ view' = [view EXCEPT !.band = "thinking"]
      /\ ui' = [Done(ui) EXCEPT !.inbox = sends', !.answer = sends']
      /\ UNCHANGED acted
  BY DEF Send, Doing, daemonVars
<1>2. sends' \in Turns /\ sends' # 0 /\ turn[sends'] = NewTurn
  <2>1. sends' \in Turns /\ sends' # 0 /\ sends' > sends
    BY <1>1, Counted, Numbered
  <2> QED BY <2>1 DEF SurfaceTyped, TurnsTyped
<1>3. ui'.at = "draw" /\ ui'.todo = Tail(ui.todo) /\ ui'.answer = sends'
  <2> DEFINE u == Done(ui)
  <2>1. /\ ui' = [u EXCEPT !.inbox = sends', !.answer = sends'] /\ UiTyped(u, sends)
        /\ u.at = "draw" /\ u.todo = Tail(ui.todo)
    BY <1>1, DoneTyped
  <2> DEFINE t == Tail(ui.todo)
  <2>2. u.todo = t
    BY <2>1
  <2> HIDE DEF u, t
  <2>3. ui'.at = "draw" /\ ui'.todo = t /\ ui'.answer = sends'
    BY <2>1, <2>2 DEF UiTyped
  <2> QED BY <2>3 DEF t
<1>4. view'.window = view.window
  BY <1>1 DEF SurfaceTyped, DrawingTyped, ViewTyped
<1>5. /\ Pressed(Tail(ui.todo), view.window) /\ ~Twice(Tail(ui.todo)) /\ view.window = None
  <2>1. ui.todo \in Seq(Requests)
    BY DEF SurfaceTyped, DrawingTyped, UiTyped
  <2>2. Fits(Head(ui.todo), view.window)
    BY <1>1, <2>1, RestPressed DEF OursNow, Pending
  <2> QED BY <1>1, <2>1, <2>2, RestPressed DEF OursNow, Pending, Fits
<1>6. \A w \in Turns : /\ w # sends' => turn'[w] = turn[w]
                       /\ turn'[sends'].chan = <<>> /\ turn'[sends'].up = <<>>
  <2> DEFINE whole == Head(ui.todo).whole
  <2>1. turn' = [turn EXCEPT ![sends'] = [NewTurn EXCEPT !.at = "new", !.whole = whole]]
    BY <1>1, <1>2 DEF SurfaceTyped, TurnsTyped
  <2> HIDE DEF whole
  <2> QED BY <1>2, <2>1 DEF SurfaceTyped, TurnsTyped, NewTurn
<1>7. Unseen'
  BY <1>2, <1>3, <1>6, EmptyChannel DEF Unseen
<1>8. OnScreen'
  BY <1>4, <1>5 DEF OnScreen
<1>9. Pending'
  BY <1>3, <1>4, <1>5 DEF Pending
<1>10. Underway'
  <2>1. ASSUME NEW w \in Turns PROVE OwnAnswers(turn'[w], w)
    BY <1>6, <2>1 DEF OursNow, Underway, OwnAnswers
  <2> QED BY <2>1 DEF Underway
<1> QED BY <1>1, <1>7, <1>8, <1>9, <1>10 DEF OursNow, ActedOurs

LEMMA ApproveOurs ==
    ASSUME SurfaceTyped, OursNow, Approve
    PROVE  OursNow'
<1>1. ui.at = "draw" /\ ui.todo # <<>> /\ Head(ui.todo).k = "approve" /\ UNCHANGED <<turn, acted>>
  BY DEF Approve, Doing, daemonVars
<1>2. /\ ~Twice(Tail(ui.todo)) /\ Fits(Head(ui.todo), view.window) /\ Pressed(Tail(ui.todo), None)
  <2>1. ui.todo \in Seq(Requests)
    BY DEF SurfaceTyped, DrawingTyped, UiTyped
  <2> QED BY <1>1, <2>1, RestPressed DEF OursNow, Pending
<1>3. Asking /\ view.window # None /\ Head(ui.todo).window = Asked
  BY <1>1, <1>2 DEF Fits, OursNow, OnScreen
<1>4. ui.answer # 0
  BY <1>3 DEF Asking
<1>5. /\ ui'.at = "give" /\ ui'.todo = Tail(ui.todo) /\ ui'.gave = <<Head(ui.todo)>>
      /\ ui'.answer = ui.answer /\ view'.window = None
  <2> DEFINE u == Done(ui)
             t == Tail(ui.todo)
             g == <<Head(ui.todo)>>
  <2>1. UiTyped(u, sends) /\ u.todo = t /\ u.answer = ui.answer
    BY <1>1, DoneTyped
  <2>2. /\ ui' = [u EXCEPT !.at = "give", !.gave = g]
        /\ view' = [view EXCEPT !.window = None, !.band = "thinking"]
    BY <1>4 DEF Approve
  <2> HIDE DEF u, t, g
  <2>3. ui'.at = "give" /\ ui'.todo = t /\ ui'.gave = g /\ ui'.answer = ui.answer
    BY <2>1, <2>2 DEF UiTyped
  <2>4. view'.window = None
    BY <2>2 DEF SurfaceTyped, DrawingTyped, ViewTyped
  <2> QED BY <2>3, <2>4 DEF t, g
<1>6. Unseen'
  BY <1>1, <1>3, <1>5 DEF OursNow, Unseen
<1>7. OnScreen'
  BY <1>5 DEF OnScreen
<1>8. Pending'
  <2>1. Asking' /\ Asked' = Asked
    BY <1>1, <1>3, <1>5 DEF Asking, Asked
  <2>2. ui'.gave # <<>> /\ Head(ui'.gave) = Head(ui.todo)
    BY <1>5
  <2> QED BY <1>2, <1>3, <1>5, <2>1, <2>2 DEF Pending
<1> QED BY <1>1, <1>6, <1>7, <1>8 DEF OursNow, Underway, ActedOurs

(* The other steps of the drawing thread touch neither window nor thread. *)
LEMMA PortOurs ==
    ASSUME SurfaceTyped, OursNow, Given \/ Select \/ Runs \/ Reply \/ CallTimesOut
    PROVE  OursNow'
<1>1. ~Given
  BY DEF Given, OursNow, Pending, Asking
<1>2. UNCHANGED acted
  BY <1>1 DEF Select, Runs, Reply, CallTimesOut, daemonVars
<1>3. /\ UNCHANGED turn /\ view'.window = view.window /\ ui'.answer = ui.answer
      /\ ui'.at \in {"draw", "wait"} /\ ui.at \in {"draw", "wait"}
      /\ ui'.todo = ui.todo \/ (ui.todo # <<>> /\ ui'.todo = Tail(ui.todo))
  BY <1>1, PortCallTyped, WaitTyped DEF Select, Runs, Doing
<1>4. Unseen' /\ OnScreen'
  BY <1>3 DEF OursNow, Unseen, OnScreen, Asking, Asked
<1>5. Pending'
  <2>1. ui.todo \in Seq(Requests) /\ Pressed(ui.todo, view.window) /\ ~Twice(ui.todo)
    BY DEF SurfaceTyped, DrawingTyped, UiTyped, OursNow, Pending
  <2>2. Pressed(ui'.todo, view'.window) /\ ~Twice(ui'.todo)
    BY <1>3, <2>1, RestPressed
  <2> QED BY <1>3, <2>2 DEF Pending
<1> QED BY <1>2, <1>3, <1>4, <1>5 DEF OursNow, Underway, ActedOurs

(* A step of a thread that shows no question it does not wait with. *)
LEMMA ThreadOurs ==
    ASSUME OursNow, UNCHANGED <<ui, view>>, NEW w \in Turns, NEW t, ui.answer \in Turns \cup {0},
           \A x \in Turns : turn'[x] = IF x = w THEN t ELSE turn[x],
           turn[w].at = "ask" => ui.answer # w,
           QuestionsIn(turn[w].chan) = {} =>
                \A i \in QuestionsIn(t.chan) :
                    t.at = "ask" /\ t.chan[i].d = t.q /\ QuestionsIn(t.chan) = {i}
    PROVE  Unseen' /\ OnScreen' /\ Pending'
<1>1. CASE ui.answer # w
  <2>1. ui.answer # 0 => turn'[ui.answer] = turn[ui.answer]
    BY <1>1
  <2> QED BY <2>1 DEF OursNow, Unseen, OnScreen, Pending, Asking, Asked
<1>2. CASE ui.answer = w
  <2>1. turn'[w] = t
    OBVIOUS
  <2>2. ~Asking
    BY <1>2 DEF Asking
  <2>3. view.window = None /\ ui.at # "give"
    BY <2>2 DEF OursNow, OnScreen, Pending
  <2>4. QuestionsIn(turn[w].chan) = {}
    <3> SUFFICES ASSUME NEW i \in QuestionsIn(turn[w].chan) PROVE FALSE
      OBVIOUS
    <3>1. w # 0 => turn[w].at = "ask"
      BY <1>2 DEF OursNow, Unseen
    <3> QED BY <1>2, <3>1, Numbered
  <2>5. Unseen'
    BY <1>2, <2>1, <2>3, <2>4 DEF Unseen
  <2>6. OnScreen' /\ Pending'
    BY <2>3 DEF OursNow, OnScreen, Pending
  <2> QED BY <2>5, <2>6
<1> QED BY <1>1, <1>2

(* The daemon's side, and what it does not show. *)
LEMMA AlikeOurs ==
    ASSUME OursNow, UNCHANGED <<ui, view>>, ui.answer \in Turns \cup {0},
           \A x \in Turns : turn'[x].at = turn[x].at /\ turn'[x].chan = turn[x].chan /\ turn'[x].q = turn[x].q
    PROVE  Unseen' /\ OnScreen' /\ Pending'
<1>1. ui.answer # 0 => /\ turn'[ui.answer].at = turn[ui.answer].at
                       /\ turn'[ui.answer].chan = turn[ui.answer].chan
                       /\ turn'[ui.answer].q = turn[ui.answer].q
  OBVIOUS
<1>2. Unseen'
  BY <1>1 DEF OursNow, Unseen
<1>3. OnScreen' /\ Pending'
  BY <1>1 DEF OursNow, OnScreen, Pending, Asking, Asked
<1> QED BY <1>2, <1>3

LEMMA AnswerInTurns == SurfaceTyped => ui.answer \in Turns \cup {0}
BY SurfaceAssumption, Numbered DEF SurfaceTyped, DrawingTyped, UiTyped

(* The answers that one thread has given. *)
LEMMA GivenOwn ==
    ASSUME Underway, NEW w \in Turns, NEW t,
           \A x \in Turns : turn'[x] = IF x = w THEN t ELSE turn[x], OwnAnswers(t, w)
    PROVE  Underway'
BY DEF Underway, OwnAnswers

(* A question that was just passed on is the only one of a channel that had none. *)
LEMMA OnlyQuestion ==
    ASSUME NEW chan \in Seq(Messages), NEW e \in Messages, QuestionsIn(chan) = {},
           NEW i \in QuestionsIn(Append(chan, e))
    PROVE  /\ Raises(e) /\ Append(chan, e)[i] = e /\ QuestionsIn(Append(chan, e)) = {i}
<1> DEFINE n == Len(chan) + 1
<1>1. \A j \in DOMAIN Append(chan, e) : \/ j = n /\ Append(chan, e)[j] = e
                                        \/ j \in DOMAIN chan /\ Append(chan, e)[j] = chan[j]
  OBVIOUS
<1> HIDE DEF n, Messages
<1>2. \A j \in QuestionsIn(Append(chan, e)) : j = n /\ Append(chan, e)[j] = e /\ Raises(e)
  BY <1>1 DEF QuestionsIn
<1> QED BY <1>2

(* A message's thread. *)
LEMMA WorkingStep ==
    ASSUME SurfaceTyped, NEW w \in Turns, Connect(w) \/ ReadLine(w) \/ ReadEnd(w) \/ ReadTimesOut(w)
    PROVE  /\ SurfaceTyped' /\ UNCHANGED <<ui, view, acted, doubled>>
           /\ OursNow => OursNow'
<1> DEFINE s == turn[w]
<1>1. s \in Threads /\ Carries(s, w) /\ s.at \in {"new", "read"} /\ UNCHANGED ui
  BY Counted DEF Connect, ReadLine, ReadEnd, ReadTimesOut
<1>2. PICK t \in Threads :
          /\ Carries(t, w) /\ Worker(w, t) /\ t.up = s.up
          /\ line' \in {line, Append(line, Entry(w, "ask"))}
          /\ QuestionsIn(s.chan) = {} =>
                \A i \in QuestionsIn(t.chan) :
                    t.at = "ask" /\ t.chan[i].d = t.q /\ QuestionsIn(t.chan) = {i}
  <2> HIDE DEF Worker
  <2>1. ASSUME Worker(w, Failed(s)), line' = line
        PROVE  /\ Failed(s) \in Threads /\ Carries(Failed(s), w) /\ Failed(s).up = s.up
               /\ QuestionsIn(s.chan) = {} => QuestionsIn(Failed(s).chan) = {}
    BY <1>1, FailedTyped
  <2>2. ASSUME NEW a \in {"read", "ended"}
        PROVE  LET t == [s EXCEPT !.at = a]
               IN  t \in Threads /\ Carries(t, w) /\ t.up = s.up /\ t.chan = s.chan
    <3> DEFINE t == [s EXCEPT !.at = a]
    <3>1. t \in Threads
      BY <1>1, ThreadWith
    <3>2. t.up = s.up /\ t.chan = s.chan /\ t.down = s.down
      BY <1>1 DEF Threads
    <3> QED BY <1>1, <3>1, <3>2 DEF Carries
  <2>3. CASE Connect(w)
    <3>1. \/ line' = Append(line, Entry(w, "ask")) /\ Worker(w, [s EXCEPT !.at = "read"])
          \/ line' = line /\ Worker(w, Failed(s))
      BY <2>3 DEF Connect
    <3> HIDE DEF s
    <3> QED BY <2>1, <2>2, <3>1
  <2>4. CASE ReadEnd(w)
    <3>1. line' = line /\ Worker(w, [s EXCEPT !.at = "ended"])
      BY <2>4 DEF ReadEnd
    <3> HIDE DEF s
    <3> QED BY <2>2, <3>1
  <2>5. CASE ReadTimesOut(w)
    <3>1. line' = line /\ Worker(w, Failed(s))
      BY <2>5 DEF ReadTimesOut
    <3> HIDE DEF s
    <3> QED BY <2>1, <3>1
  <2>6. CASE ReadLine(w)
    <3> DEFINE e == Head(s.down)
               p == [Emit(s, e) EXCEPT !.down = Tail(@)]
               t == IF e.k = "approval" /\ e.d # 0 THEN [p EXCEPT !.at = "ask", !.q = e.d]
                    ELSE IF e.k \in {"done", "error"} THEN [p EXCEPT !.end = e.k] ELSE p
    <3>1. s.at = "read" /\ s.down # <<>> /\ line' = line /\ Worker(w, t)
      BY <2>6 DEF ReadLine
    <3>2. /\ t \in Threads /\ Carries(t, w) /\ t.up = s.up /\ t.chan = Append(s.chan, e)
          /\ e \in Messages /\ (Raises(e) => t.at = "ask" /\ t.q = e.d)
      BY <1>1, <3>1, ReadLineTyped
    <3>3. s.chan \in Seq(Messages)
      BY <1>1 DEF Threads
    <3> HIDE DEF s, e, t
    <3>4. ASSUME QuestionsIn(s.chan) = {}, NEW i \in QuestionsIn(t.chan)
          PROVE  t.at = "ask" /\ t.chan[i].d = t.q /\ QuestionsIn(t.chan) = {i}
      <4> DEFINE chan == Append(s.chan, e)
      <4>1. i \in QuestionsIn(chan) /\ t.chan = chan
        BY <3>2, <3>4
      <4>2. Raises(e) /\ chan[i] = e /\ QuestionsIn(chan) = {i}
        BY <3>2, <3>3, <3>4, <4>1, OnlyQuestion
      <4> HIDE DEF chan
      <4> QED BY <3>2, <4>1, <4>2
    <3> QED BY <3>1, <3>2, <3>4
  <2> QED BY <2>3, <2>4, <2>5, <2>6
<1>3. /\ SurfaceTyped' /\ UNCHANGED <<view, acted, doubled>>
      /\ \A x \in Turns : turn'[x] = IF x = w THEN t ELSE turn[x]
  BY <1>1, <1>2, WorkerTyped
<1>4. ASSUME OursNow PROVE OursNow'
  <2>1. Unseen' /\ OnScreen' /\ Pending'
    BY <1>1, <1>2, <1>3, <1>4, ThreadOurs, AnswerInTurns
  <2>2. OwnAnswers(t, w)
    BY <1>2, <1>4 DEF OursNow, Underway, OwnAnswers
  <2>3. Underway'
    BY <1>3, <1>4, <2>2, GivenOwn DEF OursNow
  <2> QED BY <1>3, <1>4, <2>1, <2>3 DEF OursNow, ActedOurs
<1> QED BY <1>1, <1>3, <1>4


(* The answer that is handed over is the one that was pressed for its question. *)
LEMMA AnswerStep ==
    ASSUME SurfaceTyped, NEW w \in Turns, Answer(w)
    PROVE  /\ SurfaceTyped' /\ UNCHANGED <<view, acted, doubled>>
           /\ OursNow => OursNow'
<1> DEFINE s == turn[w]
<1>1. s \in Threads /\ Carries(s, w) /\ s.at = "ask" /\ UNCHANGED line /\ w # 0
  BY Counted, Numbered DEF Answer
<1>2. CASE ui.answer = w /\ ui.at = "give"
  <2> DEFINE a == Head(ui.gave)
  <2>1. ui' = [ui EXCEPT !.at = "draw", !.gave = <<>>]
    BY <1>2 DEF Answer, Decide
  <2>2. PICK t \in Replied(s, a) : Worker(w, t)
    BY <1>2 DEF Answer, Decide
  <2>3. a \in Approvals
    <3>1. ui.gave \in Seq(Approvals) /\ ui.gave # <<>>
      BY <1>2 DEF SurfaceTyped, DrawingTyped, UiTyped
    <3> HIDE DEF Approvals
    <3> QED BY <3>1
  <2> HIDE DEF a
  <2>4. /\ t \in Threads /\ Carries(t, w) /\ t.at \in {"read", "ended"}
        /\ t.up \in {s.up, Append(s.up, [d |-> s.q, a |-> a])}
        /\ QuestionsIn(s.chan) = {} => QuestionsIn(t.chan) = {}
    BY <1>1, <2>2, <2>3, RepliedTyped
  <2>5. /\ SurfaceTyped' /\ UNCHANGED <<view, acted, doubled, sends>>
        /\ \A x \in Turns : turn'[x] = IF x = w THEN t ELSE turn[x]
        /\ ui'.todo = ui.todo /\ ui'.answer = ui.answer
    BY <1>1, <2>1, <2>2, <2>4, WorkerTyped
  <2>6. ui'.at = "draw"
    BY <2>1 DEF SurfaceTyped, DrawingTyped, UiTyped
  <2>7. ASSUME OursNow PROVE OursNow'
    <3>1. view.window = None /\ a.window = <<w, s.q>> /\ QuestionsIn(s.chan) = {}
      <4>1. view.window = None /\ a.window = <<w, s.q>>
        BY <1>2, <2>7 DEF OursNow, OnScreen, Pending, Asked, a
      <4>2. ASSUME NEW i \in QuestionsIn(s.chan) PROVE FALSE
        BY <1>1, <1>2, <2>7, <4>2 DEF OursNow, Unseen
      <4> QED BY <4>1, <4>2
    <3>2. Unseen'
      BY <1>2, <2>4, <2>5, <3>1 DEF Unseen
    <3>3. OnScreen'
      BY <2>5, <3>1 DEF OnScreen
    <3>4. Pending'
      BY <2>5, <2>6, <2>7 DEF OursNow, Pending
    <3>5. OwnAnswers(t, w)
      <4>1. OwnAnswers(s, w) /\ s.up \in Seq([d : Nat, a : Approvals])
        BY <1>1, <2>7 DEF OursNow, Underway, Threads
      <4> DEFINE r == [d |-> s.q, a |-> a]
      <4>2. r.d = s.q /\ r.a = a /\ r \in [d : Nat, a : Approvals]
        BY <1>1, <2>3 DEF Threads
      <4> HIDE DEF r
      <4>3. \A i \in DOMAIN Append(s.up, r) : \/ Append(s.up, r)[i] = r
                                              \/ i \in DOMAIN s.up /\ Append(s.up, r)[i] = s.up[i]
        BY <4>1, <4>2
      <4>4. t.up \in {s.up, Append(s.up, r)}
        BY <2>4 DEF r
      <4> QED BY <3>1, <4>1, <4>2, <4>3, <4>4 DEF OwnAnswers
    <3>6. Underway'
      BY <2>5, <2>7, <3>5, GivenOwn DEF OursNow
    <3> QED BY <2>5, <2>7, <3>2, <3>3, <3>4, <3>6 DEF OursNow, ActedOurs
  <2> QED BY <2>5, <2>7
<1>3. CASE ui.answer # w
  <2>1. UNCHANGED ui
    BY <1>3 DEF Answer, Decide
  <2>2. PICK t \in Replied(s, Denied) : Worker(w, t)
    BY <1>3 DEF Answer, Decide
  <2>3. Denied \in Approvals /\ ~Denied.granted
    BY DeniedTyped
  <2>4. /\ t \in Threads /\ Carries(t, w) /\ t.at \in {"read", "ended"}
        /\ t.up \in {s.up, Append(s.up, [d |-> s.q, a |-> Denied])}
        /\ QuestionsIn(s.chan) = {} => QuestionsIn(t.chan) = {}
    BY <1>1, <2>2, <2>3, RepliedTyped
  <2>5. /\ SurfaceTyped' /\ UNCHANGED <<view, acted, doubled, sends>>
        /\ \A x \in Turns : turn'[x] = IF x = w THEN t ELSE turn[x]
    BY <1>1, <2>1, <2>2, <2>4, WorkerTyped
  <2>6. ASSUME OursNow PROVE OursNow'
    <3>1. Unseen' /\ OnScreen' /\ Pending'
      BY <1>3, <2>1, <2>4, <2>5, <2>6, ThreadOurs, AnswerInTurns
    <3>2. OwnAnswers(t, w)
      <4>1. OwnAnswers(s, w) /\ s.up \in Seq([d : Nat, a : Approvals])
        BY <1>1, <2>6 DEF OursNow, Underway, Threads
      <4> DEFINE r == [d |-> s.q, a |-> Denied]
      <4>2. ~r.a.granted /\ r \in [d : Nat, a : Approvals]
        BY <1>1, <2>3 DEF Threads
      <4> HIDE DEF r
      <4>3. \A i \in DOMAIN Append(s.up, r) : \/ Append(s.up, r)[i] = r
                                              \/ i \in DOMAIN s.up /\ Append(s.up, r)[i] = s.up[i]
        BY <4>1, <4>2
      <4>4. t.up \in {s.up, Append(s.up, r)}
        BY <2>4 DEF r
      <4> QED BY <4>1, <4>2, <4>3, <4>4 DEF OwnAnswers
    <3>3. Underway'
      BY <2>5, <2>6, <3>2, GivenOwn DEF OursNow
    <3> QED BY <2>5, <2>6, <3>1, <3>3 DEF OursNow, ActedOurs
  <2> QED BY <2>5, <2>6
<1> QED BY <1>2, <1>3 DEF Answer, Decide

(* Two put behind a sequence are put behind it one by one. *)
LEMMA TwoAppended ==
    ASSUME NEW S, NEW s \in Seq(S), NEW a \in S, NEW b \in S
    PROVE  s \o <<a, b>> = Append(Append(s, a), b)
<1> DEFINE c == s \o <<a, b>>
           d == Append(Append(s, a), b)
<1>1. c \in Seq(S) /\ d \in Seq(S) /\ Len(c) = Len(s) + 2 /\ Len(d) = Len(s) + 2
  OBVIOUS
<1>2. \A i \in 1..Len(s) + 2 : c[i] = d[i]
  <2>1. \A i \in 1..Len(s) : c[i] = s[i] /\ d[i] = s[i]
    OBVIOUS
  <2>2. c[Len(s) + 1] = a /\ c[Len(s) + 2] = b /\ d[Len(s) + 1] = a /\ d[Len(s) + 2] = b
    OBVIOUS
  <2>3. Len(s) \in Nat
    OBVIOUS
  <2> HIDE DEF c, d
  <2> QED BY <2>1, <2>2, <2>3
<1> HIDE DEF c, d
<1>3. c = d
  BY <1>1, <1>2
<1> QED BY <1>3 DEF c, d

(* The daemon asks, reads an answer, ends a turn, dies. *)
LEMMA PromptStep ==
    ASSUME SurfaceTyped, Prompt
    PROVE  SurfaceTyped' /\ UNCHANGED doubled /\ (OursNow => OursNow')
<1> DEFINE w == daemon.turn
           d == daemon.asked + 1
           e == [k |-> "approval", w |-> w, d |-> 0]
           q == [k |-> "approval", w |-> w, d |-> d]
           t == [turn[w] EXCEPT !.down = Append(@, e)]
           r == [t EXCEPT !.down = Append(@, q)]
<1>1. w \in Turns /\ d \in Nat /\ daemon.at # "idle"
  BY Counted DEF Prompt, SurfaceTyped, DaemonTyped
<1>2. e \in Messages /\ q \in Messages /\ e.w = w /\ q.w = w
  BY <1>1, Counted DEF Messages
<1>3. turn[w] \in Threads /\ Carries(turn[w], w)
  BY <1>1, Counted
<1>4. turn' = IF Gone(w) THEN turn ELSE [turn EXCEPT ![w] = r]
  <2>1. turn[w].down \in Seq(Messages)
    BY <1>3 DEF Threads
  <2>2. turn[w].down \o <<e, q>> = Append(Append(turn[w].down, e), q)
    <3> DEFINE down == turn[w].down
    <3>1. down \in Seq(Messages)
      BY <2>1
    <3> HIDE DEF e, q, down
    <3>2. down \o <<e, q>> = Append(Append(down, e), q)
      BY ONLY <1>2, <3>1, TwoAppended
    <3> QED BY <3>2 DEF down
  <2>3. turn' = IF Gone(w) THEN turn ELSE [turn EXCEPT ![w].down = @ \o <<e, q>>]
    BY DEF Prompt
  <2>4. r = [turn[w] EXCEPT !.down = Append(Append(@, e), q)]
    <3> HIDE DEF e, q
    <3> QED BY <1>3 DEF Threads
  <2> HIDE DEF e, q, r
  <2> QED BY <1>1, <2>2, <2>3, <2>4
<1> HIDE DEF e, q
<1>5. /\ t \in Threads /\ Carries(t, w) /\ t.at = turn[w].at /\ t.chan = turn[w].chan
      /\ t.q = turn[w].q /\ t.up = turn[w].up
  BY <1>2, <1>3, SentDown
<1> HIDE DEF t
<1>6. /\ r \in Threads /\ Carries(r, w) /\ r.at = turn[w].at /\ r.chan = turn[w].chan
      /\ r.q = turn[w].q /\ r.up = turn[w].up
  BY <1>2, <1>5, SentDown
<1> HIDE DEF r
<1>7. /\ UNCHANGED <<ui, view, call, line, sends, acted, doubled>>
      /\ daemon' = [daemon EXCEPT !.asked = d, !.at = IF Gone(w) THEN "run" ELSE "prompt"]
  BY DEF Prompt, Surfaces, person
<1>8. DOMAIN daemon' = DOMAIN daemon /\ daemon'.turn = daemon.turn /\ daemon'.asked \in Nat
  BY <1>1, <1>7 DEF SurfaceTyped, DaemonTyped
<1>9. /\ SurfaceTyped'
      /\ \A x \in Turns : turn'[x] \in {turn[x], r} /\ (x # w => turn'[x] = turn[x])
  BY <1>1, <1>4, <1>6, <1>7, <1>8, DaemonStep
<1>10. \A x \in Turns : /\ turn'[x].at = turn[x].at /\ turn'[x].chan = turn[x].chan
                        /\ turn'[x].q = turn[x].q /\ turn'[x].up = turn[x].up
  BY <1>6, <1>9
<1>11. ASSUME OursNow PROVE OursNow'
  <2>1. Unseen' /\ OnScreen' /\ Pending'
    BY <1>7, <1>10, <1>11, AlikeOurs, AnswerInTurns
  <2>2. Underway'
    BY <1>10, <1>11 DEF OursNow, Underway, OwnAnswers
  <2> QED BY <1>7, <1>11, <2>1, <2>2 DEF OursNow, ActedOurs
<1> QED BY <1>7, <1>9, <1>11

(* The daemon acts on an answer only when it names the question that waits. *)
LEMMA ReadAnswerStep ==
    ASSUME SurfaceTyped, ReadAnswer
    PROVE  SurfaceTyped' /\ UNCHANGED doubled /\ (OursNow => OursNow')
<1> DEFINE w == daemon.turn
           s == turn[w]
           r == Head(s.up)
           t == [s EXCEPT !.up = Tail(@)]
<1>1. w \in Turns /\ daemon.at # "idle" /\ daemon.asked \in Nat
  BY Counted DEF ReadAnswer, SurfaceTyped, DaemonTyped
<1>2. s \in Threads /\ Carries(s, w) /\ s.up \in Seq([d : Nat, a : Approvals])
  <2>1. s \in Threads /\ Carries(s, w)
    BY <1>1, Counted
  <2> QED BY <2>1 DEF Threads
<1>3. /\ UNCHANGED <<ui, view, call, line, sends, doubled>>
      /\ daemon' = [daemon EXCEPT !.at = "run"]
  BY DEF ReadAnswer, Surfaces, person
<1>4. DOMAIN daemon' = DOMAIN daemon /\ daemon'.turn = daemon.turn /\ daemon'.asked \in Nat
  BY <1>1, <1>3 DEF SurfaceTyped, DaemonTyped
<1>5. CASE s.up # <<>>
  <2>1. turn' = [turn EXCEPT ![w] = t]
    BY <1>5 DEF ReadAnswer
  <2>2. acted' = IF r.a.granted /\ r.d = daemon.asked THEN acted \cup {[w |-> w, d |-> r.d, a |-> r.a]}
                 ELSE acted
    BY <1>5 DEF ReadAnswer
  <2>3. t \in Threads /\ t.at = s.at /\ t.chan = s.chan /\ t.q = s.q /\ t.down = s.down /\ t.up = Tail(s.up)
    <3>1. t \in Threads
      BY <1>2, <1>5, ThreadWith
    <3> DEFINE u == Tail(s.up)
    <3>2. t = [s EXCEPT !.up = u]
      OBVIOUS
    <3> HIDE DEF u, t
    <3>3. t.at = s.at /\ t.chan = s.chan /\ t.q = s.q /\ t.down = s.down /\ t.up = u
      BY <1>2, <3>2 DEF Threads
    <3> QED BY <3>1, <3>3 DEF u
  <2> HIDE DEF t
  <2>4. Carries(t, w)
    BY <1>2, <2>3 DEF Carries
  <2>5. /\ SurfaceTyped'
        /\ \A x \in Turns : turn'[x] \in {turn[x], t} /\ (x # w => turn'[x] = turn[x])
    BY <1>1, <1>3, <1>4, <2>1, <2>3, <2>4, DaemonStep
  <2>6. ASSUME OursNow PROVE OursNow'
    <3>1. \A x \in Turns : /\ turn'[x].at = turn[x].at /\ turn'[x].chan = turn[x].chan
                           /\ turn'[x].q = turn[x].q
      BY <2>3, <2>5
    <3>2. Unseen' /\ OnScreen' /\ Pending'
      BY <1>3, <2>6, <3>1, AlikeOurs, AnswerInTurns
    <3>3. OwnAnswers(s, w)
      BY <1>1, <2>6 DEF OursNow, Underway
    <3>4. OwnAnswers(t, w)
      <4>1. \A i \in DOMAIN Tail(s.up) : i + 1 \in DOMAIN s.up /\ Tail(s.up)[i] = s.up[i + 1]
        BY <1>2, <1>5
      <4> HIDE DEF s
      <4> QED BY <2>3, <3>3, <4>1 DEF OwnAnswers
    <3>5. Underway'
      BY <2>3, <2>5, <2>6, <3>4 DEF OursNow, Underway, OwnAnswers
    <3>6. r.a.granted => r.a.window = <<w, r.d>>
      <4>1. 1 \in DOMAIN s.up /\ r = s.up[1]
        BY <1>2, <1>5
      <4> HIDE DEF s, r
      <4> QED BY <3>3, <4>1 DEF OwnAnswers
    <3>7. ActedOurs'
      <4> DEFINE x == [w |-> w, d |-> r.d, a |-> r.a]
      <4>1. x.a = r.a /\ x.w = w /\ x.d = r.d
        OBVIOUS
      <4>2. acted' = acted \/ (acted' = acted \cup {x} /\ r.a.granted)
        BY <2>2
      <4> HIDE DEF x, r
      <4> QED BY <2>6, <3>6, <4>1, <4>2 DEF OursNow, ActedOurs
    <3> QED BY <3>2, <3>5, <3>7 DEF OursNow
  <2> QED BY <1>3, <2>5, <2>6
<1>6. CASE s.up = <<>>
  <2>1. UNCHANGED <<turn, acted>>
    BY <1>6 DEF ReadAnswer
  <2>2. SurfaceTyped'
    BY <1>1, <1>2, <1>3, <1>4, <2>1, DaemonStep
  <2>3. ASSUME OursNow PROVE OursNow'
    <3>1. Unseen' /\ OnScreen' /\ Pending'
      BY <1>3, <2>1, <2>3, AlikeOurs, AnswerInTurns
    <3> QED BY <2>1, <2>3, <3>1 DEF OursNow, Underway, ActedOurs
  <2> QED BY <1>3, <2>2, <2>3
<1> QED BY <1>5, <1>6

LEMMA FinishStep ==
    ASSUME SurfaceTyped, Finish
    PROVE  SurfaceTyped' /\ UNCHANGED doubled /\ (OursNow => OursNow')
<1>1. PICK k \in {"done", "error"} :
          turn' = IF Gone(daemon.turn) THEN turn
                  ELSE [turn EXCEPT ![daemon.turn].down = Append(@, [k |-> k, w |-> daemon.turn, d |-> 0]),
                                    ![daemon.turn].shut = TRUE]
  BY DEF Finish
<1> DEFINE w == daemon.turn
           e == [k |-> k, w |-> w, d |-> 0]
           t == [turn[w] EXCEPT !.down = Append(@, e)]
           r == [t EXCEPT !.shut = TRUE]
<1>2. w \in Turns /\ daemon.at # "idle" /\ daemon.asked \in Nat
  BY Counted DEF Finish, SurfaceTyped, DaemonTyped
<1>3. e \in Messages /\ e.w = w
  BY <1>2, Counted DEF Messages
<1>4. turn[w] \in Threads /\ Carries(turn[w], w)
  BY <1>2, Counted
<1>5. turn' = turn \/ turn' = [turn EXCEPT ![w] = r]
  <2> HIDE DEF e
  <2>1. turn' = turn \/ turn' = [turn EXCEPT ![w].down = Append(@, e), ![w].shut = TRUE]
    BY <1>1 DEF e
  <2> QED BY <1>2, <2>1 DEF SurfaceTyped, TurnsTyped
<1> HIDE DEF e
<1>6. /\ t \in Threads /\ Carries(t, w) /\ t.at = turn[w].at /\ t.chan = turn[w].chan
      /\ t.q = turn[w].q /\ t.up = turn[w].up
  BY <1>3, <1>4, SentDown
<1> HIDE DEF t
<1>7. r \in Threads
  BY <1>6, ThreadWith
<1>8. /\ r.at = turn[w].at /\ r.chan = turn[w].chan /\ r.q = turn[w].q /\ r.up = turn[w].up
      /\ r.down = t.down
  BY <1>6 DEF Threads
<1>9. Carries(r, w)
  BY <1>6, <1>8 DEF Carries
<1> HIDE DEF r
<1>10. /\ UNCHANGED <<ui, view, call, line, sends, acted, doubled>>
       /\ daemon' = [daemon EXCEPT !.at = "idle"]
  BY DEF Finish, Surfaces, person
<1>11. DOMAIN daemon' = DOMAIN daemon /\ daemon'.turn = daemon.turn /\ daemon'.asked \in Nat
  BY <1>2, <1>10 DEF SurfaceTyped, DaemonTyped
<1>12. /\ SurfaceTyped'
       /\ \A x \in Turns : turn'[x] \in {turn[x], r} /\ (x # w => turn'[x] = turn[x])
  BY <1>2, <1>5, <1>7, <1>9, <1>10, <1>11, DaemonStep
<1>13. \A x \in Turns : /\ turn'[x].at = turn[x].at /\ turn'[x].chan = turn[x].chan
                        /\ turn'[x].q = turn[x].q /\ turn'[x].up = turn[x].up
  BY <1>8, <1>12
<1>14. ASSUME OursNow PROVE OursNow'
  <2>1. Unseen' /\ OnScreen' /\ Pending'
    BY <1>10, <1>13, <1>14, AlikeOurs, AnswerInTurns
  <2>2. Underway'
    BY <1>13, <1>14 DEF OursNow, Underway, OwnAnswers
  <2> QED BY <1>10, <1>14, <2>1, <2>2 DEF OursNow, ActedOurs
<1> QED BY <1>10, <1>12, <1>14

LEMMA DiesStep ==
    ASSUME SurfaceTyped, DaemonDies
    PROVE  SurfaceTyped' /\ UNCHANGED doubled /\ (OursNow => OursNow')
<1>1. /\ UNCHANGED <<ui, view, sends, acted, doubled>> /\ line' = <<>>
      /\ daemon' = [daemon EXCEPT !.up = FALSE, !.at = "idle"]
      /\ turn' = [w \in Turns |-> IF turn[w].at \in {"none", "new"} THEN turn[w]
                                  ELSE [turn[w] EXCEPT !.shut = TRUE]]
      /\ call' \in {call, [call EXCEPT !.at = "shut"]}
  BY DEF DaemonDies, Surfaces, person
<1>2. ASSUME NEW w \in Turns
      PROVE  /\ turn'[w] \in Threads /\ Carries(turn'[w], w) /\ (w > sends => turn'[w] = NewTurn)
             /\ turn'[w].at = turn[w].at /\ turn'[w].chan = turn[w].chan
             /\ turn'[w].q = turn[w].q /\ turn'[w].up = turn[w].up
  <2>1. turn[w] \in Threads /\ Carries(turn[w], w) /\ (w > sends => turn[w] = NewTurn)
    BY DEF SurfaceTyped, TurnsTyped
  <2>2. CASE turn'[w] = turn[w]
    BY <2>1, <2>2
  <2>3. CASE turn'[w] # turn[w]
    <3>1. turn'[w] = [turn[w] EXCEPT !.shut = TRUE] /\ turn[w].at # "none"
      BY <1>1, <2>3
    <3>2. turn'[w] \in Threads
      BY <2>1, <3>1, ThreadWith
    <3>3. /\ turn'[w].at = turn[w].at /\ turn'[w].chan = turn[w].chan
          /\ turn'[w].q = turn[w].q /\ turn'[w].up = turn[w].up /\ turn'[w].down = turn[w].down
      BY <2>1, <3>1 DEF Threads
    <3>4. Carries(turn'[w], w) /\ ~ (w > sends)
      BY <2>1, <3>1, <3>3 DEF Carries, NewTurn
    <3> QED BY <3>2, <3>3, <3>4
  <2> QED BY <2>2, <2>3
<1>3. TurnsTyped'
  BY <1>1, <1>2 DEF TurnsTyped
<1>4. LineTyped' /\ CallTyped' /\ DaemonTyped' /\ DrawingTyped'
  <2>1. LineTyped'
    BY <1>1 DEF LineTyped
  <2>2. CallTyped'
    BY <1>1 DEF SurfaceTyped, CallTyped
  <2>3. DaemonTyped'
    BY <1>1 DEF SurfaceTyped, DaemonTyped
  <2> QED BY <1>1, <2>1, <2>2, <2>3, PartsKept
<1>5. ASSUME OursNow PROVE OursNow'
  <2>1. Unseen' /\ OnScreen' /\ Pending'
    BY <1>1, <1>2, <1>5, AlikeOurs, AnswerInTurns
  <2>2. Underway'
    BY <1>2, <1>5 DEF OursNow, Underway, OwnAnswers
  <2> QED BY <1>1, <1>5, <2>1, <2>2 DEF OursNow, ActedOurs
<1> QED BY <1>1, <1>3, <1>4, <1>5 DEF SurfaceTyped

-----------------------------------------------------------------------------
(* Every step *)

LEMMA SurfaceStart == SurfaceInit => SurfaceInv
<1> SUFFICES ASSUME SurfaceInit PROVE SurfaceInv
  OBVIOUS
<1>1. DrawingTyped
  BY SurfaceAssumption, Numbered DEF SurfaceInit, DrawingTyped, UiTyped, ViewTyped
<1>2. CallTyped /\ LineTyped /\ DaemonTyped
  BY DEF SurfaceInit, CallTyped, LineTyped, DaemonTyped
<1>3. NewTurn \in Threads /\ \A w : Carries(NewTurn, w)
  <2>1. NewTurn \in Threads
    BY DEF NewTurn, Threads
  <2> QED BY <2>1 DEF NewTurn, Carries
<1>4. TurnsTyped
  BY <1>3 DEF SurfaceInit, TurnsTyped
<1>5. Unseen /\ OnScreen /\ Pending
  BY NonePressed DEF SurfaceInit, Unseen, OnScreen, Pending
<1>6. Underway /\ ActedOurs
  BY DEF SurfaceInit, Underway, OwnAnswers, ActedOurs, NewTurn
<1> QED BY <1>1, <1>2, <1>4, <1>5, <1>6 DEF SurfaceInv, SurfaceTyped, OursNow

LEMMA SurfaceStep == SurfaceInv /\ [SurfaceNext]_surfaceVars => SurfaceInv'
<1> SUFFICES ASSUME SurfaceInv, [SurfaceNext]_surfaceVars PROVE SurfaceInv'
  OBVIOUS
<1>0. SurfaceTyped /\ (doubled \/ OursNow)
  BY DEF SurfaceInv
<1>1. CASE Idle \/ TickAndDraw
  BY <1>0, <1>1, IdleTyped, IdleOurs DEF SurfaceInv, Idle, TickAndDraw, person
<1>2. CASE PressKeys
  <2>1. SurfaceTyped' /\ (doubled => doubled')
    BY <1>0, <1>2, PressTyped
  <2> QED BY <1>0, <1>2, <2>1, KeysOurs DEF SurfaceInv
<1>3. CASE HandleNext
  <2>1. SurfaceTyped' /\ (doubled => doubled')
    BY <1>0, <1>3, HandleTyped
  <2> QED BY <1>0, <1>3, <2>1, KeysOurs DEF SurfaceInv
<1>4. CASE Send
  BY <1>0, <1>4, SendTyped, SendOurs DEF SurfaceInv, Send, person
<1>5. CASE Approve
  BY <1>0, <1>5, ApproveTyped, ApproveOurs DEF SurfaceInv, Approve, person
<1>6. CASE Given
  BY <1>0, <1>6, GivenTyped, PortOurs DEF SurfaceInv, Given, person
<1>7. CASE Select \/ Runs
  BY <1>0, <1>7, PortCallTyped, PortOurs DEF SurfaceInv
<1>8. CASE Reply \/ CallTimesOut
  BY <1>0, <1>8, WaitTyped, PortOurs DEF SurfaceInv
<1>9. ASSUME NEW w \in Turns, Working(w) \/ ReadTimesOut(w) PROVE SurfaceInv'
  BY <1>0, <1>9, WorkingStep, AnswerStep DEF SurfaceInv, Working
<1>10. CASE ServeTurn \/ ServeCall \/ ServeStop
  <2>1. SurfaceTyped' /\ UNCHANGED <<ui, view, turn, acted, doubled>>
    BY <1>0, <1>10, ServeTyped
  <2>2. OursNow => OursNow'
    <3> SUFFICES ASSUME OursNow PROVE OursNow'
      OBVIOUS
    <3>1. Unseen' /\ OnScreen' /\ Pending'
      BY <1>0, <2>1, AlikeOurs, AnswerInTurns
    <3> QED BY <2>1, <3>1 DEF OursNow, Underway, ActedOurs
  <2> QED BY <1>0, <2>1, <2>2 DEF SurfaceInv
<1>11. CASE ReadAnswer \/ Finish \/ Prompt \/ DaemonDies
  BY <1>0, <1>11, ReadAnswerStep, FinishStep, PromptStep, DiesStep DEF SurfaceInv
<1>12. CASE UNCHANGED surfaceVars
  <2>1. UNCHANGED <<ui, view, turn, call, line, daemon, acted, sends, doubled>>
    BY <1>12 DEF surfaceVars
  <2>2. SurfaceTyped'
    BY <1>0, <2>1, PartsKept DEF SurfaceTyped
  <2>3. OursNow => OursNow'
    <3> SUFFICES ASSUME OursNow PROVE OursNow'
      OBVIOUS
    <3>1. Unseen' /\ OnScreen' /\ Pending'
      BY <1>0, <2>1, AlikeOurs, AnswerInTurns
    <3> QED BY <2>1, <3>1 DEF OursNow, Underway, ActedOurs
  <2> QED BY <1>0, <2>1, <2>2, <2>3 DEF SurfaceInv
<1> QED BY <1>1, <1>2, <1>3, <1>4, <1>5, <1>6, <1>7, <1>8, <1>9, <1>10, <1>11, <1>12
        DEF SurfaceNext, Drawing, Serving

(* Approvals reach their question (SocketApprovals, LiveSession::apply): however many
   messages, questions, bursts and faults, every grant the daemon acts on was pressed while
   the window of that very question was up, two answers in one burst aside. *)
THEOREM GrantsAreForTheScreen == SurfaceSpec => []AnswersAreTheirs
<1>1. SurfaceInv => AnswersAreTheirs
  BY DEF SurfaceInv, OursNow, ActedOurs, AnswersAreTheirs
<1> QED BY <1>1, SurfaceStart, SurfaceStep, PTL DEF SurfaceSpec

-----------------------------------------------------------------------------
(* What is sent is what was meant *)

(* A message asked for is what was meant *)
AllWhole(out) == \A i \in DOMAIN out : out[i].k = "send" => out[i].whole

HandMeans(h) ==
    /\ HandParts \subseteq DOMAIN h /\ MeansIt(h.f, h.m)
    /\ h.out \in Seq(Requests) /\ AllWhole(h.out)

(* A request that is no message, or a message that was meant *)
LEMMA AsksMeans ==
    ASSUME NEW h, HandMeans(h), NEW r \in Requests, r.k = "send" => r.whole
    PROVE  HandMeans(Asks(h, r))
<1>1. /\ DOMAIN Asks(h, r) = DOMAIN h /\ Asks(h, r).f = h.f /\ Asks(h, r).m = h.m
      /\ Asks(h, r).out = Append(h.out, r)
  BY DEF Asks, HandMeans, HandParts
<1> DEFINE out == Append(h.out, r)
<1>2. h.out \in Seq(Requests) /\ DOMAIN h.out = 1..Len(h.out) /\ Len(h.out) \in Nat
  BY DEF HandMeans
<1>3. /\ out \in Seq(Requests) /\ DOMAIN out = 1..Len(h.out) + 1 /\ out[Len(h.out) + 1] = r
      /\ \A i \in 1..Len(h.out) : out[i] = h.out[i]
  BY <1>2
<1>4. \A i \in 1..Len(h.out) + 1 : i \in 1..Len(h.out) \/ i = Len(h.out) + 1
  BY <1>2
<1> HIDE DEF out
<1>5. AllWhole(out)
  BY <1>2, <1>3, <1>4 DEF AllWhole, HandMeans
<1> QED BY <1>1, <1>3, <1>5 DEF HandMeans, out

(* A hand with parts changed that no message is written in *)
LEMMA RestMeans ==
    ASSUME NEW h, HandMeans(h)
    PROVE  \A x : /\ HandMeans([h EXCEPT !.reason = x]) /\ HandMeans([h EXCEPT !.armed = x])
                  /\ HandMeans([h EXCEPT !.quit = x])
BY DEF HandMeans, HandParts

(* A draft changed along with what is meant *)
LEMMA EditMeans ==
    ASSUME NEW h, HandMeans(h), NEW f, Draft(f), NEW k, NEW b,
           \/ h.m.broken
           \/ k = "cbs" /\ EndsIn(f.input, "wreck")
           \/ Shows(f.pastes, f.input, Means(h.f, h.m.text, k, b))
    PROVE  HandMeans(Edit(h, f, k, b))
<1> DEFINE g == Edit(h, f, k, b)
           n == Means(h.f, h.m.text, k, b)
           e == h.m.broken \/ (k = "cbs" /\ EndsIn(f.input, "wreck"))
<1>1. DOMAIN h.m = {"text", "broken"} /\ HandParts \subseteq DOMAIN h
  BY DEF HandMeans, MeansIt
<1> DEFINE h1 == [h EXCEPT !.f = f]
           m1 == [h1.m EXCEPT !.text = n]
           h2 == [h1 EXCEPT !.m = m1]
           m2 == [h2.m EXCEPT !.broken = e]
<1>2. g = [h2 EXCEPT !.m = m2]
  BY DEF Edit
<1> HIDE DEF n, e, g
<1>3. /\ DOMAIN g = DOMAIN h /\ g.f = f /\ g.out = h.out /\ DOMAIN g.m = DOMAIN h.m
      /\ g.m.text = n /\ g.m.broken = e
  <2>1. DOMAIN h1 = DOMAIN h /\ h1.f = f /\ h1.out = h.out /\ h1.m = h.m
    BY <1>1 DEF HandParts
  <2> HIDE DEF h1
  <2>2. DOMAIN m1 = DOMAIN h.m /\ m1.text = n
    BY <1>1, <2>1
  <2> HIDE DEF m1
  <2>3. DOMAIN h2 = DOMAIN h /\ h2.f = f /\ h2.out = h.out /\ h2.m = m1
    BY <1>1, <2>1 DEF HandParts
  <2> HIDE DEF h2
  <2>4. DOMAIN m2 = DOMAIN h.m /\ m2.text = n /\ m2.broken = e
    BY <1>1, <2>2, <2>3
  <2> HIDE DEF m2
  <2> QED BY <1>1, <1>2, <2>3, <2>4 DEF HandParts
<1>4. g.m.broken \/ Shows(f.pastes, f.input, g.m.text)
  BY <1>3 DEF n, e
<1>5. HandMeans(g)
  BY <1>1, <1>3, <1>4 DEF HandMeans, MeansIt
<1> QED BY <1>5 DEF g

(* An answer to the question in the window *)
LEMMA ApprovalKeyMeans ==
    ASSUME NEW h, HandMeans(h), h.v.window \in Windows, NEW press
    PROVE  HandMeans(OnPendingApprovalKey(h, press))
<1>1. ASSUME NEW g, HandMeans(g), g.v = h.v, NEW granted \in BOOLEAN PROVE HandMeans(Answers(g, granted))
  <2>1. [k |-> "approve", granted |-> granted, window |-> g.v.window] \in Requests
    BY <1>1 DEF Requests, Approvals
  <2> QED BY <1>1, <2>1, AsksMeans DEF Answers
<1>2. HandMeans([h EXCEPT !.reason = FALSE]) /\ HandMeans([h EXCEPT !.reason = TRUE])
  BY RestMeans
<1>3. [h EXCEPT !.reason = FALSE].v = h.v /\ TRUE \in BOOLEAN /\ FALSE \in BOOLEAN
  OBVIOUS
<1> HIDE DEF HandMeans, Answers
<1> QED BY <1>1, <1>2, <1>3 DEF OnPendingApprovalKey

(* Submitting sends the draft in full *)
LEMMA SubmitMeans ==
    ASSUME NEW h, HandMeans(h)
    PROVE  HandMeans(Submit(h))
<1> DEFINE clean == [h EXCEPT !.f.input = <<>>, !.f.pastes = <<>>, !.m.text = <<>>, !.m.broken = FALSE]
           text == Submitted(h.f)
           whole == h.m.broken \/ text = Trim(h.m.text)
           send == [k |-> "send", whole |-> whole]
<1>1. /\ HandParts \subseteq DOMAIN h /\ DOMAIN h.m = {"text", "broken"}
      /\ DOMAIN h.f = {"input", "pastes", "all"}
  BY DEF HandMeans, MeansIt, Draft
<1>2. HandMeans(clean)
  <2>1. /\ DOMAIN clean = DOMAIN h /\ clean.out = h.out /\ DOMAIN clean.f = DOMAIN h.f
        /\ DOMAIN clean.m = DOMAIN h.m /\ clean.f.input = <<>> /\ clean.f.pastes = <<>>
        /\ clean.m.text = <<>>
    BY <1>1 DEF HandParts
  <2> HIDE DEF clean
  <2>2. Draft(clean.f)
    BY <1>1, <2>1 DEF Draft
  <2>3. Shows(clean.f.pastes, clean.f.input, clean.m.text)
    BY <2>1, ShowsNothing
  <2> QED BY <1>1, <2>1, <2>2, <2>3 DEF HandMeans, MeansIt
<1>3. whole
  BY TrimShows DEF HandMeans, MeansIt
<1>4. send \in Requests /\ send.k = "send" /\ send.whole
  BY <1>3 DEF Requests
<1>5. [k |-> "runs"] \in Requests /\ \A c \in Models : [k |-> "select", model |-> c] \in Requests
  BY DEF Requests
<1> HIDE DEF clean, send
<1>6. \A c : HandMeans(RunCommand(clean, c))
  <2>1. HandMeans(Asks(clean, [k |-> "runs"]))
    BY <1>2, <1>5, AsksMeans
  <2>2. \A c \in Models : HandMeans(Asks(clean, [k |-> "select", model |-> c]))
    BY <1>2, <1>5, AsksMeans
  <2>3. HandMeans([clean EXCEPT !.quit = TRUE])
    BY <1>2, RestMeans
  <2> QED BY <1>2, <2>1, <2>2, <2>3 DEF RunCommand
<1>7. HandMeans(Asks(clean, send))
  BY <1>2, <1>4, AsksMeans
<1> HIDE DEF HandMeans
<1> QED BY <1>2, <1>6, <1>7 DEF Submit, clean, send

(* The keys that type *)
LEMMA TextKeyMeans ==
    ASSUME NEW h, HandMeans(h), NEW press
    PROVE  HandMeans(OnTextKey(h, press))
<1> DEFINE f == h.f
           m == h.m.text
<1>1. Draft(f) /\ (h.m.broken \/ Shows(f.pastes, f.input, m))
  BY DEF HandMeans, MeansIt
<1>2. ASSUME NEW a \in Pieces, a.k # "chip" PROVE HandMeans(Edit(h, Insert(f, a), "insert", a))
  <2>1. Draft(Insert(f, a))
    BY <1>1, KeysLeaveDrafts
  <2>2. h.m.broken \/ Shows(Insert(f, a).pastes, Insert(f, a).input, Means(f, m, "insert", a))
    BY <1>1, <1>2, InsertMeans
  <2> QED BY <2>1, <2>2, EditMeans
<1>3. /\ Letter \in Pieces /\ Letter.k # "chip" /\ Space \in Pieces /\ Space.k # "chip"
      /\ \A c \in Commands : Atom("cmd", 0, c) \in Pieces /\ Atom("cmd", 0, c).k # "chip"
  BY DEF Letter, Space, Atom, Pieces, Heights
<1>4. HandMeans(Edit(h, Backspace(f), "bs", None))
  <2>1. Draft(Backspace(f))
    BY <1>1, KeysLeaveDrafts
  <2>2. h.m.broken \/ Shows(Backspace(f).pastes, Backspace(f).input, Means(f, m, "bs", None))
    BY <1>1, BackspaceMeans
  <2> QED BY <2>1, <2>2, EditMeans
<1>5. HandMeans(Edit(h, CtrlBackspace(f), "cbs", None))
  <2>1. Draft(CtrlBackspace(f))
    BY <1>1, KeysLeaveDrafts
  <2>2. \/ h.m.broken \/ EndsIn(CtrlBackspace(f).input, "wreck")
        \/ Shows(CtrlBackspace(f).pastes, CtrlBackspace(f).input, Means(f, m, "cbs", None))
    BY <1>1, CtrlBackspaceMeans
  <2> QED BY <2>1, <2>2, EditMeans
<1>6. HandMeans(Submit(h))
  BY SubmitMeans
<1>7. /\ HandMeans(Edit(h, Insert(f, Letter), "insert", Letter))
      /\ HandMeans(Edit(h, Insert(f, Space), "insert", Space))
      /\ \A c \in Commands : HandMeans(Edit(h, Insert(f, Atom("cmd", 0, c)), "insert", Atom("cmd", 0, c)))
  BY <1>2, <1>3
<1> HIDE DEF HandMeans
<1> QED BY <1>4, <1>5, <1>6, <1>7 DEF OnTextKey

(* The control keys *)
LEMMA GlobalCtrlMeans ==
    ASSUME NEW h, HandMeans(h), NEW press
    PROVE  HandMeans(OnGlobalCtrl(h, press))
<1> DEFINE f == h.f
           m == h.m.text
<1>1. Draft(f) /\ (h.m.broken \/ Shows(f.pastes, f.input, m)) /\ HandParts \subseteq DOMAIN h
  BY DEF HandMeans, MeansIt
<1>2. \A g : Draft(g) /\ (h.m.broken \/ Shows(g.pastes, g.input, m)) => HandMeans([h EXCEPT !.f = g])
  BY <1>1 DEF HandMeans, MeansIt, HandParts
<1>3. Draft(SelectAll(f)) /\ Draft(ClearInput(f)) /\ Draft(CopySelection(f))
  BY <1>1, KeysLeaveDrafts
<1>4. HandMeans([h EXCEPT !.f = SelectAll(f)])
  <2>1. SelectAll(f).pastes = f.pastes /\ SelectAll(f).input = f.input
    BY DEF SelectAll
  <2> QED BY <1>1, <1>2, <1>3, <2>1
<1>5. HandMeans([h EXCEPT !.f = CopySelection(f)])
  BY <1>1, <1>2, <1>3, CopyMeans
<1>6. HandMeans(Edit(h, ClearInput(f), "clear", None))
  <2>1. ClearInput(f).input = <<>> /\ Means(f, m, "clear", None) = <<>>
    BY <1>1 DEF ClearInput, Means, Draft
  <2>2. Shows(ClearInput(f).pastes, ClearInput(f).input, Means(f, m, "clear", None))
    BY <2>1, ShowsNothing
  <2> QED BY <1>3, <2>2, EditMeans
<1>7. HandMeans([h EXCEPT !.quit = TRUE]) /\ HandMeans([h EXCEPT !.armed = TRUE])
  BY RestMeans
<1> HIDE DEF HandMeans
<1> QED BY <1>4, <1>5, <1>6, <1>7 DEF OnGlobalCtrl

(* Whichever key is pressed, the draft shows what is meant *)
LEMMA KeyMeans ==
    ASSUME NEW h, HandMeans(h), h.v.window \in Windows, NEW press
    PROVE  HandMeans(HandleKey(h, press))
<1>1. ASSUME press \in Bodies PROVE HandMeans(Edit(h, Paste(h.f, press), "paste", press))
  <2>1. Draft(h.f) /\ (h.m.broken \/ Shows(h.f.pastes, h.f.input, h.m.text))
    BY DEF HandMeans, MeansIt
  <2>2. Draft(Paste(h.f, press))
    BY <1>1, <2>1, KeysLeaveDrafts
  <2>3. \/ h.m.broken
        \/ Shows(Paste(h.f, press).pastes, Paste(h.f, press).input, Means(h.f, h.m.text, "paste", press))
    BY <1>1, <2>1, PasteMeans
  <2> QED BY <2>2, <2>3, EditMeans
<1>2. HandMeans(OnClick(h))
  <2> DEFINE others == Models \ {h.v.model}
             r == [k |-> "select", model |-> CHOOSE m \in others : TRUE]
  <2>1. CASE others = {}
    BY <2>1 DEF OnClick
  <2>2. CASE others # {}
    <3>1. r \in Requests /\ r.k # "send"
      BY <2>2 DEF Requests
    <3> QED BY <2>2, <3>1, AsksMeans DEF OnClick
  <2> QED BY <2>1, <2>2
<1>3. HandMeans(OnPendingApprovalKey(h, press)) /\ HandMeans(OnGlobalCtrl(h, press))
  BY ApprovalKeyMeans, GlobalCtrlMeans
<1>4. LET g == [h EXCEPT !.armed = FALSE]
      IN  HandMeans(OnGlobalCtrl(g, press)) /\ HandMeans(OnTextKey(g, press))
  <2>1. HandMeans([h EXCEPT !.armed = FALSE])
    BY RestMeans
  <2> QED BY <2>1, GlobalCtrlMeans, TextKeyMeans
<1>5. HandMeans(OnKey(h, press))
  BY <1>3, <1>4 DEF OnKey
<1> QED BY <1>1, <1>2, <1>5 DEF HandleKey

(* ... and so it does when a burst is read as one paste *)
LEMMA BurstMeans ==
    ASSUME NEW h, HandMeans(h), h.v.window \in Windows, NEW keys \in Seq(Pressable)
    PROVE  HandMeans(ReadBurst(h, keys))
<1> DEFINE text == [i \in DOMAIN keys |-> IF keys[i] = "enter" THEN Space ELSE Letter]
           g == PasteBurst(h, keys)
<1>1. /\ HandParts \subseteq DOMAIN h /\ DOMAIN h.m = {"text", "broken"} /\ Draft(h.f)
      /\ h.m.broken \/ Shows(h.f.pastes, h.f.input, h.m.text)
  BY DEF HandMeans, MeansIt
<1>2. DOMAIN keys = 1..Len(keys) /\ Len(keys) \in Nat
  OBVIOUS
<1>3. \A a \in {Space, Letter} : a \in Pieces /\ a.k # "chip"
  <2>1. Space \in Pieces /\ Space.k # "chip" /\ Letter \in Pieces /\ Letter.k # "chip"
    BY DEF Letter, Space, Atom, Pieces, Heights
  <2> QED BY <2>1
<1>4. text \in Seq(Pieces) /\ Len(text) = Len(keys) /\ \A j \in 1..Len(text) : text[j].k # "chip"
  <2>1. \A j \in 1..Len(keys) : text[j] \in {Space, Letter}
    BY <1>2
  <2>2. text \in [1..Len(keys) -> Pieces]
    BY <1>2, <1>3, <2>1
  <2> HIDE DEF text
  <2> QED BY <1>2, <1>3, <2>1, <2>2
<1>5. g = [[h EXCEPT !.f.input = @ \o text] EXCEPT !.m.text = @ \o text]
  BY DEF PasteBurst
<1> HIDE DEF g, text
<1>6. /\ DOMAIN g = DOMAIN h /\ g.out = h.out
      /\ g.f = [h.f EXCEPT !.input = @ \o text] /\ g.m = [h.m EXCEPT !.text = @ \o text]
  BY <1>1, <1>5 DEF HandParts
<1>7. Draft(g.f) /\ DOMAIN g.m = {"text", "broken"} /\ g.m.broken = h.m.broken
      /\ g.f.pastes = h.f.pastes /\ g.f.input = h.f.input \o text /\ g.m.text = h.m.text \o text
  BY <1>1, <1>6 DEF Draft
<1>8. g.m.broken \/ Shows(g.f.pastes, g.f.input, g.m.text)
  BY <1>1, <1>4, <1>7, ShowsConcat
<1>9. HandMeans(g)
  BY <1>6, <1>7, <1>8 DEF HandMeans, MeansIt
<1>10. HandMeans(HandleKey(h, Head(keys)))
  BY KeyMeans
<1> QED BY <1>9, <1>10 DEF ReadBurst, g

-----------------------------------------------------------------------------
(* What a step leaves of it *)

TurnsWhole == \A w \in 1..sends : turn[w].whole
SentInv ==
    /\ MeansIt(field, meant) /\ AllWhole(ui.todo)
    /\ TurnsWhole /\ FALSE \notin ran

(* The threads keep what they were started with *)
WholeKept == \A w \in Turns : turn'[w].whole = turn[w].whole

(* A step that writes no message, asks for none and starts none *)
LEMMA RestSent ==
    ASSUME SurfaceTyped, SentInv, UNCHANGED <<field, meant, sends, ran>>, WholeKept, AllWhole(ui'.todo)
    PROVE  SentInv'
<1>1. \A w \in 1..sends : w \in Turns
  BY Counted
<1>2. TurnsWhole'
  BY <1>1 DEF SentInv, TurnsWhole, WholeKept
<1>3. MeansIt(field, meant)'
  BY DEF SentInv
<1>4. AllWhole(ui.todo)'
  BY DEF AllWhole
<1> QED BY <1>2, <1>3, <1>4 DEF SentInv

(* One thread with another part changed *)
LEMMA OneKept ==
    ASSUME SurfaceTyped, NEW w \in Turns, NEW t, t.whole = turn[w].whole, turn' = [turn EXCEPT ![w] = t]
    PROVE  WholeKept
BY DEF SurfaceTyped, TurnsTyped, WholeKept

LEMMA DrainedKept ==
    ASSUME SurfaceTyped, turn' = Drained
    PROVE  WholeKept
<1>1. \A w \in Turns : turn'[w] = IF ui.inbox = w THEN [turn[w] EXCEPT !.chan = <<>>] ELSE turn[w]
  BY TickTyped
<1>2. \A w \in Turns : turn[w] \in Threads
  BY Counted
<1>3. \A t \in Threads : [t EXCEPT !.chan = <<>>].whole = t.whole
  BY DEF Threads
<1> QED BY <1>1, <1>2, <1>3 DEF WholeKept

(* A burst, and one key of it *)
LEMMA HandledSent ==
    ASSUME SurfaceTyped, SentInv, NEW u, NEW h, NEW unread, UiTyped(u, sends), HandMeans(h),
           Handled(u, h, unread), WholeKept, UNCHANGED <<sends, ran>>
    PROVE  SentInv'
<1>1. field' = h.f /\ meant' = h.m
  BY DEF Handled
<1>2. ui'.todo = IF ui'.at = "gone" THEN <<>> ELSE h.out
  BY HandledTyped DEF HandMeans
<1>3. AllWhole(ui'.todo)
  BY <1>2 DEF AllWhole, HandMeans
<1>4. \A w \in 1..sends : w \in Turns
  BY Counted
<1>5. TurnsWhole'
  BY <1>4 DEF SentInv, TurnsWhole, WholeKept
<1>6. MeansIt(field, meant)'
  BY <1>1 DEF HandMeans
<1>7. AllWhole(ui.todo)'
  BY <1>3 DEF AllWhole
<1> QED BY <1>5, <1>6, <1>7 DEF SentInv

LEMMA HandSent ==
    ASSUME SurfaceTyped, SentInv, NEW v
    PROVE  HandMeans(Hand(v))
<1>1. /\ DOMAIN Hand(v) = HandParts /\ Hand(v).f = field /\ Hand(v).m = meant /\ Hand(v).out = ui.todo
  BY DEF Hand, HandParts
<1> QED BY <1>1 DEF HandMeans, SentInv, SurfaceTyped, DrawingTyped, UiTyped

LEMMA KeysSent ==
    ASSUME SurfaceTyped, SentInv, PressKeys \/ HandleNext
    PROVE  SentInv'
<1>1. CASE PressKeys
  <2>1. turn' = Drained /\ view' = Tick(ui, view).v /\ UNCHANGED <<sends, ran>>
    BY <1>1 DEF PressKeys
  <2>2. PICK keys \in Bursts \cup Edits :
            Handled(Tick(ui, view).u, ReadBurst(Hand(view'), keys), Unread(keys))
    BY <1>1 DEF PressKeys
  <2>3. UiTyped(Tick(ui, view).u, sends) /\ view'.window \in Windows
    BY <2>1, TickTyped DEF ViewTyped
  <2>4. keys \in Seq(Pressable)
    BY KeysAssumption
  <2>5. HandMeans(ReadBurst(Hand(view'), keys))
    BY <2>3, <2>4, HandSent, HandFits, BurstMeans
  <2> QED BY <2>1, <2>2, <2>3, <2>5, DrainedKept, HandledSent
<1>2. CASE HandleNext
  <2>1. UNCHANGED <<turn, sends, ran>> /\ WholeKept
    BY <1>2 DEF HandleNext, WholeKept
  <2>2. Handled(ui, HandleKey(Hand(view), Head(ui.keys)), Tail(ui.keys))
    BY <1>2 DEF HandleNext
  <2>3. UiTyped(ui, sends) /\ view.window \in Windows
    BY DEF SurfaceTyped, DrawingTyped, ViewTyped
  <2>4. HandMeans(HandleKey(Hand(view), Head(ui.keys)))
    BY <2>3, HandSent, HandFits, KeyMeans
  <2> QED BY <2>1, <2>2, <2>3, <2>4, HandledSent
<1> QED BY <1>1, <1>2

(* What is left to hand over, and the request that is handed over *)
LEMMA TailWhole ==
    ASSUME SurfaceTyped, SentInv, ui.todo # <<>>
    PROVE  /\ AllWhole(Tail(ui.todo)) /\ (Head(ui.todo).k = "send" => Head(ui.todo).whole)
           /\ \A x : Done(ui).todo = Tail(ui.todo) /\ [Done(ui) EXCEPT !.at = x].todo = Tail(ui.todo)
<1> DEFINE todo == ui.todo
<1>1. todo \in Seq(Requests) /\ "todo" \in DOMAIN ui
  BY DEF SurfaceTyped, DrawingTyped, UiTyped
<1>2. DOMAIN todo = 1..Len(todo) /\ 1 \in DOMAIN todo
  BY <1>1
<1>3. DOMAIN Tail(todo) = 1..Len(todo) - 1 /\ Len(todo) \in Nat
      /\ \A i \in 1..Len(todo) - 1 : Tail(todo)[i] = todo[i + 1] /\ i + 1 \in DOMAIN todo
  BY <1>1, <1>2
<1>4. AllWhole(Tail(todo))
  BY <1>3 DEF AllWhole, SentInv
<1>5. Head(todo) = todo[1]
  BY <1>1
<1>6. Head(todo).k = "send" => Head(todo).whole
  BY <1>2, <1>5 DEF AllWhole, SentInv
<1>7. \A x : Done(ui).todo = Tail(ui.todo) /\ [Done(ui) EXCEPT !.at = x].todo = Tail(ui.todo)
  BY <1>1 DEF Done
<1> QED BY <1>4, <1>6, <1>7

LEMMA SendSent ==
    ASSUME SurfaceTyped, SentInv, Send
    PROVE  SentInv'
<1>1. /\ ui.todo # <<>> /\ Head(ui.todo).k = "send" /\ sends' = sends + 1 /\ sends < MaxSends
      /\ UNCHANGED <<field, meant, ran>>
      /\ ui' = [Done(ui) EXCEPT !.inbox = sends', !.answer = sends']
      /\ turn' = [turn EXCEPT ![sends'] = [turn[sends'] EXCEPT !.at = "new", !.whole = Head(ui.todo).whole]]
  BY DEF Send, Doing, person, daemonVars
<1>2. sends \in Nat /\ MaxSends \in Nat /\ sends' \in Turns /\ \A w \in 1..sends : w \in Turns
  BY <1>1, Counted, Numbered
<1>3. ASSUME NEW w \in 1..sends' PROVE turn'[w].whole
  <2>1. CASE w = sends'
    <3>1. turn[w] \in Threads /\ turn \in [Turns -> Threads]
      BY <1>2, <2>1, Counted DEF SurfaceTyped, TurnsTyped
    <3>2. turn'[w] = [turn[w] EXCEPT !.at = "new", !.whole = Head(ui.todo).whole]
      BY <1>1, <1>2, <2>1, <3>1
    <3>3. turn'[w].whole = Head(ui.todo).whole
      BY <3>1, <3>2 DEF Threads
    <3> QED BY <1>1, <3>3, TailWhole
  <2>2. CASE w # sends'
    <3>1. w \in 1..sends
      BY <1>1, <1>2, <2>2
    <3>2. turn'[w] = turn[w]
      BY <1>1, <1>2, <2>2, <3>1 DEF SurfaceTyped, TurnsTyped
    <3> QED BY <3>1, <3>2 DEF SentInv, TurnsWhole
  <2> QED BY <2>1, <2>2
<1>4. ui'.todo = Tail(ui.todo)
  <2>1. \A d, x, y : [d EXCEPT !.inbox = x, !.answer = y].todo = d.todo
    OBVIOUS
  <2> QED BY <1>1, <2>1, TailWhole
<1>5. AllWhole(ui.todo)'
  BY <1>1, <1>4, TailWhole DEF AllWhole
<1>6. MeansIt(field, meant)'
  BY <1>1 DEF SentInv
<1>7. TurnsWhole'
  BY <1>3 DEF TurnsWhole
<1> QED BY <1>1, <1>5, <1>6, <1>7 DEF SentInv

(* The steps of the drawing thread that hand over no message *)
LEMMA DrawingSent ==
    ASSUME SurfaceTyped, SentInv,
           Idle \/ Approve \/ Given \/ Select \/ Runs \/ Reply \/ TickAndDraw \/ CallTimesOut
    PROVE  SentInv'
<1>1. UNCHANGED <<field, meant, sends, ran>>
  BY DEF Idle, Approve, Given, Select, Runs, Reply, TickAndDraw, CallTimesOut, person, daemonVars
<1>2. WholeKept
  <2>1. CASE Idle \/ TickAndDraw
    BY <2>1, DrainedKept DEF Idle, TickAndDraw
  <2>2. CASE Approve \/ Given \/ Select \/ Runs \/ Reply \/ CallTimesOut
    <3>1. UNCHANGED turn
      BY <2>2 DEF Approve, Given, Select, Runs, Reply, CallTimesOut
    <3> QED BY <3>1 DEF WholeKept
  <2> QED BY <2>1, <2>2
<1>3. "todo" \in DOMAIN ui /\ AllWhole(ui.todo)
  BY DEF SurfaceTyped, DrawingTyped, UiTyped, SentInv
<1>4. AllWhole(ui'.todo)
  <2>1. CASE Idle \/ TickAndDraw
    <3>1. ui' \in {Tick(ui, view).u, [Tick(ui, view).u EXCEPT !.at = "top"]}
      BY <2>1 DEF Idle, TickAndDraw
    <3>2. Tick(ui, view).u.todo = ui.todo
      BY TickTyped
    <3>3. \A u : [u EXCEPT !.at = "top"].todo = u.todo
      OBVIOUS
    <3> QED BY <1>3, <3>1, <3>2, <3>3
  <2>2. CASE Given \/ Reply \/ CallTimesOut
    <3>1. ui'.todo = ui.todo
      BY <1>3, <2>2 DEF Given, Reply, CallTimesOut
    <3> QED BY <1>3, <3>1
  <2>3. CASE Approve
    <3>1. ui.todo # <<>>
      BY <2>3 DEF Approve, Doing
    <3> DEFINE d == Done(ui)
               given == [d EXCEPT !.at = "give", !.gave = <<Head(ui.todo)>>]
    <3>2. ui'.todo = d.todo
      <4>1. given.todo = d.todo
        OBVIOUS
      <4>2. ui' \in {d, given}
        BY <2>3 DEF Approve
      <4> HIDE DEF d, given
      <4> QED BY <4>1, <4>2
    <3> QED BY <3>1, <3>2, TailWhole
  <2>4. CASE Select \/ Runs
    <3>1. ui.todo # <<>> /\ ui' \in {Done(ui), [Done(ui) EXCEPT !.at = "wait"]}
      BY <2>4 DEF Select, Runs, Doing, OnMainPort
    <3> QED BY <3>1, TailWhole
  <2> QED BY <2>1, <2>2, <2>3, <2>4
<1> QED BY <1>1, <1>2, <1>4, RestSent

(* The steps of a message's thread *)
LEMMA WorkerSent ==
    ASSUME SurfaceTyped, SentInv, NEW w \in Turns,
           Connect(w) \/ ReadLine(w) \/ ReadEnd(w) \/ ReadTimesOut(w) \/ Answer(w)
    PROVE  SentInv'
<1>1. turn[w] \in Threads
  BY Counted
<1> DEFINE t == turn[w]
           Keeps(x) == "whole" \in DOMAIN x /\ x.whole = t.whole
<1>2. Keeps(t)
  BY <1>1 DEF Threads
<1>3. \A g : Keeps(g) =>
        \A x, y, z : /\ Keeps([g EXCEPT !.at = x]) /\ Keeps([g EXCEPT !.end = x])
                     /\ Keeps([g EXCEPT !.chan = x]) /\ Keeps([g EXCEPT !.down = x])
                     /\ Keeps([g EXCEPT !.q = x]) /\ Keeps([g EXCEPT !.up = x])
  OBVIOUS
<1> HIDE DEF Keeps
<1>4. \A g : Keeps(g) => Keeps(Failed(g)) /\ \A e : Keeps(Emit(g, e))
  BY <1>3 DEF Failed, Emit
<1>5. \E x : Worker(w, x) /\ Keeps(x)
  <2>1. CASE Connect(w)
    <3>1. Keeps([t EXCEPT !.at = "read"]) /\ Keeps(Failed(t))
      BY <1>2, <1>3, <1>4
    <3>2. Worker(w, [t EXCEPT !.at = "read"]) \/ Worker(w, Failed(t))
      BY <2>1 DEF Connect
    <3> QED BY <3>1, <3>2
  <2>2. CASE ReadLine(w)
    <3> DEFINE e == Head(t.down)
               d == [Emit(t, e) EXCEPT !.down = Tail(@)]
               asked == [d EXCEPT !.at = "ask", !.q = e.d]
               ended == [d EXCEPT !.end = e.k]
    <3>1. Keeps(d)
      BY <1>2, <1>3, <1>4
    <3>2. Worker(w, asked) \/ Worker(w, ended) \/ Worker(w, d)
      BY <2>2 DEF ReadLine
    <3> HIDE DEF d
    <3>3. Keeps(asked) /\ Keeps(ended)
      BY <1>3, <3>1
    <3> HIDE DEF asked, ended
    <3> QED BY <3>1, <3>2, <3>3
  <2>3. CASE ReadEnd(w) \/ ReadTimesOut(w)
    <3>1. Keeps([t EXCEPT !.at = "ended"]) /\ Keeps(Failed(t))
      BY <1>2, <1>3, <1>4
    <3>2. Worker(w, [t EXCEPT !.at = "ended"]) \/ Worker(w, Failed(t))
      BY <2>3 DEF ReadEnd, ReadTimesOut
    <3> QED BY <3>1, <3>2
  <2>4. CASE Answer(w)
    <3>1. ASSUME NEW a, NEW x \in Replied(t, a) PROVE Keeps(x)
      <4> DEFINE r == [t EXCEPT !.at = "read", !.q = 0, !.up = Append(@, [d |-> t.q, a |-> a])]
      <4>1. Keeps(r) /\ Keeps(Failed(t))
        BY <1>2, <1>3, <1>4
      <4>2. x \in {r, Failed(t)}
        BY <3>1 DEF Replied
      <4> HIDE DEF r
      <4> QED BY <4>1, <4>2
    <3>2. \E a : \E x \in Replied(t, a) : Worker(w, x)
      BY <2>4 DEF Answer, Decide
    <3> QED BY <3>1, <3>2
  <2> QED BY <2>1, <2>2, <2>3, <2>4
<1>6. UNCHANGED <<field, meant, sends, ran>> /\ WholeKept
  BY <1>5, OneKept DEF Worker, person, Keeps
<1>7. ui'.todo = ui.todo
  <2>1. ui' = ui \/ ui' = [ui EXCEPT !.at = "draw", !.gave = <<>>]
    BY DEF Connect, ReadLine, ReadEnd, ReadTimesOut, Answer, Decide
  <2>2. "todo" \in DOMAIN ui
    BY DEF SurfaceTyped, DrawingTyped, UiTyped
  <2> QED BY <2>1, <2>2
<1> QED BY <1>6, <1>7, RestSent DEF SentInv

(* The steps of the daemon *)
LEMMA DaemonSent ==
    ASSUME SurfaceTyped, SentInv, Serving \/ Prompt \/ DaemonDies
    PROVE  SentInv'
<1>1. UNCHANGED <<field, meant, sends, ui>>
  BY DEF Serving, ServeTurn, ServeCall, ServeStop, ReadAnswer, Finish, Prompt, DaemonDies, Surfaces, person
<1>2. WholeKept
  <2>1. turn \in [Turns -> Threads] /\ \A w \in Turns : turn[w] \in Threads
    BY Counted DEF SurfaceTyped, TurnsTyped
  <2>2. \A t \in Threads : \A x, y : /\ [t EXCEPT !.down = x].whole = t.whole
                                     /\ [t EXCEPT !.up = x].whole = t.whole
                                     /\ [t EXCEPT !.shut = x].whole = t.whole
                                     /\ [t EXCEPT !.down = x, !.shut = y].whole = t.whole
    BY DEF Threads
  <2>3. CASE ServeTurn \/ ServeCall \/ ServeStop
    BY <2>3 DEF ServeTurn, ServeCall, ServeStop, WholeKept
  <2>4. CASE Prompt \/ ReadAnswer \/ Finish
    <3> DEFINE w == daemon.turn
    <3>1. w \in Turns
      BY <2>4, Counted DEF Prompt, ReadAnswer, Finish, SurfaceTyped, DaemonTyped
    <3>2. CASE turn' = turn
      BY <3>2 DEF WholeKept
    <3>3. ASSUME NEW x, \/ turn' = [turn EXCEPT ![w] = [turn[w] EXCEPT !.down = x]]
                        \/ turn' = [turn EXCEPT ![w] = [turn[w] EXCEPT !.up = x]]
          PROVE  WholeKept
      BY <2>1, <2>2, <3>1, <3>3, OneKept
    <3>4. ASSUME NEW x, turn' = [turn EXCEPT ![w].down = x, ![w].shut = TRUE]
          PROVE  WholeKept
      BY <2>1, <2>2, <3>1, <3>4 DEF WholeKept
    <3>5. CASE Prompt
      BY <3>2, <3>3, <3>5 DEF Prompt
    <3>6. CASE ReadAnswer
      BY <3>2, <3>3, <3>6 DEF ReadAnswer
    <3>7. CASE Finish
      BY <3>2, <3>4, <3>7 DEF Finish
    <3> QED BY <2>4, <3>5, <3>6, <3>7
  <2>5. CASE DaemonDies
    BY <2>1, <2>2, <2>5 DEF DaemonDies, WholeKept
  <2> QED BY <2>3, <2>4, <2>5 DEF Serving
<1>3. CASE UNCHANGED ran
  BY <1>1, <1>2, <1>3, RestSent DEF SentInv
<1>4. CASE ServeTurn
  <2>1. line # <<>> /\ Head(line).who \in Turns /\ ran' = ran \cup {turn[Head(line).who].whole}
    BY <1>4 DEF ServeTurn
  <2>2. Head(line) = line[1] /\ 1 \in DOMAIN line
    BY <2>1 DEF SurfaceTyped, LineTyped
  <2>3. Head(line).who \in 1..sends
    <3>1. Head(line).who <= sends /\ Head(line).who \in 1..MaxSends /\ sends \in Nat
      BY <2>1, <2>2, Counted, Numbered DEF SurfaceTyped, LineTyped
    <3> QED BY <3>1, Counted
  <2>4. turn[Head(line).who].whole
    BY <2>3 DEF SentInv, TurnsWhole
  <2>5. FALSE \notin ran'
    BY <2>1, <2>4 DEF SentInv
  <2>6. \A w \in 1..sends : w \in Turns
    BY Counted
  <2>7. TurnsWhole'
    BY <1>1, <1>2, <2>6 DEF SentInv, TurnsWhole, WholeKept
  <2> QED BY <1>1, <2>5, <2>7 DEF SentInv
<1>5. ServeTurn \/ UNCHANGED ran
  BY DEF Serving, ServeTurn, ServeCall, ServeStop, ReadAnswer, Finish, Prompt, DaemonDies
<1> QED BY <1>3, <1>4, <1>5

(* Nothing is written at the start *)
LEMMA SentStart == SurfaceInit => SentInv
<1> SUFFICES ASSUME SurfaceInit PROVE SentInv
  OBVIOUS
<1>1. field = Blank /\ meant = [text |-> <<>>, broken |-> FALSE] /\ ui.todo = <<>> /\ sends = 0 /\ ran = {}
  BY DEF SurfaceInit
<1>2. Draft(Blank) /\ Blank.pastes = <<>> /\ Blank.input = <<>>
  BY DEF Blank, Draft
<1>3. MeansIt(field, meant)
  BY <1>1, <1>2, ShowsNothing DEF MeansIt
<1> QED BY <1>1, <1>3 DEF SentInv, AllWhole, TurnsWhole

(* Submitting: what the daemon runs is what the person wrote and pasted, whatever
   was typed, pasted, erased, selected or copied before, unless a word-delete broke
   a chip. *)
THEOREM MessagesAreMeant == SurfaceSpec => []SentIsMeant
<1>1. SurfaceInv /\ SentInv /\ [SurfaceNext]_surfaceVars => SentInv'
  <2> SUFFICES ASSUME SurfaceInv, SentInv, [SurfaceNext]_surfaceVars PROVE SentInv'
    OBVIOUS
  <2>1. SurfaceTyped
    BY DEF SurfaceInv
  <2>2. CASE UNCHANGED surfaceVars
    <3>1. UNCHANGED <<field, meant, sends, ran, turn, ui>>
      BY <2>2 DEF surfaceVars
    <3> QED BY <2>1, <3>1, RestSent DEF SentInv, WholeKept
  <2>3. ASSUME NEW w \in Turns, Working(w) \/ ReadTimesOut(w) PROVE SentInv'
    BY <2>1, <2>3, WorkerSent DEF Working
  <2>4. ASSUME Drawing \/ PressKeys \/ CallTimesOut PROVE SentInv'
    BY <2>1, <2>4, KeysSent, SendSent, DrawingSent DEF Drawing
  <2> QED BY <2>1, <2>2, <2>3, <2>4, DaemonSent DEF SurfaceNext
<1>2. SentInv => SentIsMeant
  BY DEF SentInv, SentIsMeant
<1> QED BY <1>1, <1>2, SentStart, SurfaceStart, SurfaceStep, PTL DEF SurfaceSpec
=============================================================================
