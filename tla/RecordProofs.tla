---------------------------- MODULE RecordProofs ----------------------------
(***************************************************************************)
(* Proofs about what an operation leaves behind beside the policy: its     *)
(* audit event and the policy version.                                     *)
(*                                                                         *)
(* The audit sink, for any operations and any number of failures and       *)
(* crashes: an acknowledged event stays durable, allows are audited, no    *)
(* gap is silent, nothing is committed twice.                              *)
(*                                                                         *)
(* The policy version, for any enforcers, any mutations under way at once  *)
(* and any number of them: as long as the shared source was never          *)
(* unreachable, the version counts the committed mutations, except those   *)
(* that have not counted yet.                                              *)
(***************************************************************************)
EXTENDS AuditSink, PolicyVersion, FiniteSetTheorems, TLAPS

-----------------------------------------------------------------------------
(* The audit sink *)

\* The part of the type invariant the argument needs.
OpsTyped == /\ op \in [Ops -> OpStates]
            /\ commits \in [Mutations -> Nat]

\* What the outcome of a mutation says about its commit.  An AuditWriteError is
\* always marked Committed, and an operation that may start has not committed.
OutcomeTold ==
    \A m \in Mutations :
        /\ op[m].pc = "idle" => commits[m] = 0 /\ op[m].result = "none"
        /\ op[m].result = "error" => commits[m] = 0
        /\ op[m].result = "auditError" => op[m].committed

\* The invariant of the outcomes.
IInv == OpsTyped /\ OutcomeTold /\ AllowedIsAudited /\ NoSilentGap /\ CommittedOnce

\* IInv holds before the file is opened.
LEMMA InitInv == AuditInit => IInv
<1> SUFFICES ASSUME AuditInit PROVE IInv
    OBVIOUS
<1>1. OpsTyped
    BY DEF AuditInit, OpsTyped, OpStates, IdleOp
<1>2. \A o \in Ops : op[o] = IdleOp
    BY DEF AuditInit
<1>3. \A m \in Mutations : commits[m] = 0
    BY DEF AuditInit
<1> QED
    BY <1>1, <1>2, <1>3
    DEF IInv, OutcomeTold, AllowedIsAudited, NoSilentGap, CommittedOnce, IdleOp, Ops

\* One operation of an emit returns: what Returned stores for it.
LEMMA ReturnedFacts ==
    ASSUME OpsTyped, NEW o \in Ops, NEW err \in BOOLEAN, Returned(o, err)
    PROVE  /\ op' \in [Ops -> OpStates]
           /\ \A x \in Ops \ {o} : op'[x] = op[x]
           /\ op'[o].pc = "done"
           /\ err => op'[o].result = "auditError"
           /\ ~ err => op'[o].result \in {"ok", "denied"}
           /\ err /\ o \in Mutations => op'[o].committed
<1> DEFINE new == IF o \in Mutations THEN recordMutation(op[o], err)
                                     ELSE recordDecision(op[o], err)
<1>1. op[o] \in OpStates
    BY DEF OpsTyped
<1>2. new \in OpStates
    BY <1>1 DEF OpStates, recordMutation, recordDecision
<1>3. /\ new.pc = "done"
      /\ err => new.result = "auditError"
      /\ ~ err => new.result \in {"ok", "denied"}
      /\ err /\ o \in Mutations => new.committed
    BY <1>1 DEF OpStates, recordMutation, recordDecision
<1>4. op' = [op EXCEPT ![o] = new]
    BY DEF Returned
<1>5. op'[o] = new
    BY <1>4 DEF OpsTyped
<1> HIDE DEF new
<1> QED
    BY <1>2, <1>3, <1>4, <1>5 DEF OpsTyped

\* The invariant survives a step in which one running operation returns and is
\* acknowledged exactly when it returns without an error.
LEMMA ReturnInv ==
    ASSUME IInv, AuditConstantsOK, NEW o \in Ops, NEW err \in BOOLEAN,
           Returned(o, err), Running(o),
           acked' = IF err THEN acked ELSE acked \cup {o},
           commits' = commits
    PROVE  IInv'
<1>1. OpsTyped' /\ OpsTyped
    BY ReturnedFacts DEF IInv, OpsTyped
<1>2. /\ \A x \in Ops \ {o} : op'[x] = op[x]
      /\ op'[o].pc = "done"
      /\ err => op'[o].result = "auditError"
      /\ ~ err => op'[o].result \in {"ok", "denied"}
      /\ err /\ o \in Mutations => op'[o].committed
    BY <1>1, ReturnedFacts
<1>3. \A x \in Ops : x \in acked => x \in acked'
    OBVIOUS
<1>4. OutcomeTold'
    BY <1>2 DEF IInv, OutcomeTold, Ops
<1>5. AllowedIsAudited'
    BY <1>2, <1>3 DEF IInv, AllowedIsAudited, Ops
<1>6. NoSilentGap'
    BY <1>2, <1>3 DEF IInv, NoSilentGap, Ops, Running
<1>7. CommittedOnce'
    BY DEF IInv, CommittedOnce
<1> QED
    BY <1>1, <1>4, <1>5, <1>6, <1>7 DEF IInv

\* Steps that touch no operation, no commit and no acknowledgement.
LEMMA OtherInv ==
    ASSUME IInv, UNCHANGED <<op, commits, acked>>
    PROVE  IInv'
    BY DEF IInv, OpsTyped, OutcomeTold, AllowedIsAudited, NoSilentGap, CommittedOnce, Running

\* A running operation goes on to its next step.
LEMMA ProgressInv ==
    ASSUME IInv, NEW o \in Ops, Running(o), NEW next \in {"write", "sync"},
           op' = [op EXCEPT ![o].pc = next],
           UNCHANGED <<commits, acked>>
    PROVE  IInv'
<1>1. OpsTyped'
    BY DEF IInv, OpsTyped, OpStates
<1>2. /\ \A x \in Ops : op'[x].result = op[x].result /\ op'[x].committed = op[x].committed
      /\ \A x \in Ops \ {o} : op'[x] = op[x]
      /\ op'[o].pc = next
    BY DEF IInv, OpsTyped, OpStates
<1> QED
    BY <1>1, <1>2
    DEF IInv, OpsTyped, OutcomeTold, AllowedIsAudited, NoSilentGap, CommittedOnce, Running, Ops

\* IInv survives every step.
LEMMA NextInv == IInv /\ AuditConstantsOK /\ [AuditNext]_auditVars => IInv'
<1> SUFFICES ASSUME IInv, AuditConstantsOK, [AuditNext]_auditVars PROVE IInv'
    OBVIOUS
<1> USE DEF disk
<1>1. CASE OpenFile \/ Repair \/ Close
    BY <1>1, OtherInv DEF OpenFile, Repair, Close
<1>2. CASE Crash
  <2>1. OpsTyped'
    BY <1>2 DEF Crash, IInv, OpsTyped, OpStates, Running
  <2>2. \A o \in Ops : op'[o] = IF Running(o) THEN [op[o] EXCEPT !.pc = "dead"] ELSE op[o]
    BY <1>2 DEF Crash
  <2>3. \A o \in Ops : /\ op'[o].result = op[o].result /\ op'[o].committed = op[o].committed
                       /\ Running(o) => op'[o].pc = "dead"
                       /\ ~ Running(o) => op'[o] = op[o]
    BY <2>2 DEF IInv, OpsTyped, OpStates
  <2>4. UNCHANGED <<commits, acked>>
    BY <1>2 DEF Crash
  <2> QED
    BY <2>1, <2>3, <2>4
    DEF IInv, OutcomeTold, AllowedIsAudited, NoSilentGap, CommittedOnce, Ops
<1>3. ASSUME NEW bad \in BOOLEAN, SyncOpened(bad) \/ syncAuditParents(bad)
      PROVE  IInv'
    BY <1>3, OtherInv DEF SyncOpened, syncAuditParents
<1>4. ASSUME NEW bad \in BOOLEAN, NEW m \in Mutations, Mutate(m, bad)
      PROVE  IInv'
  <2>1. m \in Ops /\ op[m] \in OpStates
    BY DEF Ops, IInv, OpsTyped
  <2>2. op'[m].result = (IF bad THEN "error" ELSE "none")
        /\ op'[m].pc = (IF bad THEN "done" ELSE "emit")
        /\ commits'[m] = (IF bad THEN 0 ELSE 1)
    BY <1>4, <2>1 DEF Mutate, IInv, OpsTyped, OpStates, OutcomeTold
  <2>3. OpsTyped'
    <3> DEFINE new == IF bad THEN [op[m] EXCEPT !.pc = "done", !.result = "error"]
                             ELSE [op[m] EXCEPT !.pc = "emit"]
    <3>1. new \in OpStates
      BY <2>1 DEF OpStates
    <3>2. op' = [op EXCEPT ![m] = new]
      BY <1>4 DEF Mutate
    <3> HIDE DEF new
    <3>3. op' \in [Ops -> OpStates]
      BY <2>1, <3>1, <3>2 DEF IInv, OpsTyped
    <3>4. commits' \in [Mutations -> Nat]
      BY <1>4 DEF Mutate, IInv, OpsTyped
    <3> QED
      BY <3>3, <3>4 DEF OpsTyped
  <2>4. /\ \A x \in Ops \ {m} : op'[x] = op[x]
        /\ \A x \in Mutations \ {m} : commits'[x] = commits[x]
        /\ acked' = acked
    BY <1>4 DEF Mutate, IInv, OpsTyped
  <2> QED
    BY <2>1, <2>2, <2>3, <2>4
    DEF IInv, OutcomeTold, AllowedIsAudited, NoSilentGap, CommittedOnce, Ops, Running,
        AuditConstantsOK
<1>5. ASSUME NEW m \in Mutations, RetryMutation(m)
      PROVE  IInv'
  <2>1. m \in Ops /\ op'[m] = IdleOp /\ op[m].result = "error" /\ commits[m] = 0
    BY <1>5 DEF RetryMutation, Ops, IInv, OpsTyped, OutcomeTold
  <2>2. OpsTyped'
    BY <1>5 DEF RetryMutation, IInv, OpsTyped, OpStates, IdleOp
  <2>3. /\ \A x \in Ops \ {m} : op'[x] = op[x]
        /\ UNCHANGED <<commits, acked>>
    BY <1>5 DEF RetryMutation, IInv, OpsTyped
  <2> QED
    BY <2>1, <2>2, <2>3
    DEF IInv, OutcomeTold, AllowedIsAudited, NoSilentGap, CommittedOnce, Ops, Running,
        AuditConstantsOK, IdleOp
<1>6. ASSUME NEW d \in Decisions, NEW allowed \in BOOLEAN, Decide(d, allowed)
      PROVE  IInv'
  <2>1. d \in Ops /\ d \notin Mutations
    BY DEF Ops, AuditConstantsOK
  <2>2. OpsTyped'
    BY <1>6 DEF Decide, IInv, OpsTyped, OpStates
  <2>3. /\ \A x \in Ops \ {d} : op'[x] = op[x]
        /\ op'[d].result = op[d].result
        /\ UNCHANGED <<commits, acked>>
    BY <1>6, <2>1 DEF Decide, IInv, OpsTyped, OpStates
  <2> QED
    BY <2>1, <2>2, <2>3
    DEF IInv, OutcomeTold, AllowedIsAudited, NoSilentGap, CommittedOnce, Ops, Running
<1>7. ASSUME NEW o \in Ops, EmitEarly(o) \/ EmitRefused(o)
      PROVE  IInv'
    BY <1>7, ReturnInv DEF EmitEarly, EmitRefused, Running
<1>8. ASSUME NEW o \in Ops, EmitLock(o) \/ WriteLine(o)
      PROVE  IInv'
    BY <1>8, ProgressInv DEF EmitLock, WriteLine, Running
<1>9. ASSUME NEW o \in Ops, NEW short \in BOOLEAN, WriteFails(o, short)
      PROVE  IInv'
    BY <1>9, ReturnInv DEF WriteFails, Running
<1>10. ASSUME NEW o \in Ops, NEW bad \in BOOLEAN, Sync(o, bad)
       PROVE  IInv'
    BY <1>10, ReturnInv DEF Sync, Running
<1>11. CASE UNCHANGED auditVars
    BY <1>11, OtherInv DEF auditVars
<1> QED
    BY <1>1, <1>2, <1>3, <1>4, <1>5, <1>6, <1>7, <1>8, <1>9, <1>10, <1>11 DEF AuditNext, Emit

\* IInv is an invariant: what the theorems about the outcomes rest on.
THEOREM OutcomeInvariant == AuditSpec => []IInv
<1>1. AuditConstantsOK
    BY AuditConstantsOK
<1> QED
    BY <1>1, InitInv, NextInv, PTL DEF AuditSpec

\* A decision is an allow only if its event was acknowledged.
THEOREM AllowsAreAudited == AuditSpec => []AllowedIsAudited
    BY OutcomeInvariant, PTL DEF IInv

\* A committed mutation without an acknowledged event is running, has died with
\* its host, or ended with an AuditWriteError.
THEOREM NoGapIsSilent == AuditSpec => []NoSilentGap
    BY OutcomeInvariant, PTL DEF IInv

\* A caller that repeats only what the error does not call committed never
\* applies a mutation twice.
THEOREM NothingCommittedTwice == AuditSpec => []CommittedOnce
    BY OutcomeInvariant, PTL DEF IInv

-----------------------------------------------------------------------------
(* What Emit acknowledges stays in the file *)

\* The types of what the file consists of and of what was acknowledged.
FileTyped == /\ file \in Seq(Ops \cup {Torn})
             /\ durable \in 0 .. Len(file)
             /\ acked \subseteq Ops

\* Only the holder of s.mu writes or syncs, to an open file that has not failed.
LockHeld == \A o \in Ops : op[o].pc \in {"write", "sync"} =>
                mu = o /\ sink = "open" /\ ~ failed

\* The file an event may be appended to ends with a whole line.
TailWhole == sink \in {"checked", "synced"} \/ (sink = "open" /\ ~ failed) => ~ TornTail

\* The directory was synced before the sink was handed out.
OpenLinked == sink = "open" => linked

\* What Sync is about to acknowledge is the last line, and a whole one.
LineWritten == \A o \in Ops : op[o].pc = "sync" =>
                   /\ Len(file) > 0 /\ file[Len(file)] = o
                   /\ Len(file) = 1 \/ file[Len(file) - 1] # Torn

\* The invariant of the file.
DInv == FileTyped /\ LockHeld /\ TailWhole /\ OpenLinked /\ LineWritten /\ AckedDurable

\* DInv holds of the missing file.
LEMMA InitDurable == AuditInit => DInv
<1> SUFFICES ASSUME AuditInit PROVE DInv
    OBVIOUS
<1>1. FileTyped
    BY DEF AuditInit, FileTyped
<1>2. \A o \in Ops : op[o].pc = "idle"
    BY DEF AuditInit, IdleOp
<1> QED
    BY <1>1, <1>2 DEF AuditInit, DInv, LockHeld, TailWhole, OpenLinked, LineWritten, AckedDurable

\* An event that can be read stays so when the lines up to it stay.
LEMMA StaysReadable ==
    ASSUME NEW o, NEW n \in Nat, NEW k \in Nat, n <= k, Readable(o, n),
           \A i \in 1 .. n : file'[i] = file[i]
    PROVE  Readable(o, k)'
<1> PICK i \in 1 .. n : file[i] = o /\ (i = 1 \/ file[i - 1] # Torn)
    BY DEF Readable
<1>1. i \in 1 .. k /\ file'[i] = o /\ (i = 1 \/ file'[i - 1] # Torn)
    OBVIOUS
<1> QED
    BY <1>1 DEF Readable

\* The acknowledged events survive a step that keeps the durable lines.
LEMMA StaysDurable ==
    ASSUME FileTyped, FileTyped', AckedDurable, acked' = acked, linked => linked',
           durable <= durable', \A i \in 1 .. durable : file'[i] = file[i]
    PROVE  AckedDurable'
<1> SUFFICES ASSUME NEW o \in acked PROVE linked' /\ Readable(o, durable)'
    BY DEF AckedDurable
<1>1. linked /\ Readable(o, durable)
    BY DEF AckedDurable
<1>2. durable \in Nat /\ durable' \in Nat
    BY DEF FileTyped
<1> QED
    BY <1>1, <1>2, StaysReadable

\* The first n lines.
LEMMA PrefixFacts ==
    ASSUME NEW S, NEW s \in Seq(S), NEW n \in 0 .. Len(s)
    PROVE  /\ SubSeq(s, 1, n) \in Seq(S) /\ Len(SubSeq(s, 1, n)) = n
           /\ \A i \in 1 .. n : SubSeq(s, 1, n)[i] = s[i]
<1>1. Len(s) \in Nat /\ n \in Nat /\ n <= Len(s)
    OBVIOUS
<1> QED
    BY <1>1

\* A step that leaves the file and the sink alone, and in which no operation
\* comes to write or to sync.
LEMMA QuietDurable ==
    ASSUME DInv, UNCHANGED <<disk, sink, failed, mu, acked>>,
           \A o \in Ops : op'[o].pc \in {"write", "sync"} => op'[o].pc = op[o].pc
    PROVE  DInv'
<1>1. FileTyped' /\ TailWhole' /\ OpenLinked' /\ AckedDurable'
    BY DEF DInv, disk, FileTyped, TailWhole, TornTail, OpenLinked, AckedDurable, Readable
<1>2. LockHeld' /\ LineWritten'
    BY DEF DInv, disk, LockHeld, LineWritten
<1> QED
    BY <1>1, <1>2 DEF DInv

\* The same for a step in which one operation returns from an emit that has not
\* reached the file.
LEMMA ReturnDurable ==
    ASSUME DInv, IInv, UNCHANGED <<disk, sink, failed, mu, acked>>,
           NEW o \in Ops, Returned(o, TRUE)
    PROVE  DInv'
<1>1. op'[o].pc = "done" /\ \A x \in Ops \ {o} : op'[x] = op[x]
    BY ReturnedFacts DEF IInv
<1> QED
    BY <1>1, QuietDurable

\* DInv survives every step, crashes and repairs of the file included.
LEMMA NextDurable == DInv /\ IInv /\ AuditConstantsOK /\ [AuditNext]_auditVars => DInv'
<1> SUFFICES ASSUME DInv, IInv, AuditConstantsOK, [AuditNext]_auditVars PROVE DInv'
    OBVIOUS
<1>typ. op \in [Ops -> OpStates]
    BY DEF IInv, OpsTyped
<1>len. Len(file) \in Nat /\ durable \in Nat /\ durable <= Len(file)
    BY DEF DInv, FileTyped
<1>1. CASE OpenFile
  <2>1. \A o \in Ops : op'[o].pc \notin {"write", "sync"}
    BY <1>1 DEF OpenFile, Running
  <2>2. UNCHANGED <<file, durable, linked, acked>> /\ sink' = "checked" /\ ~ TornTail
    BY <1>1 DEF OpenFile, disk, TailComplete
  <2> QED
    BY <2>1, <2>2 DEF DInv, FileTyped, LockHeld, TailWhole, TornTail, OpenLinked, LineWritten,
                      AckedDurable, Readable
<1>2. ASSUME NEW bad \in BOOLEAN, SyncOpened(bad) PROVE DInv'
  <2>1. \A o \in Ops : op'[o].pc \notin {"write", "sync"}
    BY <1>2 DEF SyncOpened, DInv, LockHeld
  <2>2. /\ UNCHANGED <<file, linked, acked>>
        /\ durable' = durable \/ durable' = Len(file)
        /\ sink' \in {"none", "synced"}
        /\ ~ TornTail
    BY <1>2 DEF SyncOpened, DInv, TailWhole
  <2>3. FileTyped' /\ durable <= durable'
    BY <2>2, <1>len DEF DInv, FileTyped
  <2>4. AckedDurable'
    BY <2>2, <2>3, StaysDurable DEF DInv
  <2> QED
    BY <2>1, <2>2, <2>3, <2>4 DEF DInv, LockHeld, TailWhole, TornTail, OpenLinked, LineWritten
<1>3. ASSUME NEW bad \in BOOLEAN, syncAuditParents(bad) PROVE DInv'
  <2>1. \A o \in Ops : op'[o].pc \notin {"write", "sync"}
    BY <1>3 DEF syncAuditParents, DInv, LockHeld
  <2>2. /\ UNCHANGED <<file, durable, acked>>
        /\ linked => linked'
        /\ sink' = "none" \/ (sink' = "open" /\ linked')
        /\ ~ TornTail
    BY <1>3 DEF syncAuditParents, DInv, TailWhole
  <2>3. FileTyped'
    BY <2>2 DEF DInv, FileTyped
  <2>4. AckedDurable'
    BY <2>2, <2>3, <1>len, StaysDurable DEF DInv
  <2> QED
    BY <2>1, <2>2, <2>3, <2>4 DEF DInv, LockHeld, TailWhole, TornTail, OpenLinked, LineWritten
<1>4. CASE Repair
  <2>1. \A o \in Ops : op'[o].pc \notin {"write", "sync"}
    BY <1>4 DEF Repair, DInv, LockHeld
  <2>2. /\ file \in Seq(Ops \cup {Torn}) /\ Len(file) > 0 /\ file[Len(file)] = Torn
        /\ file' = SubSeq(file, 1, Len(file) - 1)
        /\ durable' = IF durable = Len(file) THEN durable - 1 ELSE durable
        /\ sink' \in {"none", "closed"} /\ UNCHANGED <<linked, acked>>
    BY <1>4 DEF Repair, TornTail, DInv, FileTyped
  <2>3. /\ file' \in Seq(Ops \cup {Torn}) /\ Len(file') = Len(file) - 1
        /\ \A i \in 1 .. Len(file) - 1 : file'[i] = file[i]
    <3>1. Len(file) - 1 \in 0 .. Len(file)
      BY <2>2, <1>len
    <3> QED
      BY <2>2, <3>1, PrefixFacts
  <2>4. FileTyped'
    BY <2>2, <2>3, <1>len DEF DInv, FileTyped
  <2>5. AckedDurable'
    <3> SUFFICES ASSUME NEW o \in acked PROVE linked' /\ Readable(o, durable)'
      BY <2>2 DEF AckedDurable
    <3>1. linked' /\ Readable(o, durable)
      BY <2>2 DEF DInv, AckedDurable
    <3>2. o # Torn
      BY DEF DInv, FileTyped, AuditConstantsOK
    <3>3. PICK i \in 1 .. durable : file[i] = o /\ (i = 1 \/ file[i - 1] # Torn)
      BY <3>1 DEF Readable
    <3>4. i \in 1 .. durable' /\ i <= Len(file) - 1
      BY <3>2, <3>3, <2>2, <1>len
    <3> QED
      BY <3>1, <3>3, <3>4, <2>3, <1>len DEF Readable
  <2> QED
    BY <2>1, <2>2, <2>4, <2>5 DEF DInv, LockHeld, TailWhole, OpenLinked, LineWritten
<1>5. CASE Close
  <2>1. \A o \in Ops : o # Free
    BY DEF AuditConstantsOK
  <2>2. \A o \in Ops : op'[o].pc \notin {"write", "sync"}
    BY <1>5, <2>1 DEF Close, DInv, LockHeld
  <2> QED
    BY <1>5, <2>2 DEF Close, disk, DInv, FileTyped, LockHeld, TailWhole, OpenLinked, LineWritten,
                      AckedDurable, Readable
<1>6. CASE Crash
  <2>1. \A o \in Ops : op'[o].pc \notin {"write", "sync"}
    <3> SUFFICES ASSUME NEW o \in Ops PROVE op'[o].pc \notin {"write", "sync"}
      OBVIOUS
    <3>1. op'[o] = IF Running(o) THEN [op[o] EXCEPT !.pc = "dead"] ELSE op[o]
      BY <1>6 DEF Crash
    <3>2. op[o] \in OpStates
      BY <1>typ
    <3> QED
      BY <3>1, <3>2 DEF Running, OpStates
  <2>2. sink' = "none" /\ durable' = Len(file') /\ UNCHANGED <<linked, acked>>
    BY <1>6 DEF Crash
  <2>3. FileTyped' /\ AckedDurable'
    <3>1. CASE \E n \in durable .. Len(file), cut \in BOOLEAN :
                  file' = SubSeq(file, 1, n) \o (IF cut /\ n < Len(file) THEN <<Torn>> ELSE << >>)
      <4>0. PICK n \in durable .. Len(file), cut \in BOOLEAN :
               file' = SubSeq(file, 1, n) \o (IF cut /\ n < Len(file) THEN <<Torn>> ELSE << >>)
        BY <3>1
      <4> DEFINE end == IF cut /\ n < Len(file) THEN <<Torn>> ELSE << >>
      <4>1. file' = SubSeq(file, 1, n) \o end /\ end \in Seq(Ops \cup {Torn})
        <5>1. <<Torn>> \in Seq(Ops \cup {Torn}) /\ << >> \in Seq(Ops \cup {Torn})
          OBVIOUS
        <5>2. end = <<Torn>> \/ end = << >>
          OBVIOUS
        <5>3. file' = SubSeq(file, 1, n) \o end
          BY <4>0, Zenon
        <5> HIDE DEF end
        <5> QED
          BY <5>1, <5>2, <5>3
      <4>2. file \in Seq(Ops \cup {Torn}) /\ n \in Nat /\ n \in 0 .. Len(file)
        BY <1>len DEF DInv, FileTyped
      <4> HIDE DEF end
      <4>3. /\ SubSeq(file, 1, n) \in Seq(Ops \cup {Torn}) /\ Len(SubSeq(file, 1, n)) = n
            /\ \A i \in 1 .. n : SubSeq(file, 1, n)[i] = file[i]
        BY <4>2, PrefixFacts
      <4>4. /\ file' \in Seq(Ops \cup {Torn}) /\ Len(file') >= n
            /\ \A i \in 1 .. n : file'[i] = file[i]
        BY <4>1, <4>2, <4>3, <1>len
      <4>5. FileTyped'
        BY <4>4, <2>2 DEF DInv, FileTyped
      <4>6. durable <= durable' /\ \A i \in 1 .. durable : file'[i] = file[i]
        BY <4>1, <4>2, <4>4, <4>5, <2>2, <1>len DEF FileTyped
      <4> QED
        BY <4>5, <4>6, <2>2, StaysDurable DEF DInv
    <3>2. CASE ~ linked /\ file' = << >>
      BY <3>2, <2>2 DEF DInv, FileTyped, AckedDurable
    <3> QED
      BY <1>6, <3>1, <3>2 DEF Crash
  <2> QED
    BY <2>1, <2>2, <2>3 DEF DInv, LockHeld, TailWhole, OpenLinked, LineWritten
<1>7. ASSUME NEW m \in Mutations, NEW bad \in BOOLEAN, Mutate(m, bad) PROVE DInv'
  <2>1. m \in Ops /\ op[m] \in OpStates
    BY <1>typ DEF Ops
  <2>2. op'[m].pc = IF bad THEN "done" ELSE "emit"
    BY <1>7, <1>typ, <2>1 DEF Mutate, OpStates
  <2>3. \A x \in Ops \ {m} : op'[x] = op[x]
    BY <1>7, <1>typ DEF Mutate
  <2> QED
    BY <1>7, <2>2, <2>3, QuietDurable DEF Mutate
<1>8. ASSUME NEW m \in Mutations, RetryMutation(m) PROVE DInv'
  <2>1. op'[m].pc = "idle" /\ \A x \in Ops \ {m} : op'[x] = op[x]
    BY <1>8, <1>typ DEF RetryMutation, Ops, IdleOp
  <2> QED
    BY <1>8, <2>1, QuietDurable DEF RetryMutation
<1>9. ASSUME NEW d \in Decisions, NEW allowed \in BOOLEAN, Decide(d, allowed) PROVE DInv'
  <2>1. op'[d].pc = "emit" /\ \A x \in Ops \ {d} : op'[x] = op[x]
    BY <1>9, <1>typ DEF Decide, Ops, OpStates
  <2> QED
    BY <1>9, <2>1, QuietDurable DEF Decide
<1>10. ASSUME NEW o \in Ops, EmitEarly(o) \/ EmitRefused(o) PROVE DInv'
    BY <1>10, ReturnDurable DEF EmitEarly, EmitRefused
<1>11. ASSUME NEW o \in Ops, EmitLock(o) PROVE DInv'
  <2>1. \A x \in Ops : x # Free
    BY DEF AuditConstantsOK
  <2>2. /\ mu' = o /\ sink = "open" /\ ~ failed
        /\ UNCHANGED <<file, durable, linked, sink, failed, acked>>
    BY <1>11 DEF EmitLock, Refuses, disk
  <2>3. op'[o].pc = "write" /\ \A x \in Ops \ {o} : op'[x].pc \notin {"write", "sync"}
    BY <1>11, <1>typ, <2>1 DEF EmitLock, DInv, LockHeld, OpStates
  <2> QED
    BY <2>2, <2>3 DEF DInv, FileTyped, LockHeld, TailWhole, TornTail, OpenLinked, LineWritten,
                      AckedDurable, Readable
<1>12. ASSUME NEW o \in Ops, WriteLine(o) PROVE DInv'
  <2>1. /\ mu = o /\ sink = "open" /\ ~ failed /\ ~ TornTail
        /\ file' = Append(file, o) /\ file \in Seq(Ops \cup {Torn})
        /\ UNCHANGED <<durable, linked, sink, failed, mu, acked>>
    BY <1>12 DEF WriteLine, DInv, LockHeld, TailWhole, FileTyped
  <2>2. op'[o].pc = "sync" /\ \A x \in Ops \ {o} : op'[x].pc \notin {"write", "sync"}
    BY <1>12, <1>typ, <2>1 DEF WriteLine, DInv, LockHeld, OpStates
  <2>3. /\ file' \in Seq(Ops \cup {Torn}) /\ Len(file') = Len(file) + 1
        /\ file'[Len(file')] = o /\ \A i \in 1 .. Len(file) : file'[i] = file[i]
    BY <2>1, <1>len
  <2>4. FileTyped'
    BY <2>1, <2>3, <1>len DEF DInv, FileTyped
  <2>5. AckedDurable'
    BY <2>1, <2>3, <2>4, <1>len, StaysDurable DEF DInv
  <2>6. TailWhole'
    BY <2>3 DEF TailWhole, TornTail, AuditConstantsOK
  <2>7. Len(file') = 1 \/ file'[Len(file') - 1] # Torn
    BY <2>1, <2>3, <1>len DEF TornTail
  <2>8. LineWritten'
    BY <2>2, <2>3, <2>7, <1>len DEF LineWritten
  <2> QED
    BY <2>1, <2>2, <2>4, <2>5, <2>6, <2>8 DEF DInv, LockHeld, OpenLinked
<1>13. ASSUME NEW o \in Ops, NEW short \in BOOLEAN, WriteFails(o, short) PROVE DInv'
  <2>1. /\ failed' /\ UNCHANGED <<durable, linked, sink, acked>>
        /\ file' = Append(file, Torn) \/ file' = file
        /\ file \in Seq(Ops \cup {Torn}) /\ mu = o
    BY <1>13 DEF WriteFails, DInv, LockHeld, FileTyped
  <2>2. op'[o].pc = "done" /\ \A x \in Ops \ {o} : op'[x] = op[x]
    BY <1>13, ReturnedFacts DEF WriteFails, IInv
  <2>3. \A x \in Ops : op'[x].pc \notin {"write", "sync"}
    BY <2>1, <2>2 DEF DInv, LockHeld
  <2>4. /\ file' \in Seq(Ops \cup {Torn}) /\ Len(file') >= Len(file)
        /\ \A i \in 1 .. Len(file) : file'[i] = file[i]
    BY <2>1, <1>len
  <2>5. FileTyped'
    BY <2>1, <2>4, <1>len DEF DInv, FileTyped
  <2>6. AckedDurable'
    BY <2>1, <2>4, <2>5, <1>len, StaysDurable DEF DInv
  <2>7. sink' = "open"
    BY <1>13, <2>1 DEF WriteFails, DInv, LockHeld
  <2> QED
    BY <2>1, <2>3, <2>5, <2>6, <2>7 DEF DInv, LockHeld, TailWhole, OpenLinked, LineWritten
<1>14. ASSUME NEW o \in Ops, NEW bad \in BOOLEAN, Sync(o, bad) PROVE DInv'
  <2>1. /\ mu = o /\ sink = "open" /\ linked /\ ~ TornTail
        /\ Len(file) > 0 /\ file[Len(file)] = o
        /\ Len(file) = 1 \/ file[Len(file) - 1] # Torn
    BY <1>14 DEF Sync, DInv, LockHeld, TailWhole, OpenLinked, LineWritten
  <2>2. /\ UNCHANGED <<file, linked, sink>>
        /\ durable' = IF bad THEN durable ELSE Len(file)
        /\ acked' = IF bad THEN acked ELSE acked \cup {o}
    BY <1>14 DEF Sync
  <2>3. op'[o].pc = "done" /\ \A x \in Ops \ {o} : op'[x] = op[x]
    BY <1>14, ReturnedFacts DEF Sync, IInv
  <2>4. \A x \in Ops : op'[x].pc \notin {"write", "sync"}
    BY <2>1, <2>3 DEF DInv, LockHeld
  <2>5. FileTyped' /\ durable <= durable' /\ durable' \in Nat
    BY <2>2, <1>len DEF DInv, FileTyped
  <2>6. \A x \in acked : linked' /\ Readable(x, durable)'
    BY <2>1, <2>2, <2>5, <1>len, StaysReadable DEF DInv, AckedDurable
  <2>7. ~ bad => Readable(o, durable)'
    BY <2>1, <2>2, <1>len DEF Readable
  <2>8. AckedDurable'
    BY <2>1, <2>2, <2>6, <2>7 DEF AckedDurable
  <2> QED
    BY <2>1, <2>2, <2>4, <2>5, <2>8
    DEF DInv, LockHeld, TailWhole, TornTail, OpenLinked, LineWritten
<1>15. CASE UNCHANGED auditVars
    BY <1>15, QuietDurable DEF auditVars, disk
<1> QED
    BY <1>1, <1>2, <1>3, <1>4, <1>5, <1>6, <1>7, <1>8, <1>9, <1>10, <1>11, <1>12, <1>13, <1>14,
       <1>15
    DEF AuditNext, Emit

\* An event Emit has acknowledged is a whole line that no crash takes away.
THEOREM AcknowledgedIsDurable == AuditSpec => []AckedDurable
<1>1. AuditConstantsOK
    BY AuditConstantsOK
<1>2. DInv => AckedDurable
    BY DEF DInv
<1> QED
    BY <1>1, <1>2, InitDurable, NextDurable, OutcomeInvariant, PTL DEF AuditSpec

-----------------------------------------------------------------------------
(* The policy version *)

\* The types the proofs need; a version is any number here.
NatWorkers == [pc : {"idle", "count", "next", "mirror", "flush", "publish"},
               on : Instances \cup {Nothing}, value : Nat, before : Nat]
NatViews == [pc : {"idle", "permissions", "version", "mirror", "rendered"},
             on : Instances \cup {Nothing},
             roles : Nat, permissions : Nat, version : Nat, floor : Nat, quiet : BOOLEAN]

\* Deployments, numbers and records.
Typed == /\ deployment \in Deployments
         /\ policy \in Nat /\ source \in Nat /\ local \in [Instances -> Nat]
         /\ cache \in [Instances -> Nat \cup {Nothing}]
         /\ events \subseteq Instances /\ missed \subseteq Instances
         /\ worker \in [Mutators -> NatWorkers]
         /\ view \in NatViews
         /\ screen \in [version : Nat, roles : Nat, permissions : Nat]
         /\ errors \in Nat /\ floor \in Nat

\* Who works where: on an enforcer of the deployment, and with the shared source
\* only when there is one.
Placed == /\ \A m \in Mutators : /\ ~ At(m, "idle") => Instance(worker[m].on)
                                 /\ At(m, "next") \/ At(m, "mirror") => deployment.shared
          /\ view.pc # "idle" => Instance(view.on)
          /\ view.pc = "mirror" => deployment.shared

\* The version that enforcer i reports when it can.
Authority(i) == IF deployment.shared THEN source ELSE local[i]

\* Mutations that have committed and not counted yet.
Pending == {m \in Mutators : worker[m].pc \in {"count", "next"}}

\* Mutations that have counted.
Counted(m) == worker[m].pc \in {"mirror", "flush", "publish"}

\* Without a failure of the source, every commit has counted or is pending, and
\* nobody has seen a version that was not there.
Counting ==
    errors = 0 => \A i \in deployment.instances :
        /\ policy = Authority(i) + Cardinality(Pending)
        /\ screen.version <= Authority(i) /\ floor <= Authority(i)
        /\ \A m \in Mutators : /\ ~ At(m, "idle") => worker[m].before <= Authority(i)
                               /\ Counted(m) => worker[m].before + 1 <= Authority(i)
        /\ view.pc \in {"mirror", "rendered"} => view.version <= Authority(i)

\* What a view has promised the page.
Promised == /\ view.floor <= floor
            /\ errors = 0 /\ view.pc \in {"mirror", "rendered"} => view.version >= view.floor

\* A mutation that still has to drop what enforcer i has cached.
WillDrop(m, i) == ~ At(m, "idle") /\ (worker[m].on = i => ~ At(m, "publish"))

\* Cached permissions are current, or will be dropped, or an event did not reach them.
CacheInv == \A i \in deployment.instances :
                cache[i] \notin {Nothing, policy} =>
                    \/ i \in events \/ i \in missed
                    \/ \E m \in Mutators : WillDrop(m, i)

\* A view that nothing disturbed shows the policy, and its version.
QuietInv ==
    view.quiet =>
        /\ Calm
        /\ view.pc = "permissions" => view.on \notin missed
        /\ view.pc # "idle" => view.roles = policy
        /\ view.pc \in {"version", "mirror", "rendered"} => view.permissions = policy
        /\ errors = 0 /\ view.pc = "mirror" => view.version = policy

\* A version that was reported undisturbed is the number of mutations it shows.
KnownInv == \A x \in known : \E n \in Nat : x = <<n, n, n>>

\* The inductive invariant.
VInv == Typed /\ Placed /\ Counting /\ Promised /\ CacheInv /\ QuietInv /\ KnownInv

-----------------------------------------------------------------------------
(* What a step does to a worker, a view and the page *)

\* Where a mutation can be.
WorkerPcs == {"idle", "count", "next", "mirror", "flush", "publish"}

\* A mutation goes on.
LEMMA GoOnFacts ==
    ASSUME Typed, NEW m \in Mutators, NEW pc \in WorkerPcs, NEW v \in Nat,
           GoOn(m, pc) \/ worker' = [worker EXCEPT ![m].pc = pc, ![m].value = v]
    PROVE  /\ worker' \in [Mutators -> NatWorkers]
           /\ worker'[m].pc = pc /\ worker'[m].on = worker[m].on
           /\ worker'[m].before = worker[m].before
           /\ \A k \in Mutators \ {m} : worker'[k] = worker[k]
<1>0. worker \in [Mutators -> NatWorkers]
  BY DEF Typed
<1>1. CASE GoOn(m, pc)
  BY <1>0, <1>1 DEF GoOn, NatWorkers, WorkerPcs
<1>2. CASE worker' = [worker EXCEPT ![m].pc = pc, ![m].value = v]
  BY <1>0, <1>2 DEF NatWorkers, WorkerPcs
<1> QED
  BY <1>1, <1>2

\* A mutation begins.
LEMMA CommitFacts ==
    ASSUME Typed, NEW m \in Mutators, NEW i \in Instances, Commit(m, i)
    PROVE  /\ worker' \in [Mutators -> NatWorkers]
           /\ worker'[m].pc = "count" /\ worker'[m].on = i
           /\ worker'[m].before = screen.version
           /\ \A k \in Mutators \ {m} : worker'[k] = worker[k]
<1> DEFINE w == [pc |-> "count", on |-> i, value |-> 0, before |-> screen.version]
<1>0. worker \in [Mutators -> NatWorkers] /\ screen.version \in Nat
  BY DEF Typed
<1>1. w \in NatWorkers /\ w.pc = "count" /\ w.on = i /\ w.before = screen.version
  BY <1>0 DEF NatWorkers
<1>2. worker' = [worker EXCEPT ![m] = w]
  BY DEF Commit
<1> HIDE DEF w
<1> QED
  BY <1>0, <1>1, <1>2

\* A mutation returns.
LEMMA ReturnFacts ==
    ASSUME Typed, NEW m \in Mutators, NEW lost \in SUBSET Instances, PublishAndReturn(m, lost)
    PROVE  /\ worker' \in [Mutators -> NatWorkers]
           /\ worker'[m].pc = "idle"
           /\ \A k \in Mutators \ {m} : worker'[k] = worker[k]
<1>0. worker \in [Mutators -> NatWorkers]
  BY DEF Typed
<1>1. IdleWorker \in NatWorkers /\ IdleWorker.pc = "idle"
  BY DEF NatWorkers, IdleWorker
<1> QED
  BY <1>0, <1>1 DEF PublishAndReturn

\* The state of a view after its next read.
LEMMA ViewFacts ==
    ASSUME Typed
    PROVE  /\ \A m \in Mutators, i \in Instances : Commit(m, i) =>
                 /\ view' \in NatViews /\ view'.quiet = FALSE
                 /\ view'.pc = view.pc /\ view'.on = view.on
                 /\ view'.version = view.version /\ view'.floor = view.floor
           /\ \A i \in Instances : ViewRoles(i) =>
                 /\ view' \in NatViews /\ view'.quiet = (Calm /\ i \notin missed)
                 /\ view'.pc = "permissions" /\ view'.on = i /\ view'.roles = policy
                 /\ view'.floor = floor
           /\ ViewVersion =>
                 /\ view' \in NatViews /\ view'.quiet = view.quiet
                 /\ view'.pc = "mirror" /\ view'.on = view.on /\ view'.roles = view.roles
                 /\ view'.permissions = view.permissions
                 /\ view'.version = source /\ view'.floor = view.floor
<1>0. view \in NatViews /\ policy \in Nat /\ floor \in Nat /\ source \in Nat
  BY DEF Typed
<1>1. ASSUME NEW m \in Mutators, NEW i \in Instances, Commit(m, i)
      PROVE  /\ view' \in NatViews /\ view'.quiet = FALSE
             /\ view'.pc = view.pc /\ view'.on = view.on
             /\ view'.version = view.version /\ view'.floor = view.floor
  BY <1>0, <1>1 DEF Commit, NatViews
<1>2. ASSUME NEW i \in Instances, ViewRoles(i)
      PROVE  /\ view' \in NatViews /\ view'.quiet = (Calm /\ i \notin missed)
             /\ view'.pc = "permissions" /\ view'.on = i /\ view'.roles = policy
             /\ view'.floor = floor
  <2> DEFINE q == Calm /\ i \notin missed
  <2>1. q \in BOOLEAN
    BY DEF Calm
  <2>2. view' = [view EXCEPT !.pc = "permissions", !.on = i, !.roles = policy,
                             !.floor = floor, !.quiet = q]
    BY <1>2 DEF ViewRoles
  <2> HIDE DEF q
  <2>3. /\ view' \in NatViews /\ view'.quiet = q
        /\ view'.pc = "permissions" /\ view'.on = i /\ view'.roles = policy
        /\ view'.floor = floor
    BY <1>0, <1>2, <2>1, <2>2 DEF NatViews
  <2> QED
    BY <2>3 DEF q
<1>3. ASSUME ViewVersion
      PROVE  /\ view' \in NatViews /\ view'.quiet = view.quiet
             /\ view'.pc = "mirror" /\ view'.on = view.on /\ view'.roles = view.roles
             /\ view'.permissions = view.permissions
             /\ view'.version = source /\ view'.floor = view.floor
  BY <1>0, <1>3 DEF ViewVersion, NatViews
<1> QED
  BY <1>1, <1>2, <1>3

\* The permissions of a view are the cached ones, or the store's.
LEMMA ViewPermissionsFacts ==
    ASSUME Typed, Placed, ViewPermissions
    PROVE  /\ view' \in NatViews /\ view'.quiet = view.quiet /\ view'.pc = "version"
           /\ view'.on = view.on /\ view'.roles = view.roles /\ view'.floor = view.floor
           /\ Instance(view.on) /\ view.on \in Instances
           /\ view'.permissions = IF cache[view.on] = Nothing THEN policy ELSE cache[view.on]
           /\ cache' = [cache EXCEPT ![view.on] = view'.permissions]
<1> DEFINE found == IF cache[view.on] = Nothing THEN policy ELSE cache[view.on]
<1>0. view \in NatViews /\ policy \in Nat /\ cache \in [Instances -> Nat \cup {Nothing}]
  BY DEF Typed
<1>1. Instance(view.on) /\ view.on \in Instances
  BY <1>0, VersionConstantsOK DEF Typed, Placed, ViewPermissions, Instance, DeploymentShapes
<1>2. found \in Nat
  BY <1>0, <1>1
<1>3. /\ view' = [view EXCEPT !.pc = "version", !.permissions = found]
      /\ cache' = [cache EXCEPT ![view.on] = found]
  BY DEF ViewPermissions
<1> HIDE DEF found
<1>4. /\ view' \in NatViews /\ view'.quiet = view.quiet /\ view'.pc = "version"
      /\ view'.on = view.on /\ view'.roles = view.roles /\ view'.floor = view.floor
      /\ view'.permissions = found
  BY <1>0, <1>2, <1>3 DEF NatViews
<1> QED
  BY <1>1, <1>3, <1>4 DEF found

\* The page renders what is new.
LEMMA RenderFacts ==
    ASSUME Typed, NEW v \in NatViews, Render(v)
    PROVE  /\ view' \in NatViews /\ view'.quiet = v.quiet /\ view'.pc = "rendered"
           /\ view'.on = v.on /\ view'.roles = v.roles /\ view'.permissions = v.permissions
           /\ view'.version = v.version /\ view'.floor = v.floor
           /\ screen' \in [version : Nat, roles : Nat, permissions : Nat]
           /\ screen'.version = v.version
           /\ \A x \in known' : \/ x \in known
                                \/ /\ v.quiet /\ errors' = 0
                                   /\ x = <<v.version, v.roles, v.permissions>>
<1>0. screen \in [version : Nat, roles : Nat, permissions : Nat]
  BY DEF Typed
<1>1. /\ view' \in NatViews /\ view'.quiet = v.quiet /\ view'.pc = "rendered"
      /\ view'.on = v.on /\ view'.roles = v.roles /\ view'.permissions = v.permissions
      /\ view'.version = v.version /\ view'.floor = v.floor
  BY DEF Render, NatViews
<1> DEFINE p == [version |-> v.version, roles |-> v.roles, permissions |-> v.permissions]
<1>2. p \in [version : Nat, roles : Nat, permissions : Nat] /\ p.version = v.version
  BY DEF NatViews
<1>3. screen' = IF v.version = screen.version THEN screen ELSE p
  BY DEF Render
<1> HIDE DEF p
<1>4. screen' \in [version : Nat, roles : Nat, permissions : Nat] /\ screen'.version = v.version
  BY <1>0, <1>2, <1>3
<1>5. \A x \in known' : \/ x \in known
                        \/ /\ v.quiet /\ errors' = 0
                           /\ x = <<v.version, v.roles, v.permissions>>
  BY DEF Render
<1> QED
  BY <1>1, <1>4, <1>5

\* A view that reports the local counter.
LEMMA LocalViewFacts ==
    ASSUME Typed, Placed, ViewLocalVersion
    PROVE  LET v == [view EXCEPT !.version = local[view.on]] IN
           /\ v \in NatViews /\ Render(v) /\ Instance(view.on) /\ view.on \in Instances
           /\ v.quiet = view.quiet /\ v.on = view.on /\ v.roles = view.roles
           /\ v.permissions = view.permissions /\ v.floor = view.floor
           /\ v.version = local[view.on]
<1>0. view \in NatViews /\ local \in [Instances -> Nat]
  BY DEF Typed
<1>1. Instance(view.on) /\ view.on \in Instances
  BY <1>0, VersionConstantsOK DEF Typed, Placed, ViewLocalVersion, Instance, DeploymentShapes
<1>2. local[view.on] \in Nat
  BY <1>0, <1>1
<1>3. Render([view EXCEPT !.version = local[view.on]])
  BY DEF ViewLocalVersion
<1> QED
  BY <1>0, <1>1, <1>2, <1>3 DEF NatViews

-----------------------------------------------------------------------------
(* The parts of the invariant *)

\* Steps of a mutation between its commit and its return.
Counts(m) == \/ CountLocal(m) \/ NextPolicyVersion(m) \/ NextVersionFails(m)
             \/ MirrorNext(m) \/ FlushCache(m)

\* Where such a step leads.
LEMMA CountsFacts ==
    ASSUME Typed, Placed, NEW m \in Mutators, Counts(m)
    PROVE  /\ worker' \in [Mutators -> NatWorkers]
           /\ worker'[m].on = worker[m].on /\ worker'[m].before = worker[m].before
           /\ \A k \in Mutators \ {m} : worker'[k] = worker[k]
           /\ ~ At(m, "idle") /\ Instance(worker[m].on) /\ worker[m].on \in Instances
           /\ CountLocal(m) => worker'[m].pc = IF deployment.shared THEN "next" ELSE "flush"
           /\ NextPolicyVersion(m) => worker'[m].pc = "mirror"
           /\ NextVersionFails(m) \/ MirrorNext(m) => worker'[m].pc = "flush"
           /\ FlushCache(m) => worker'[m].pc = "publish"
<1>0. ~ At(m, "idle")
  BY DEF Counts, CountLocal, NextPolicyVersion, NextVersionFails, MirrorNext, FlushCache, At
<1>1. Instance(worker[m].on) /\ worker[m].on \in Instances
  BY <1>0, VersionConstantsOK DEF Typed, Placed, Instance, DeploymentShapes
<1>2. source + 1 \in Nat
  BY DEF Typed
<1>3. ASSUME NEW pc \in WorkerPcs, GoOn(m, pc)
      PROVE  /\ worker' \in [Mutators -> NatWorkers]
             /\ worker'[m].pc = pc /\ worker'[m].on = worker[m].on
             /\ worker'[m].before = worker[m].before
             /\ \A k \in Mutators \ {m} : worker'[k] = worker[k]
  BY <1>2, <1>3, GoOnFacts
<1>4. CASE CountLocal(m)
  <2>1. GoOn(m, IF deployment.shared THEN "next" ELSE "flush") /\ At(m, "count")
    BY <1>4 DEF CountLocal
  <2>2. ~ NextPolicyVersion(m) /\ ~ NextVersionFails(m) /\ ~ MirrorNext(m) /\ ~ FlushCache(m)
    BY <2>1 DEF NextPolicyVersion, NextVersionFails, MirrorNext, FlushCache, At
  <2> QED
    BY <1>0, <1>1, <1>3, <2>1, <2>2 DEF WorkerPcs
<1>5. CASE NextPolicyVersion(m) /\ ~ NextVersionFails(m)
  <2>1. worker' = [worker EXCEPT ![m].pc = "mirror", ![m].value = source + 1] /\ At(m, "next")
    BY <1>5 DEF NextPolicyVersion
  <2>2. ~ CountLocal(m) /\ ~ MirrorNext(m) /\ ~ FlushCache(m)
    BY <2>1 DEF CountLocal, MirrorNext, FlushCache, At
  <2>3. /\ worker' \in [Mutators -> NatWorkers]
        /\ worker'[m].pc = "mirror" /\ worker'[m].on = worker[m].on
        /\ worker'[m].before = worker[m].before
        /\ \A k \in Mutators \ {m} : worker'[k] = worker[k]
    BY <1>2, <2>1, GoOnFacts DEF WorkerPcs
  <2> QED
    BY <1>0, <1>1, <1>5, <2>2, <2>3
<1>6. CASE NextVersionFails(m)
  <2>1. GoOn(m, "flush") /\ At(m, "next") /\ source' = source
    BY <1>6 DEF NextVersionFails
  <2>2. ~ CountLocal(m) /\ ~ NextPolicyVersion(m) /\ ~ FlushCache(m)
    BY <2>1 DEF CountLocal, NextPolicyVersion, FlushCache, At, Typed
  <2> QED
    BY <1>0, <1>1, <1>3, <2>1, <2>2 DEF WorkerPcs
<1>7. CASE MirrorNext(m)
  <2>1. GoOn(m, "flush") /\ At(m, "mirror")
    BY <1>7 DEF MirrorNext
  <2>2. ~ CountLocal(m) /\ ~ NextPolicyVersion(m) /\ ~ FlushCache(m)
    BY <2>1 DEF CountLocal, NextPolicyVersion, FlushCache, At
  <2> QED
    BY <1>0, <1>1, <1>3, <2>1, <2>2 DEF WorkerPcs
<1>8. CASE FlushCache(m)
  <2>1. GoOn(m, "publish") /\ At(m, "flush")
    BY <1>8 DEF FlushCache
  <2>2. ~ CountLocal(m) /\ ~ NextPolicyVersion(m) /\ ~ NextVersionFails(m) /\ ~ MirrorNext(m)
    BY <2>1 DEF CountLocal, NextPolicyVersion, NextVersionFails, MirrorNext, At
  <2> QED
    BY <1>0, <1>1, <1>3, <2>1, <2>2 DEF WorkerPcs
<1> QED
  BY <1>4, <1>5, <1>6, <1>7, <1>8 DEF Counts

\* An enforcer drops what it has cached, told to or because its time is over.
Drops(i) == ApplyEvent(i) \/ Expire(i)

\* Nothing else changes but the event.
LEMMA DropsFacts ==
    ASSUME NEW i, Drops(i)
    PROVE  /\ cache' = [cache EXCEPT ![i] = Nothing]
           /\ missed' = missed \ {i}
           /\ events \ {i} \subseteq events' /\ events' \subseteq events
           /\ UNCHANGED <<deployment, policy, source, local, worker, view, screen, errors,
                          floor, known>>
  BY DEF Drops, ApplyEvent, Expire, DropCached

\* No step changes the deployment, or takes a failure back.
LEMMA FrameFacts ==
    ASSUME Typed, Next
    PROVE  /\ deployment' = deployment
           /\ errors' \in Nat /\ (errors' = 0 => errors = 0)
<1>0. errors \in Nat
  BY DEF Typed
<1>1. deployment' = deployment /\ errors' \in {errors, errors + 1}
  BY DEF Next, AfterCommit, Fetch, Commit, CountLocal, NextPolicyVersion, NextVersionFails, MirrorNext,
         FlushCache, PublishAndReturn, ApplyEvent, Expire, DropCached, ViewRoles, ViewPermissions,
         ViewVersion, MirrorView, ViewLocalVersion
<1> QED
  BY <1>0, <1>1

\* The types are kept.
LEMMA TypedNext == ASSUME Typed, Placed, Next PROVE Typed'
<1>0. /\ local \in [Instances -> Nat] /\ cache \in [Instances -> Nat \cup {Nothing}]
      /\ worker \in [Mutators -> NatWorkers] /\ view \in NatViews /\ source \in Nat
      /\ deployment' \in Deployments /\ errors' \in Nat
  BY FrameFacts DEF Typed
<1>1. ASSUME NEW m \in Mutators, NEW i \in Instances, Commit(m, i) PROVE Typed'
  <2>1. worker' \in [Mutators -> NatWorkers]
    BY <1>1, CommitFacts
  <2>2. view' \in NatViews
    BY <1>1, ViewFacts
  <2>3. policy' \in Nat /\ UNCHANGED <<source, local, cache, events, missed, screen, floor>>
    BY <1>1 DEF Commit, Typed
  <2> QED
    BY <1>0, <2>1, <2>2, <2>3 DEF Typed
<1>2. ASSUME NEW m \in Mutators, Counts(m) PROVE Typed'
  <2>1. /\ worker' \in [Mutators -> NatWorkers] /\ worker[m].on \in Instances
        /\ local[worker[m].on] + 1 \in Nat /\ worker[m].value \in Nat
    BY <1>0, <1>2, CountsFacts DEF NatWorkers
  <2>2. local' \in [Instances -> Nat]
    BY <1>0, <1>2, <2>1 DEF Counts, CountLocal, NextPolicyVersion, NextVersionFails, MirrorNext, FlushCache
  <2>3. cache' \in [Instances -> Nat \cup {Nothing}]
    BY <1>0, <1>2, <2>1 DEF Counts, CountLocal, NextPolicyVersion, NextVersionFails, MirrorNext, FlushCache
  <2>4. source' \in Nat /\ UNCHANGED <<policy, events, view, screen, floor>>
    BY <1>0, <1>2 DEF Counts, CountLocal, NextPolicyVersion, NextVersionFails, MirrorNext, FlushCache
  <2>5. missed' \subseteq missed
    BY <1>2 DEF Counts, CountLocal, NextPolicyVersion, NextVersionFails, MirrorNext, FlushCache
  <2> QED
    BY <1>0, <2>1, <2>2, <2>3, <2>4, <2>5 DEF Typed
<1>3. ASSUME NEW m \in Mutators, NEW lost \in SUBSET Instances, PublishAndReturn(m, lost) PROVE Typed'
  <2>1. floor' \in Nat
    BY <1>0, <1>3 DEF PublishAndReturn, Greater, Typed, NatWorkers
  <2>2. events' \subseteq Instances /\ missed' \subseteq Instances
    BY <1>3, VersionConstantsOK DEF PublishAndReturn, Typed, DeploymentShapes
  <2> QED
    BY <1>0, <1>3, <2>1, <2>2, ReturnFacts DEF Typed, PublishAndReturn
<1>4. ASSUME NEW i \in Instances, Drops(i) PROVE Typed'
  <2>1. cache' \in [Instances -> Nat \cup {Nothing}]
    BY <1>0, <1>4, DropsFacts
  <2> QED
    BY <1>0, <1>4, <2>1, DropsFacts DEF Typed
<1>5. ASSUME NEW i \in Instances, ViewRoles(i) PROVE Typed'
  BY <1>0, <1>5, ViewFacts DEF Typed, ViewRoles
<1>6. CASE ViewPermissions
  <2>1. view' \in NatViews /\ view'.permissions \in Nat /\ cache' = [cache EXCEPT ![view.on] = view'.permissions]
    BY <1>6, ViewPermissionsFacts DEF NatViews
  <2>2. cache' \in [Instances -> Nat \cup {Nothing}]
    BY <1>0, <2>1
  <2> QED
    BY <1>0, <1>6, <2>1, <2>2 DEF Typed, ViewPermissions
<1>7. CASE ViewVersion
  BY <1>0, <1>7, ViewFacts DEF Typed, ViewVersion
<1>8. CASE MirrorView
  <2>1. local' \in [Instances -> Nat]
    BY <1>0, <1>8 DEF MirrorView, NatViews
  <2> QED
    BY <1>0, <1>8, <2>1, RenderFacts DEF Typed, MirrorView
<1>9. CASE ViewLocalVersion
  <2>1. view' \in NatViews /\ screen' \in [version : Nat, roles : Nat, permissions : Nat]
    BY <1>9, LocalViewFacts, RenderFacts
  <2> QED
    BY <1>0, <1>9, <2>1 DEF Typed, ViewLocalVersion
<1> QED
  BY <1>1, <1>2, <1>3, <1>4, <1>5, <1>6, <1>7, <1>8, <1>9 DEF Next, AfterCommit, Fetch, Counts, Drops

\* Everybody stays where they are until they are done.
LEMMA PlacedNext == ASSUME Typed, Placed, Next PROVE Placed'
<1>0. deployment' = deployment
  BY FrameFacts
<1>1. ASSUME NEW m \in Mutators, NEW i \in Instances, Commit(m, i) PROVE Placed'
  <2>1. Instance(i)
    BY <1>1 DEF Commit
  <2> QED
    <3>1. view'.pc = view.pc /\ view'.on = view.on
      BY <1>1, ViewFacts
    <3>2. worker'[m].pc = "count" /\ worker'[m].on = i /\ \A k \in Mutators \ {m} : worker'[k] = worker[k]
      BY <1>1, CommitFacts
    <3> QED
      BY <1>0, <2>1, <3>1, <3>2 DEF Placed, At, Instance
<1>2. ASSUME NEW m \in Mutators, Counts(m) PROVE Placed'
  <2>1. view' = view
    BY <1>2 DEF Counts, CountLocal, NextPolicyVersion, NextVersionFails, MirrorNext, FlushCache
  <2>2. /\ worker'[m].on = worker[m].on /\ Instance(worker[m].on)
        /\ \A k \in Mutators \ {m} : worker'[k] = worker[k]
        /\ worker'[m].pc \in {"next", "mirror"} => deployment.shared
    BY <1>2, CountsFacts DEF Counts, Placed, NextPolicyVersion
  <2> QED
    BY <1>0, <2>1, <2>2 DEF Placed, At, Instance
<1>3. ASSUME NEW m \in Mutators, NEW lost \in SUBSET Instances, PublishAndReturn(m, lost) PROVE Placed'
  BY <1>0, <1>3, ReturnFacts DEF Placed, At, Instance, PublishAndReturn
<1>4. ASSUME NEW i \in Instances, Drops(i) PROVE Placed'
  BY <1>0, <1>4, DropsFacts DEF Placed, At, Instance
<1>5. ASSUME NEW i \in Instances, ViewRoles(i) PROVE Placed'
  BY <1>0, <1>5, ViewFacts DEF Placed, At, Instance, ViewRoles
<1>6. CASE ViewPermissions
  BY <1>0, <1>6, ViewPermissionsFacts DEF Placed, At, Instance, ViewPermissions
<1>7. CASE ViewVersion
  BY <1>0, <1>7, ViewFacts DEF Placed, At, Instance, ViewVersion
<1>8. CASE MirrorView
  BY <1>0, <1>8, RenderFacts DEF Placed, At, Instance, MirrorView, Typed
<1>9. CASE ViewLocalVersion
  BY <1>0, <1>9, LocalViewFacts, RenderFacts DEF Placed, At, Instance, ViewLocalVersion
<1> QED
  BY <1>1, <1>2, <1>3, <1>4, <1>5, <1>6, <1>7, <1>8, <1>9 DEF Next, AfterCommit, Fetch, Counts, Drops

\* Mutators can be counted, and so can those that are pending.
LEMMA PendingFacts ==
    /\ IsFiniteSet(Pending) /\ Cardinality(Pending) \in Nat
    /\ \A m \in Mutators : m \notin Pending =>
          Cardinality(Pending \cup {m}) = Cardinality(Pending) + 1
    /\ \A m \in Pending : Cardinality(Pending \ {m}) = Cardinality(Pending) - 1
<1>1. Pending \in SUBSET Mutators
  BY DEF Pending
<1>2. IsFiniteSet(Pending) /\ Cardinality(Pending) \in Nat
  BY <1>1, VersionConstantsOK, FS_Subset, FS_CardinalityType
<1> QED
  BY <1>2, FS_AddElement, FS_RemoveElement

\* A deployment that counts on its own has one enforcer.
LEMMA Alone ==
    ASSUME Typed, ~ deployment.shared, NEW i \in deployment.instances, NEW j \in deployment.instances
    PROVE  i = j
  BY LocalCounterAlone DEF Typed

\* The authority of an enforcer is a number.
LEMMA AuthorityNat == ASSUME Typed, NEW i \in deployment.instances
                      PROVE  Authority(i) \in Nat /\ i \in Instances
<1>1. i \in Instances
  BY VersionConstantsOK DEF Typed, DeploymentShapes
<1> QED
  BY <1>1 DEF Typed, Authority

\* The versions count the commits.
LEMMA CountingNext == ASSUME Typed, Placed, Counting, Promised, Next PROVE Counting'
<1>0. /\ worker \in [Mutators -> NatWorkers] /\ screen.version \in Nat /\ floor \in Nat
      /\ view.version \in Nat /\ policy \in Nat /\ source \in Nat /\ local \in [Instances -> Nat]
      /\ deployment' = deployment
  BY FrameFacts DEF Typed, NatViews
<1>1. SUFFICES ASSUME errors' = 0, NEW i \in deployment.instances
               PROVE  /\ policy' = Authority(i)' + Cardinality(Pending')
                      /\ screen'.version <= Authority(i)' /\ floor' <= Authority(i)'
                      /\ \A m \in Mutators :
                            /\ worker'[m].pc # "idle" => worker'[m].before <= Authority(i)'
                            /\ worker'[m].pc \in {"mirror", "flush", "publish"} =>
                                  worker'[m].before + 1 <= Authority(i)'
                      /\ view'.pc \in {"mirror", "rendered"} => view'.version <= Authority(i)'
  BY <1>0 DEF Counting, Counted, At, Pending, Authority
<1>2. errors = 0
  BY <1>1, FrameFacts
<1>3. /\ policy = Authority(i) + Cardinality(Pending)
      /\ screen.version <= Authority(i) /\ floor <= Authority(i)
      /\ \A m \in Mutators :
            /\ worker[m].pc # "idle" => worker[m].before <= Authority(i)
            /\ worker[m].pc \in {"mirror", "flush", "publish"} => worker[m].before + 1 <= Authority(i)
      /\ view.pc \in {"mirror", "rendered"} => view.version <= Authority(i)
  BY <1>1, <1>2 DEF Counting, Counted, At
<1>4. Authority(i) \in Nat /\ i \in Instances /\ \A m \in Mutators : worker[m].before \in Nat
  BY <1>0, <1>1, AuthorityNat DEF NatWorkers
<1>5. ASSUME NEW m \in Mutators, NEW j \in Instances, Commit(m, j)
      PROVE  /\ policy' = Authority(i)' + Cardinality(Pending')
             /\ screen'.version <= Authority(i)' /\ floor' <= Authority(i)'
             /\ \A k \in Mutators :
                   /\ worker'[k].pc # "idle" => worker'[k].before <= Authority(i)'
                   /\ worker'[k].pc \in {"mirror", "flush", "publish"} =>
                         worker'[k].before + 1 <= Authority(i)'
             /\ view'.pc \in {"mirror", "rendered"} => view'.version <= Authority(i)'
  <2>1. Authority(i)' = Authority(i) /\ policy' = policy + 1 /\ UNCHANGED <<screen, floor>> /\ worker[m].pc = "idle"
    BY <1>5 DEF Commit, Authority, At
  <2>2. /\ worker'[m].pc = "count" /\ worker'[m].before = screen.version
        /\ \A k \in Mutators \ {m} : worker'[k] = worker[k]
    BY <1>5, CommitFacts
  <2>3. view'.pc = view.pc /\ view'.version = view.version
    BY <1>5, ViewFacts
  <2>4. m \notin Pending /\ Pending' = Pending \cup {m}
    BY <2>1, <2>2 DEF Pending
  <2>5. Cardinality(Pending') = Cardinality(Pending) + 1
    BY <2>4, PendingFacts
  <2> QED
    BY <1>0, <1>3, <1>4, <2>1, <2>2, <2>3, <2>5, PendingFacts
<1>6. ASSUME NEW m \in Mutators, Counts(m), Pending' = Pending, Authority(i)' = Authority(i),
             worker'[m].pc \in {"mirror", "flush", "publish"} =>
                 worker[m].pc \in {"mirror", "flush", "publish"}
      PROVE  /\ policy' = Authority(i)' + Cardinality(Pending')
             /\ screen'.version <= Authority(i)' /\ floor' <= Authority(i)'
             /\ \A k \in Mutators :
                   /\ worker'[k].pc # "idle" => worker'[k].before <= Authority(i)'
                   /\ worker'[k].pc \in {"mirror", "flush", "publish"} =>
                         worker'[k].before + 1 <= Authority(i)'
             /\ view'.pc \in {"mirror", "rendered"} => view'.version <= Authority(i)'
  <2>1. UNCHANGED <<policy, view, screen, floor>>
    BY <1>6 DEF Counts, CountLocal, NextPolicyVersion, NextVersionFails, MirrorNext, FlushCache
  <2>2. /\ worker'[m].before = worker[m].before /\ worker[m].pc # "idle"
        /\ \A k \in Mutators \ {m} : worker'[k] = worker[k]
    BY <1>6, CountsFacts DEF At
  <2> QED
    BY <1>3, <1>4, <1>6, <2>1, <2>2
<1>7. ASSUME NEW m \in Mutators, Counts(m), m \in Pending, Pending' = Pending \ {m},
             Authority(i)' = Authority(i) + 1
      PROVE  /\ policy' = Authority(i)' + Cardinality(Pending')
             /\ screen'.version <= Authority(i)' /\ floor' <= Authority(i)'
             /\ \A k \in Mutators :
                   /\ worker'[k].pc # "idle" => worker'[k].before <= Authority(i)'
                   /\ worker'[k].pc \in {"mirror", "flush", "publish"} =>
                         worker'[k].before + 1 <= Authority(i)'
             /\ view'.pc \in {"mirror", "rendered"} => view'.version <= Authority(i)'
  <2>1. UNCHANGED <<policy, view, screen, floor>>
    BY <1>7 DEF Counts, CountLocal, NextPolicyVersion, NextVersionFails, MirrorNext, FlushCache
  <2>2. /\ worker'[m].before = worker[m].before /\ worker[m].pc # "idle"
        /\ \A k \in Mutators \ {m} : worker'[k] = worker[k]
    BY <1>7, CountsFacts DEF At
  <2>3. Cardinality(Pending') = Cardinality(Pending) - 1
    BY <1>7, PendingFacts
  <2> QED
    BY <1>0, <1>3, <1>4, <1>7, <2>1, <2>2, <2>3, PendingFacts
<1>8. ASSUME NEW m \in Mutators, CountLocal(m)
      PROVE  \/ Pending' = Pending /\ Authority(i)' = Authority(i) /\ worker'[m].pc = "next"
             \/ m \in Pending /\ Pending' = Pending \ {m} /\ Authority(i)' = Authority(i) + 1
  <2>0. Counts(m) /\ worker[m].pc = "count"
    BY <1>8 DEF Counts, CountLocal, At
  <2>1. /\ worker'[m].pc = IF deployment.shared THEN "next" ELSE "flush"
        /\ \A k \in Mutators \ {m} : worker'[k] = worker[k]
        /\ Instance(worker[m].on)
    BY <1>8, <2>0, CountsFacts
  <2>2. local' = [local EXCEPT ![worker[m].on] = local[worker[m].on] + 1] /\ source' = source
    BY <1>8 DEF CountLocal
  <2>3. CASE deployment.shared
    BY <1>0, <2>0, <2>1, <2>2, <2>3 DEF Pending, Authority
  <2>4. CASE ~ deployment.shared
    <3>1. worker[m].on = i
      BY <1>1, <2>1, <2>4, Alone DEF Instance
    <3>2. Authority(i)' = Authority(i) + 1
      BY <1>0, <1>4, <2>2, <2>4, <3>1 DEF Authority
    <3>3. m \in Pending /\ Pending' = Pending \ {m}
      BY <2>0, <2>1, <2>4 DEF Pending
    <3> QED
      BY <3>2, <3>3
  <2> QED
    BY <2>3, <2>4
<1>9. ASSUME NEW m \in Mutators, NextPolicyVersion(m)
      PROVE  m \in Pending /\ Pending' = Pending \ {m} /\ Authority(i)' = Authority(i) + 1 /\ Counts(m)
  <2>0. Counts(m) /\ worker[m].pc = "next" /\ deployment.shared /\ source' = source + 1
    BY <1>9 DEF Counts, NextPolicyVersion, At, Placed
  <2>1. /\ worker'[m].pc = "mirror"
        /\ \A k \in Mutators \ {m} : worker'[k] = worker[k]
    BY <1>9, <2>0, CountsFacts
  <2> QED
    BY <1>0, <2>0, <2>1 DEF Pending, Authority
<1>10. ASSUME NEW m \in Mutators, MirrorNext(m) \/ FlushCache(m)
       PROVE  /\ Pending' = Pending /\ Authority(i)' = Authority(i) /\ Counts(m)
              /\ worker[m].pc \in {"mirror", "flush", "publish"}
  <2>0. Counts(m) /\ worker[m].pc \in {"mirror", "flush"}
    BY <1>10 DEF Counts, MirrorNext, FlushCache, At
  <2>1. /\ worker'[m].pc \in {"flush", "publish"}
        /\ \A k \in Mutators \ {m} : worker'[k] = worker[k]
    BY <1>10, <2>0, CountsFacts
  <2>2. Authority(i)' = Authority(i)
    BY <1>0, <1>10 DEF MirrorNext, FlushCache, Authority, Placed, At
  <2> QED
    BY <2>0, <2>1, <2>2 DEF Pending
<1>11. ASSUME NEW m \in Mutators, NextVersionFails(m) PROVE FALSE
  BY <1>1, <1>2, <1>11 DEF NextVersionFails
<1>12. ASSUME NEW m \in Mutators, NEW lost \in SUBSET Instances, PublishAndReturn(m, lost)
       PROVE  /\ policy' = Authority(i)' + Cardinality(Pending')
              /\ screen'.version <= Authority(i)' /\ floor' <= Authority(i)'
              /\ \A k \in Mutators :
                    /\ worker'[k].pc # "idle" => worker'[k].before <= Authority(i)'
                    /\ worker'[k].pc \in {"mirror", "flush", "publish"} =>
                          worker'[k].before + 1 <= Authority(i)'
              /\ view'.pc \in {"mirror", "rendered"} => view'.version <= Authority(i)'
  <2>1. /\ worker[m].pc = "publish" /\ floor' = Greater(floor, worker[m].before + 1)
        /\ UNCHANGED <<policy, source, local, view, screen>>
    BY <1>12 DEF PublishAndReturn, At
  <2>2. worker'[m].pc = "idle" /\ \A k \in Mutators \ {m} : worker'[k] = worker[k]
    BY <1>12, ReturnFacts
  <2>3. Pending' = Pending
    BY <2>1, <2>2 DEF Pending
  <2>4. Authority(i)' = Authority(i)
    BY <1>0, <2>1 DEF Authority
  <2>5. floor' <= Authority(i)
    BY <1>3, <2>1 DEF Greater
  <2> QED
    BY <1>3, <2>1, <2>2, <2>3, <2>4, <2>5
<1>13. ASSUME UNCHANGED <<policy, worker, floor>>, Authority(i)' = Authority(i),
              screen'.version <= Authority(i),
              view'.pc \in {"mirror", "rendered"} => view'.version <= Authority(i)
       PROVE  /\ policy' = Authority(i)' + Cardinality(Pending')
              /\ screen'.version <= Authority(i)' /\ floor' <= Authority(i)'
              /\ \A k \in Mutators :
                    /\ worker'[k].pc # "idle" => worker'[k].before <= Authority(i)'
                    /\ worker'[k].pc \in {"mirror", "flush", "publish"} =>
                          worker'[k].before + 1 <= Authority(i)'
              /\ view'.pc \in {"mirror", "rendered"} => view'.version <= Authority(i)'
  <2>1. Pending' = Pending
    BY <1>13 DEF Pending
  <2> QED
    BY <1>3, <1>13, <2>1
<1>14. ASSUME NEW j \in Instances, Drops(j) \/ ViewRoles(j)
       PROVE  /\ UNCHANGED <<policy, worker, floor>> /\ Authority(i)' = Authority(i)
              /\ screen'.version <= Authority(i)
              /\ view'.pc \in {"mirror", "rendered"} => view'.version <= Authority(i)
  <2>1. UNCHANGED <<policy, worker, floor, source, local, screen>>
    BY <1>14, DropsFacts DEF ViewRoles
  <2>2. view' = view \/ view'.pc = "permissions"
    BY <1>14, ViewFacts, DropsFacts
  <2> QED
    BY <1>0, <1>3, <2>1, <2>2 DEF Authority
<1>15. CASE ViewPermissions
  <2>1. UNCHANGED <<policy, worker, floor, source, local, screen>> /\ view'.pc = "version"
    BY <1>15, ViewPermissionsFacts DEF ViewPermissions
  <2> QED
    BY <1>0, <1>3, <1>13, <2>1 DEF Authority
<1>16. CASE ViewVersion
  <2>1. UNCHANGED <<policy, worker, floor, source, local, screen>> /\ view'.version = source /\ deployment.shared
    BY <1>16, ViewFacts DEF ViewVersion
  <2> QED
    BY <1>0, <1>3, <1>13, <2>1 DEF Authority
<1>17. CASE MirrorView
  <2>1. UNCHANGED <<policy, worker, floor, source>> /\ deployment.shared /\ view.pc = "mirror"
    BY <1>17 DEF MirrorView, Placed
  <2>2. view'.version = view.version /\ screen'.version = view.version
    BY <1>17, RenderFacts DEF MirrorView, Typed
  <2> QED
    BY <1>0, <1>3, <1>13, <2>1, <2>2 DEF Authority
<1>18. CASE ViewLocalVersion
  <2>1. UNCHANGED <<policy, worker, floor, source, local>> /\ ~ deployment.shared
    BY <1>1, <1>2, <1>18 DEF ViewLocalVersion
  <2>2. view'.version = local[view.on] /\ screen'.version = local[view.on] /\ Instance(view.on)
    BY <1>18, LocalViewFacts, RenderFacts
  <2>3. view.on = i
    BY <1>1, <2>1, <2>2, Alone DEF Instance
  <2> QED
    BY <1>0, <1>4, <1>13, <2>1, <2>2, <2>3 DEF Authority
<1>19. ASSUME NEW m \in Mutators, Counts(m)
       PROVE  \/ /\ Pending' = Pending /\ Authority(i)' = Authority(i)
                 /\ worker'[m].pc \in {"mirror", "flush", "publish"} =>
                       worker[m].pc \in {"mirror", "flush", "publish"}
              \/ m \in Pending /\ Pending' = Pending \ {m} /\ Authority(i)' = Authority(i) + 1
  BY <1>8, <1>9, <1>10, <1>11, <1>19 DEF Counts
<1> QED
  BY <1>5, <1>6, <1>7, <1>12, <1>13, <1>14, <1>15, <1>16, <1>17, <1>18, <1>19
  DEF Next, AfterCommit, Fetch, Counts, Drops

\* A mutation's return only raises what later views must show.
LEMMA PromisedNext == ASSUME Typed, Placed, Counting, Promised, Next PROVE Promised'
<1>0. floor \in Nat /\ view \in NatViews /\ view.floor \in Nat /\ view.floor <= floor
  BY DEF Typed, NatViews, Promised
<1>1. errors' = 0 => errors = 0
  BY FrameFacts
<1>2. ASSUME NEW m \in Mutators, NEW i \in Instances, Commit(m, i) PROVE Promised'
  <2>1. floor' = floor /\ errors' = errors
    BY <1>2 DEF Commit
  <2>2. view'.floor = view.floor /\ view'.pc = view.pc /\ view'.version = view.version
    BY <1>2, ViewFacts
  <2> QED
    BY <2>1, <2>2 DEF Promised
<1>3. ASSUME NEW m \in Mutators, Counts(m) PROVE Promised'
  <2>1. floor' = floor /\ view' = view
    BY <1>3 DEF Counts, CountLocal, NextPolicyVersion, NextVersionFails, MirrorNext, FlushCache
  <2> QED
    BY <1>1, <2>1 DEF Promised
<1>4. ASSUME NEW m \in Mutators, NEW lost \in SUBSET Instances, PublishAndReturn(m, lost) PROVE Promised'
  <2>1. view' = view /\ errors' = errors /\ floor' = Greater(floor, worker[m].before + 1)
    BY <1>4 DEF PublishAndReturn
  <2>2. worker[m].before \in Nat
    BY DEF Typed, NatWorkers
  <2>3. view.floor <= floor'
    BY <1>0, <2>1, <2>2 DEF Greater
  <2> QED
    BY <2>1, <2>3 DEF Promised
<1>5. ASSUME NEW i \in Instances, Drops(i) PROVE Promised'
  BY <1>5, DropsFacts DEF Promised
<1>6. ASSUME NEW i \in Instances, ViewRoles(i) PROVE Promised'
  <2>1. floor' = floor /\ view'.floor = floor /\ view'.pc = "permissions"
    BY <1>6, ViewFacts DEF ViewRoles
  <2> QED
    BY <1>0, <2>1 DEF Promised
<1>7. CASE ViewPermissions
  <2>1. floor' = floor /\ view'.floor = view.floor /\ view'.pc = "version"
    BY <1>7, ViewPermissionsFacts DEF ViewPermissions
  <2> QED
    BY <1>0, <2>1 DEF Promised
<1>8. CASE ViewVersion
  <2>1. floor' = floor /\ errors' = errors /\ view'.floor = view.floor /\ view'.version = source
    BY <1>8, ViewFacts DEF ViewVersion
  <2>2. view.on \in deployment.instances /\ deployment.shared
    BY <1>8 DEF ViewVersion, Placed, Instance
  <2>3. errors = 0 => floor <= source
    BY <2>2 DEF Counting, Authority
  <2>4. source \in Nat
    BY DEF Typed
  <2>5. errors = 0 => source >= view.floor
    BY <1>0, <2>3, <2>4
  <2> QED
    BY <1>0, <2>1, <2>5 DEF Promised
<1>9. CASE MirrorView
  <2>1. floor' = floor /\ errors' = errors /\ view.pc = "mirror" /\ Render(view)
    BY <1>9 DEF MirrorView
  <2>2. view'.floor = view.floor /\ view'.version = view.version
    BY <1>0, <2>1, RenderFacts
  <2> QED
    BY <2>1, <2>2 DEF Promised
<1>10. CASE ViewLocalVersion
  <2>1. floor' = floor /\ view'.floor = view.floor /\ view'.version = local[view.on] /\ Instance(view.on)
    BY <1>10, LocalViewFacts, RenderFacts DEF ViewLocalVersion
  <2>2. errors' = 0 => ~ deployment.shared
    BY <1>10 DEF ViewLocalVersion, Typed
  <2>3. errors' = 0 => floor <= local[view.on]
    BY <1>1, <2>1, <2>2 DEF Counting, Authority, Instance
  <2>4. local[view.on] \in Nat
    BY <1>10, LocalViewFacts DEF Typed
  <2>5. errors' = 0 => local[view.on] >= view.floor
    BY <1>0, <2>3, <2>4
  <2> QED
    BY <1>0, <2>1, <2>5 DEF Promised
<1> QED
  BY <1>2, <1>3, <1>4, <1>5, <1>6, <1>7, <1>8, <1>9, <1>10 DEF Next, AfterCommit, Fetch, Counts, Drops

\* A mutation that has committed reaches every cache, and no step caches
\* permissions older than the store's.
LEMMA CacheNext == ASSUME Typed, Placed, CacheInv, Next PROVE CacheInv'
<1>0. /\ deployment' = deployment /\ deployment.instances \subseteq Instances
      /\ cache \in [Instances -> Nat \cup {Nothing}]
  BY FrameFacts, VersionConstantsOK DEF Typed, DeploymentShapes
<1>1. SUFFICES ASSUME NEW i \in deployment.instances, cache'[i] \notin {Nothing, policy'}
               PROVE  i \in events' \/ i \in missed' \/ \E k \in Mutators : WillDrop(k, i)'
  BY <1>0 DEF CacheInv
<1>2. cache[i] \notin {Nothing, policy} => i \in events \/ i \in missed \/ \E k \in Mutators : WillDrop(k, i)
  BY <1>1 DEF CacheInv
<1>3. ASSUME NEW m \in Mutators, NEW j \in Instances, Commit(m, j)
      PROVE  \E k \in Mutators : WillDrop(k, i)'
  <2>1. worker'[m].pc = "count"
    BY <1>3, CommitFacts
  <2> QED
    BY <2>1 DEF WillDrop, At
<1>4. ASSUME NEW m \in Mutators, Counts(m)
      PROVE  i \in events' \/ i \in missed' \/ \E k \in Mutators : WillDrop(k, i)'
  <2>1. /\ UNCHANGED <<policy, events>>
        /\ ~ FlushCache(m) => cache' = cache /\ missed' = missed
        /\ FlushCache(m) => /\ cache' = [cache EXCEPT ![worker[m].on] = Nothing]
                            /\ missed' = missed \ {worker[m].on}
    BY <1>4 DEF Counts, CountLocal, NextPolicyVersion, NextVersionFails, MirrorNext, FlushCache
  <2>2. /\ worker'[m].on = worker[m].on /\ \A k \in Mutators \ {m} : worker'[k] = worker[k]
        /\ worker[m].pc # "idle" /\ worker'[m].pc # "idle"
        /\ ~ FlushCache(m) => worker'[m].pc # "publish"
    BY <1>4, CountsFacts DEF Counts, At
  <2>3. cache[i] = cache'[i] /\ (FlushCache(m) => worker[m].on # i)
    BY <1>0, <1>1, <2>1
  <2>4. ASSUME NEW k \in Mutators, WillDrop(k, i) PROVE WillDrop(k, i)'
    BY <2>2, <2>3, <2>4 DEF WillDrop, At
  <2> QED
    BY <1>1, <1>2, <2>1, <2>3, <2>4
<1>5. ASSUME NEW m \in Mutators, NEW lost \in SUBSET Instances, PublishAndReturn(m, lost)
      PROVE  i \in events' \/ i \in missed' \/ \E k \in Mutators : WillDrop(k, i)'
  <2>1. /\ UNCHANGED <<policy, cache>> /\ worker[m].pc = "publish"
        /\ events' = events \cup ((deployment.instances \ {worker[m].on}) \ lost)
        /\ missed' = missed \cup {j \in lost : cache[j] # Nothing}
    BY <1>5 DEF PublishAndReturn, At
  <2>2. \A k \in Mutators \ {m} : worker'[k] = worker[k]
    BY <1>5, ReturnFacts
  <2>3. ASSUME NEW k \in Mutators, WillDrop(k, i)
        PROVE  i \in events' \/ i \in missed' \/ WillDrop(k, i)'
    BY <1>1, <2>1, <2>2, <2>3 DEF WillDrop, At
  <2> QED
    BY <1>1, <1>2, <2>1, <2>3
<1>6. ASSUME NEW j \in Instances, Drops(j)
      PROVE  i \in events' \/ i \in missed' \/ \E k \in Mutators : WillDrop(k, i)'
  <2>1. /\ UNCHANGED <<policy, worker>> /\ cache' = [cache EXCEPT ![j] = Nothing]
        /\ events \ {j} \subseteq events' /\ missed' = missed \ {j}
    BY <1>6, DropsFacts
  <2>2. i # j /\ cache'[i] = cache[i]
    BY <1>0, <1>1, <2>1
  <2> QED
    BY <1>1, <1>2, <2>1, <2>2 DEF WillDrop, At
<1>7. CASE ViewPermissions
  <2>1. UNCHANGED <<policy, events, missed, worker>>
    BY <1>7 DEF ViewPermissions
  <2>2. /\ view'.permissions = IF cache[view.on] = Nothing THEN policy ELSE cache[view.on]
        /\ cache' = [cache EXCEPT ![view.on] = view'.permissions]
    BY <1>7, ViewPermissionsFacts
  <2>3. cache'[i] = cache[i]
    BY <1>0, <1>1, <2>1, <2>2
  <2> QED
    BY <1>1, <1>2, <2>1, <2>3 DEF WillDrop, At
<1>8. CASE ViewVersion \/ MirrorView \/ ViewLocalVersion \/ \E j \in Instances : ViewRoles(j)
  <2>1. UNCHANGED <<policy, events, missed, worker, cache>>
    BY <1>8 DEF ViewVersion, MirrorView, ViewLocalVersion, ViewRoles
  <2> QED
    BY <1>1, <1>2, <2>1 DEF WillDrop, At
<1> QED
  BY <1>3, <1>4, <1>5, <1>6, <1>7, <1>8 DEF Next, AfterCommit, Fetch, Counts, Drops

\* When nothing is under way, the version that is reported is the policy's, and
\* so is what is cached, unless an event did not reach it.
LEMMA CalmFacts ==
    ASSUME Typed, Counting, CacheInv, Calm, NEW i \in deployment.instances
    PROVE  /\ i \notin missed => cache[i] \in {Nothing, policy}
           /\ errors = 0 => Authority(i) = policy
<1>1. \A m \in Mutators : worker[m].pc = "idle"
  BY DEF Calm, At
<1>2. Pending = {}
  BY <1>1 DEF Pending
<1>3. Cardinality(Pending) = 0
  BY <1>2, FS_EmptySet
<1>4. i \notin missed => cache[i] \in {Nothing, policy}
  BY <1>1 DEF CacheInv, Calm, WillDrop, At
<1>5. Authority(i) \in Nat
  BY AuthorityNat
<1>6. errors = 0 => policy = Authority(i) + 0
  BY <1>3 DEF Counting
<1> QED
  BY <1>4, <1>5, <1>6

\* A view that nothing disturbs reads one policy throughout.
LEMMA QuietNext == ASSUME Typed, Placed, Counting, CacheInv, QuietInv, Next PROVE QuietInv'
<1>0. view \in NatViews /\ (errors' = 0 => errors = 0)
  BY FrameFacts DEF Typed
<1>1. ASSUME NEW m \in Mutators, NEW i \in Instances, Commit(m, i) PROVE QuietInv'
  <2>1. view'.quiet = FALSE
    BY <1>1, ViewFacts
  <2> QED
    BY <2>1 DEF QuietInv
<1>2. ASSUME NEW m \in Mutators, AfterCommit(m) PROVE QuietInv'
  <2>1. view' = view /\ ~ At(m, "idle")
    BY <1>2 DEF AfterCommit, CountLocal, NextPolicyVersion, NextVersionFails, MirrorNext, FlushCache,
                PublishAndReturn, At
  <2>2. ~ view.quiet
    BY <2>1 DEF QuietInv, Calm
  <2> QED
    BY <2>1, <2>2 DEF QuietInv
<1>3. ASSUME NEW i \in Instances, Drops(i) PROVE QuietInv'
  <2>1. /\ UNCHANGED <<view, worker, policy, errors>>
        /\ events' \subseteq events /\ missed' = missed \ {i}
    BY <1>3, DropsFacts
  <2>2. Calm => Calm'
    BY <2>1 DEF Calm, At
  <2> QED
    BY <2>1, <2>2 DEF QuietInv
<1>4. ASSUME UNCHANGED <<worker, events>> PROVE Calm' = Calm
  BY <1>4 DEF Calm, At
<1>5. ASSUME NEW i \in Instances, ViewRoles(i) PROVE QuietInv'
  <2>1. UNCHANGED <<worker, events, missed, policy>>
    BY <1>5 DEF ViewRoles
  <2>2. /\ view'.quiet = (Calm /\ i \notin missed)
        /\ view'.pc = "permissions" /\ view'.roles = policy /\ view'.on = i
    BY <1>5, ViewFacts
  <2> QED
    BY <1>4, <2>1, <2>2 DEF QuietInv
<1>6. CASE ViewPermissions
  <2>1. UNCHANGED <<worker, events, policy>> /\ view.pc = "permissions"
    BY <1>6 DEF ViewPermissions
  <2>2. /\ view'.quiet = view.quiet /\ view'.pc = "version" /\ view'.roles = view.roles
        /\ view'.permissions = IF cache[view.on] = Nothing THEN policy ELSE cache[view.on]
        /\ view.on \in deployment.instances
    BY <1>6, ViewPermissionsFacts DEF Instance
  <2>3. view.quiet => view'.permissions = policy
    BY <2>1, <2>2, CalmFacts DEF QuietInv
  <2> QED
    BY <1>4, <2>1, <2>2, <2>3 DEF QuietInv
<1>7. CASE ViewVersion
  <2>1. UNCHANGED <<worker, events, policy, errors>> /\ view.pc = "version" /\ deployment.shared
    BY <1>7 DEF ViewVersion
  <2>2. /\ view'.quiet = view.quiet /\ view'.pc = "mirror" /\ view'.roles = view.roles
        /\ view'.permissions = view.permissions /\ view'.version = source
    BY <1>7, ViewFacts
  <2>3. view.on \in deployment.instances
    BY <2>1 DEF Placed, Instance
  <2>4. view.quiet /\ errors = 0 => source = policy
    BY <2>1, <2>3, CalmFacts DEF QuietInv, Authority
  <2> QED
    BY <1>4, <2>1, <2>2, <2>4 DEF QuietInv
<1>8. CASE MirrorView
  <2>1. UNCHANGED <<worker, events, policy>> /\ view.pc = "mirror" /\ Render(view)
    BY <1>8 DEF MirrorView
  <2>2. /\ view'.quiet = view.quiet /\ view'.pc = "rendered" /\ view'.roles = view.roles
        /\ view'.permissions = view.permissions
    BY <1>0, <2>1, RenderFacts
  <2> QED
    BY <1>4, <2>1, <2>2 DEF QuietInv
<1>9. CASE ViewLocalVersion
  <2>1. UNCHANGED <<worker, events, policy>> /\ view.pc = "version"
    BY <1>9 DEF ViewLocalVersion
  <2>2. /\ view'.quiet = view.quiet /\ view'.pc = "rendered" /\ view'.roles = view.roles
        /\ view'.permissions = view.permissions
    BY <1>9, LocalViewFacts, RenderFacts
  <2> QED
    BY <1>4, <2>1, <2>2 DEF QuietInv
<1> QED
  BY <1>1, <1>2, <1>3, <1>5, <1>6, <1>7, <1>8, <1>9 DEF Next, Fetch, Drops

\* What an undisturbed view reports is the number of mutations.
LEMMA KnownNext ==
    ASSUME Typed, Placed, Counting, CacheInv, QuietInv, KnownInv, Next PROVE KnownInv'
<1>0. view \in NatViews /\ policy \in Nat /\ (errors' = 0 => errors = 0)
  BY FrameFacts DEF Typed
<1>1. CASE MirrorView
  <2>1. view.pc = "mirror" /\ Render(view) /\ errors' = errors
    BY <1>1 DEF MirrorView
  <2>2. \A x \in known' : \/ x \in known
                          \/ /\ view.quiet /\ errors' = 0
                             /\ x = <<view.version, view.roles, view.permissions>>
    BY <1>0, <2>1, RenderFacts
  <2>3. view.quiet /\ errors' = 0 =>
           view.version = policy /\ view.roles = policy /\ view.permissions = policy
    BY <2>1 DEF QuietInv
  <2> QED
    BY <1>0, <2>2, <2>3 DEF KnownInv
<1>2. CASE ViewLocalVersion
  <2>1. view.pc = "version" /\ (errors' = 0 => ~ deployment.shared)
    BY <1>2 DEF ViewLocalVersion, Typed
  <2>2. view.on \in deployment.instances
    BY <2>1 DEF Placed, Instance
  <2>3. \A x \in known' : \/ x \in known
                          \/ /\ view.quiet /\ errors' = 0
                             /\ x = <<local[view.on], view.roles, view.permissions>>
    BY <1>2, LocalViewFacts, RenderFacts
  <2>4. view.quiet /\ errors' = 0 => local[view.on] = policy
    BY <1>0, <2>1, <2>2, CalmFacts DEF QuietInv, Authority
  <2>5. view.quiet => view.roles = policy /\ view.permissions = policy
    BY <2>1 DEF QuietInv
  <2> QED
    BY <1>0, <2>3, <2>4, <2>5 DEF KnownInv
<1>3. ASSUME known' = known PROVE KnownInv'
  BY <1>3 DEF KnownInv
<1> QED
  BY <1>1, <1>2, <1>3
  DEF Next, AfterCommit, Fetch, Commit, CountLocal, NextPolicyVersion, NextVersionFails, MirrorNext,
      FlushCache, PublishAndReturn, ApplyEvent, Expire, DropCached, ViewRoles, ViewPermissions,
      ViewVersion

-----------------------------------------------------------------------------
(* The theorems *)

\* The page that has rendered an empty policy satisfies the invariant.
LEMMA VInit == Init => VInv
<1> SUFFICES ASSUME Init PROVE VInv
  OBVIOUS
<1>1. \A m \in Mutators : worker[m] = IdleWorker
  BY DEF Init
<1>2. IdleWorker \in NatWorkers /\ IdleWorker.pc = "idle"
  BY DEF NatWorkers, IdleWorker
<1>3. /\ view \in NatViews /\ view.pc = "idle" /\ view.floor = 0 /\ view.quiet = TRUE
      /\ screen \in [version : Nat, roles : Nat, permissions : Nat] /\ screen.version = 0
  BY DEF Init, NatViews
<1>4. Typed
  <2>1. worker \in [Mutators -> NatWorkers]
    BY <1>2 DEF Init
  <2> QED
    BY <1>3, <2>1 DEF Init, Typed
<1>5. Placed
  BY <1>1, <1>2, <1>3 DEF Placed, At
<1>6. Counting
  <2>1. Pending = {}
    BY <1>1, <1>2 DEF Pending
  <2>2. Cardinality(Pending) = 0
    BY <2>1, FS_EmptySet
  <2>3. ASSUME NEW i \in deployment.instances PROVE Authority(i) = 0
    BY <1>4, <2>3, AuthorityNat DEF Init, Authority
  <2>4. policy = 0 /\ floor = 0
    BY DEF Init
  <2>5. \A m \in Mutators : At(m, "idle") /\ ~ Counted(m)
    BY <1>1, <1>2 DEF At, Counted
  <2> QED
    BY <1>3, <2>2, <2>3, <2>4, <2>5 DEF Counting
<1>7. Promised
  BY <1>3 DEF Promised, Init
<1>8. CacheInv
  <2>1. \A i \in deployment.instances : cache[i] = Nothing
    BY <1>4, AuthorityNat DEF Init
  <2> QED
    BY <2>1 DEF CacheInv
<1>9. QuietInv
  <2>1. Calm
    BY <1>1, <1>2 DEF Calm, At, Init
  <2> QED
    BY <1>3, <2>1 DEF QuietInv
<1>10. KnownInv
  BY DEF Init, KnownInv
<1> QED
  BY <1>4, <1>5, <1>6, <1>7, <1>8, <1>9, <1>10 DEF VInv

\* Every step keeps the invariant.
LEMMA VNext == VInv /\ [Next]_vars => VInv'
<1>1. ASSUME VInv, Next PROVE VInv'
  <2>1. Typed /\ Placed /\ Counting /\ Promised /\ CacheInv /\ QuietInv /\ KnownInv
    BY <1>1 DEF VInv
  <2>2. Typed' /\ Placed'
    BY <1>1, <2>1, TypedNext, PlacedNext
  <2>3. Counting' /\ Promised'
    BY <1>1, <2>1, CountingNext, PromisedNext
  <2>4. CacheInv' /\ QuietInv' /\ KnownInv'
    BY <1>1, <2>1, CacheNext, QuietNext, KnownNext
  <2> QED
    BY <2>2, <2>3, <2>4 DEF VInv
<1>2. ASSUME VInv, UNCHANGED vars PROVE VInv'
  BY <1>2 DEF vars, VInv, Typed, Placed, Counting, Promised, CacheInv, QuietInv, KnownInv, At,
              Instance, Authority, Pending, Counted, WillDrop, Calm
<1> QED
  BY <1>1, <1>2

\* The invariant holds in every reachable state.
THEOREM VersionInvariant == Spec => []VInv
<1>1. Init => VInv
  BY VInit
<1>2. VInv /\ [Next]_vars => VInv'
  BY VNext
<1> QED
  BY <1>1, <1>2, PTL DEF Spec

\* ChangeIsDetected: a page that asks after a mutation of PermissionView's policy
\* returned gets a version above the one it had when the mutation committed,
\* whichever enforcer answers.
THEOREM ChangesAreDetected == Spec => []ChangeIsDetected
<1>1. VInv => ChangeIsDetected
  BY DEF VInv, Promised, ChangeIsDetected
<1> QED
  BY <1>1, VersionInvariant, PTL

\* VersionTellsPolicy: a view that no mutation disturbed, on an enforcer with nothing
\* cached that an event should have dropped and did not, has the number of mutations
\* as its version, and the roles and permissions after just those.
THEOREM VersionsTellPolicies == Spec => []VersionTellsPolicy
<1>1. VInv => VersionTellsPolicy
  BY DEF VInv, KnownInv, VersionTellsPolicy
<1> QED
  BY <1>1, VersionInvariant, PTL
=============================================================================
