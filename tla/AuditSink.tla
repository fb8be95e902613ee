------------------------------- MODULE AuditSink -------------------------------
(***************************************************************************)
(* FileAuditSink and the operations that wait for it: a mutation emits its *)
(* event after the commit (recordMutation), a decision before it is given  *)
(* to the caller (recordDecision).  Modelled are the opening of the file,  *)
(* Emit as write and sync under s.mu, short and failed writes, failed      *)
(* syncs, Close, and a crash of the host at any moment with the reopening  *)
(* that follows it.                                                        *)
(*                                                                         *)
(* The file is a sequence of lines; Torn is the beginning of a line, which *)
(* spoils the line that is written after it.  Of the file system it is     *)
(* assumed that what was written before a sync that succeeded survives a   *)
(* crash, that of the rest some prefix does, the last line of it perhaps   *)
(* in part, and that the whole file may be gone if its directory was never *)
(* synced.  An event is named after its operation.                         *)
(***************************************************************************)
EXTENDS Naturals, Sequences

CONSTANTS Mutations, Decisions,        \* the operations of the callers
          Torn, Free,
          MaxFaults, MaxCrashes        \* bounds: failed calls, crashes

Ops == Mutations \cup Decisions

ASSUME AuditConstantsOK == /\ Mutations \cap Decisions = {}
                           /\ Torn \notin Ops /\ Free \notin Ops
                           /\ MaxFaults \in Nat /\ MaxCrashes \in Nat

VARIABLES file,      \* the lines, as a reader of the running host sees them
          durable,   \* how many of them survive a crash
          linked,    \* the directory entry survives a crash
          sink,      \* "none", opening: "checked", "synced", then "open", "closed"
          failed,    \* s.failed is set
          mu,        \* the operation that holds s.mu, or Free
          op,        \* the operations
          commits,   \* mutation -> how often the store committed it
          acked,     \* events Emit returned nil for
          faults, crashes

auditVars == <<file, durable, linked, sink, failed, mu, op, commits, acked, faults, crashes>>
disk == <<file, durable, linked>>

\* result: "error" is a store error, "auditError" an AuditWriteError, which says
\* whether the mutation is committed.
OpStates == [pc        : {"idle", "emit", "write", "sync", "done", "dead"},
             allowed   : BOOLEAN,
             result    : {"none", "ok", "denied", "error", "auditError"},
             committed : BOOLEAN]

AuditTypeOK == /\ file \in Seq(Ops \cup {Torn})
               /\ durable \in 0 .. Len(file)
               /\ linked \in BOOLEAN
               /\ sink \in {"none", "checked", "synced", "open", "closed"}
               /\ failed \in BOOLEAN
               /\ mu \in Ops \cup {Free}
               /\ op \in [Ops -> OpStates]
               /\ commits \in [Mutations -> Nat]
               /\ acked \subseteq Ops
               /\ faults \in 0 .. MaxFaults /\ crashes \in 0 .. MaxCrashes

IdleOp == [pc |-> "idle", allowed |-> FALSE, result |-> "none", committed |-> FALSE]

AuditInit == /\ file = << >> /\ durable = 0 /\ linked = FALSE
             /\ sink = "none" /\ failed = FALSE
             /\ mu = Free
             /\ op = [o \in Ops |-> IdleOp]
             /\ commits = [m \in Mutations |-> 0]
             /\ acked = {}
             /\ faults = 0 /\ crashes = 0

\* Each call of the file system may fail, MaxFaults times in all.
Fails(bad) == /\ bad => faults < MaxFaults
              /\ faults' = IF bad THEN faults + 1 ELSE faults

TornTail == file # << >> /\ file[Len(file)] = Torn

-----------------------------------------------------------------------------
(* newFileAuditSink *)

\* Mutant: the last byte is not looked at.
TailComplete_Skip == TRUE

TailComplete == ~ TornTail

Running(o) == op[o].pc \in {"emit", "write", "sync"}

\* The file is opened, or created; an incomplete tail is refused.  Enforcers
\* that used an earlier sink are done with it.
OpenFile ==
    /\ sink \in {"none", "closed"}
    /\ \A o \in Ops : ~ Running(o)
    /\ TailComplete
    /\ sink' = "checked"
    /\ UNCHANGED <<disk, failed, mu, op, commits, acked, faults, crashes>>

SyncOpened(bad) ==
    /\ sink = "checked"
    /\ Fails(bad)
    /\ sink' = IF bad THEN "none" ELSE "synced"
    /\ durable' = IF bad THEN durable ELSE Len(file)
    /\ UNCHANGED <<file, linked, failed, mu, op, commits, acked, crashes>>

\* The directories, as on Unix.  On Windows the code syncs none and promises less:
\* the file of an acknowledged event may be gone after a crash there.
syncAuditParents(bad) ==
    /\ sink = "synced"
    /\ Fails(bad)
    /\ sink' = IF bad THEN "none" ELSE "open"
    /\ linked' = (linked \/ ~ bad)
    /\ failed' = FALSE
    /\ UNCHANGED <<file, durable, mu, op, commits, acked, crashes>>

\* An operator removes the incomplete tail the constructor refused.
Repair ==
    /\ sink \in {"none", "closed"} /\ TornTail
    /\ file' = SubSeq(file, 1, Len(file) - 1)
    /\ durable' = IF durable = Len(file) THEN durable - 1 ELSE durable
    /\ UNCHANGED <<linked, sink, failed, mu, op, commits, acked, faults, crashes>>

-----------------------------------------------------------------------------
(* The operations of an enforcer *)

\* Mutant: the error does not say that the mutation is committed.
recordMutation_Unmarked(x, err) ==
    [x EXCEPT !.pc = "done", !.result = IF err THEN "auditError" ELSE "ok"]

\* Mutant: the error is only logged.
recordMutation_Logged(x, err) == [x EXCEPT !.pc = "done", !.result = "ok"]

recordMutation(x, err) ==
    [x EXCEPT !.pc = "done", !.result = IF err THEN "auditError" ELSE "ok", !.committed = err]

\* Mutant: a decision stands although its event could not be written.
recordDecision_Allow(x, err) ==
    [x EXCEPT !.pc = "done", !.result = IF x.allowed THEN "ok" ELSE "denied"]

recordDecision(x, err) ==
    [x EXCEPT !.pc = "done",
              !.result = IF err THEN "auditError" ELSE IF x.allowed THEN "ok" ELSE "denied"]

\* There are enforcers with this sink; its owner may have closed it.
InUse == sink \in {"open", "closed"}

\* emitAudit has returned to the operation o.
Returned(o, err) ==
    op' = [op EXCEPT ![o] = IF o \in Mutations THEN recordMutation(@, err)
                                               ELSE recordDecision(@, err)]

\* The store operation, with the flush and the publish that follow its commit.  An
\* error means that nothing was committed, as in memory; an SQL commit whose answer
\* is lost on the way is outside this model.
Mutate(m, bad) ==
    /\ op[m].pc = "idle" /\ InUse
    /\ Fails(bad)
    /\ commits' = IF bad THEN commits ELSE [commits EXCEPT ![m] = @ + 1]
    /\ op' = [op EXCEPT ![m] = IF bad THEN [@ EXCEPT !.pc = "done", !.result = "error"]
                                      ELSE [@ EXCEPT !.pc = "emit"]]
    /\ UNCHANGED <<disk, sink, failed, mu, acked, crashes>>

\* The caller tries again what is not known to be committed.
RetryMutation(m) ==
    /\ op[m].pc = "done" /\ op[m].result \in {"error", "auditError"}
    /\ ~ op[m].committed
    /\ op' = [op EXCEPT ![m] = IdleOp]
    /\ UNCHANGED <<disk, sink, failed, mu, commits, acked, faults, crashes>>

\* EnforceCtx, with its deferred recordDecision.
Decide(d, allowed) ==
    /\ op[d].pc = "idle" /\ InUse
    /\ op' = [op EXCEPT ![d].pc = "emit", ![d].allowed = allowed]
    /\ UNCHANGED <<disk, sink, failed, mu, commits, acked, faults, crashes>>

-----------------------------------------------------------------------------
(* Emit *)

\* The context is over, the event cannot be encoded: nothing is written.
EmitEarly(o) ==
    /\ op[o].pc = "emit"
    /\ Fails(TRUE)
    /\ Returned(o, TRUE)
    /\ UNCHANGED <<disk, sink, failed, mu, commits, acked, crashes>>

\* The file is nil, or a write or sync failed before.
Refuses == sink # "open" \/ failed

EmitRefused(o) ==
    /\ op[o].pc = "emit" /\ mu = Free
    /\ Refuses
    /\ Returned(o, TRUE)
    /\ UNCHANGED <<disk, sink, failed, mu, commits, acked, faults, crashes>>

EmitLock(o) ==
    /\ op[o].pc = "emit" /\ mu = Free
    /\ ~ Refuses
    /\ mu' = o
    /\ op' = [op EXCEPT ![o].pc = "write"]
    /\ UNCHANGED <<disk, sink, failed, commits, acked, faults, crashes>>

\* file.Write puts the line there, or part of it, or nothing.
WriteLine(o) ==
    /\ op[o].pc = "write"
    /\ file' = Append(file, o)
    /\ op' = [op EXCEPT ![o].pc = "sync"]
    /\ UNCHANGED <<durable, linked, sink, failed, mu, commits, acked, faults, crashes>>

WriteFails(o, short) ==
    /\ op[o].pc = "write"
    /\ Fails(TRUE)
    /\ file' = IF short THEN Append(file, Torn) ELSE file
    /\ failed' = TRUE
    /\ mu' = Free
    /\ Returned(o, TRUE)
    /\ UNCHANGED <<durable, linked, sink, commits, acked, crashes>>

Sync(o, bad) ==
    /\ op[o].pc = "sync"
    /\ Fails(bad)
    /\ durable' = IF bad THEN durable ELSE Len(file)
    /\ acked' = IF bad THEN acked ELSE acked \cup {o}
    /\ failed' = bad
    /\ mu' = Free
    /\ Returned(o, bad)
    /\ UNCHANGED <<file, linked, sink, commits, crashes>>

Close ==
    /\ sink = "open" /\ mu = Free
    /\ sink' = "closed"
    /\ UNCHANGED <<disk, failed, mu, op, commits, acked, faults, crashes>>

\* The host goes down: what is not durable is lost from some line on, and the
\* operations end without an answer.
Crash ==
    /\ crashes < MaxCrashes
    /\ crashes' = crashes + 1
    /\ \/ \E n \in durable .. Len(file), cut \in BOOLEAN :
             file' = SubSeq(file, 1, n) \o (IF cut /\ n < Len(file) THEN <<Torn>> ELSE << >>)
       \/ ~ linked /\ file' = << >>
    /\ durable' = Len(file')
    /\ sink' = "none" /\ failed' = FALSE /\ mu' = Free
    /\ op' = [o \in Ops |-> IF Running(o) THEN [op[o] EXCEPT !.pc = "dead"]
                                              ELSE op[o]]
    /\ UNCHANGED <<linked, commits, acked, faults>>

-----------------------------------------------------------------------------

Emit(o) == \/ EmitEarly(o) \/ EmitRefused(o) \/ EmitLock(o) \/ WriteLine(o)
           \/ \E short \in BOOLEAN : WriteFails(o, short)
           \/ \E bad \in BOOLEAN : Sync(o, bad)

AuditNext == \/ OpenFile \/ Repair \/ Close \/ Crash
             \/ \E bad \in BOOLEAN : \/ SyncOpened(bad) \/ syncAuditParents(bad)
                                     \/ \E m \in Mutations : Mutate(m, bad)
             \/ \E m \in Mutations : RetryMutation(m)
             \/ \E d \in Decisions, allowed \in BOOLEAN : Decide(d, allowed)
             \/ \E o \in Ops : Emit(o)

AuditSpec == AuditInit /\ [][AuditNext]_auditVars

-----------------------------------------------------------------------------
(* Correctness *)

\* o's event is a line of its own among the first n.
Readable(o, n) == \E i \in 1 .. n : file[i] = o /\ (i = 1 \/ file[i - 1] # Torn)

\* An event Emit has acknowledged is a whole line that a crash cannot take
\* away, whatever writes and syncs failed, before or after it, and however
\* often the file was reopened.
AckedDurable == \A o \in acked : linked /\ Readable(o, durable)

\* A caller gets an allow only when its event is durable (recordDecision turns
\* a failed emit into a deny).
AllowedIsAudited == \A d \in Decisions : op[d].result = "ok" => d \in acked

\* A committed mutation without a durable event is still running, died with its
\* host, or its caller was told so by an AuditWriteError.
NoSilentGap ==
    \A m \in Mutations : commits[m] > 0 /\ m \notin acked =>
        Running(m) \/ op[m].pc = "dead" \/ op[m].result = "auditError"

\* A caller that retries unless the error says Committed never applies its
\* mutation twice.
CommittedOnce == \A m \in Mutations : commits[m] <= 1
=============================================================================
