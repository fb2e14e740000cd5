----------------------------- MODULE AuditChain -----------------------------
(***************************************************************************)
(* The tamper-evident audit log of the API (api/audit_chain.go) and the     *)
(* circuit breaker with which requireAdmin (api/security.go) freezes admin  *)
(* operations.  HTTP goroutines append entries under auditChain.mu; a write *)
(* or an fsync may fail, the process may be killed or lose power between    *)
(* the two, and a restart recovers the chain from the file or leaves it     *)
(* disabled.                                                                *)
(***************************************************************************)
EXTENDS Integers, Sequences, FiniteSets

CONSTANTS
    Worker,       \* goroutines serving requests
    Faults,       \* what may happen, a subset of Fault
    MaxEntries,   \* bound on the entries ever built
    MaxRestarts   \* bound on restarts

\* A Write that leaves nothing or part of a line, a failing Sync, a power loss, a
\* file that cannot be opened or read when the process starts.
Fault == {"write", "torn", "fsync", "power", "open"}

ASSUME AuditAssumption ==
    /\ Faults \subseteq Fault
    /\ MaxEntries \in Nat /\ MaxRestarts \in Nat
    /\ IsFiniteSet(Worker)

breakerThreshold == 3

\* The hash of an entry is the number of the attempt that built it: SHA-256
\* over an entry with its time and prev_hash never repeats.
emptyHash == 0

VARIABLES
    file,         \* the lines of the audit file
    ragged,       \* the last line lacks its newline
    synced,       \* how many lines are known to be on stable storage
    prevHash, seq, enabled, consecFails, breakerTripped,  \* auditChainT
    req,          \* worker -> what its request is doing
    built,        \* entries built so far, also the last hash handed out
    restarts,
    unlogged,     \* history: admin operations since the last append that succeeded
    acked,        \* history: hashes of the entries synced as a line of their own
    damaged       \* history: a line was torn or an fsync failed

chain == <<prevHash, seq, enabled>>
breaker == <<consecFails, breakerTripped>>
disk == <<file, ragged, synced>>
vars == <<file, ragged, synced, prevHash, seq, enabled, consecFails,
          breakerTripped, req, built, restarts, unlogged, acked, damaged>>

\* A line is an entry or, when json.Unmarshal refuses it, garbage.
Entry(s, p, h) == [ok |-> TRUE, seq |-> s, prev |-> p, hash |-> h]
Garbage == [ok |-> FALSE, seq |-> 0, prev |-> emptyHash, hash |-> emptyHash]

\* prev_hash and hash of the lines before line i.
PrevOf(f, i) == IF i = 1 THEN emptyHash ELSE f[i - 1].hash

\* VerifyAuditChain, and the scan of OpenAuditChain, return no error.
Verifies(f) == \A i \in DOMAIN f : f[i].ok /\ f[i].prev = PrevOf(f, i)

TailHash(f) == IF f = <<>> THEN emptyHash ELSE f[Len(f)].hash
TailSeq(f) == IF f = <<>> THEN 0 ELSE f[Len(f)].seq

Idle == [pc |-> "idle", admin |-> FALSE]

Init ==
    /\ file = <<>> /\ ragged = FALSE /\ synced = 0
    /\ prevHash = emptyHash /\ seq = 0
    /\ enabled \in {TRUE} \cup (IF "open" \in Faults THEN {FALSE} ELSE {})
    /\ consecFails = 0 /\ breakerTripped = FALSE
    /\ req = [w \in Worker |-> Idle]
    /\ built = 0 /\ restarts = 0 /\ unlogged = 0 /\ acked = {}
    /\ damaged = FALSE
-----------------------------------------------------------------------------
\* auditChain.mu is free.
Unlocked == \A w \in Worker : req[w].pc # "written"

\* requireAdmin: the breaker is read, then the request is authenticated.
requireAdmin(w) ==
    /\ req[w].pc = "idle"
    /\ Unlocked
    /\ ~ breakerTripped
    /\ req' = [req EXCEPT ![w] = [pc |-> "audit", admin |-> TRUE]]
    /\ UNCHANGED <<disk, chain, breaker, built, restarts, unlogged, acked, damaged>>

\* Any other handler that calls Audit.
OtherEvent(w) ==
    /\ req[w].pc = "idle"
    /\ req' = [req EXCEPT ![w] = [pc |-> "audit", admin |-> FALSE]]
    /\ UNCHANGED <<disk, chain, breaker, built, restarts, unlogged, acked, damaged>>

\* Mutant of bumpBreakerLocked: one failure too late.
bumpBreakerLate ==
    /\ consecFails' = consecFails + 1
    /\ breakerTripped' = (breakerTripped \/ consecFails + 1 > breakerThreshold)

bumpBreakerLocked ==
    /\ consecFails' = consecFails + 1
    /\ breakerTripped' = (breakerTripped \/ consecFails + 1 >= breakerThreshold)

\* Audit returns; an admin request goes on to its privileged operation whether
\* or not the entry was written.
Return(w) == req' = [req EXCEPT ![w] = Idle]
Unlogged(w) == unlogged' = IF req[w].admin THEN unlogged + 1 ELSE unlogged

\* appendAuditChain when the chain is disabled.
AppendDisabled(w) ==
    /\ req[w].pc = "audit" /\ Unlocked
    /\ ~ enabled
    /\ built < MaxEntries
    /\ built' = built + 1
    /\ Return(w)
    /\ Unlogged(w)
    /\ UNCHANGED <<disk, chain, breaker, restarts, acked, damaged>>

\* What the file holds after the bytes of a line were appended to it: a line
\* without a newline swallows the next one.
Appended(line) ==
    IF ragged THEN [file EXCEPT ![Len(file)] = Garbage] ELSE Append(file, line)

\* appendAuditChain up to a successful Write; the mutex stays held.
AppendWrite(w) ==
    /\ req[w].pc = "audit" /\ Unlocked
    /\ enabled
    /\ built < MaxEntries
    /\ built' = built + 1
    /\ seq' = seq + 1
    /\ file' = Appended(Entry(seq + 1, prevHash, built + 1))
    /\ ragged' = FALSE
    /\ req' = [req EXCEPT ![w].pc = "written"]
    /\ UNCHANGED <<synced, prevHash, enabled, breaker, restarts, unlogged, acked, damaged>>

\* Write fails; seq is rolled back.  With "torn" part of the line, or all of it
\* but the newline, is already in the file.
WriteFailed(w) ==
    /\ req[w].pc = "audit" /\ Unlocked
    /\ enabled
    /\ built < MaxEntries
    /\ built' = built + 1
    /\ \/ "write" \in Faults /\ UNCHANGED <<file, ragged, damaged>>
       \/ /\ "torn" \in Faults
          /\ ragged' = TRUE /\ damaged' = TRUE
          /\ file' \in {Appended(Garbage), Appended(Entry(seq + 1, prevHash, built + 1))}
    /\ bumpBreakerLocked
    /\ Return(w)
    /\ Unlogged(w)
    /\ UNCHANGED <<synced, chain, restarts, acked>>

\* An entry that was written behind an unfinished line is not a line.
Acknowledge ==
    acked' = IF file[Len(file)].hash = built THEN acked \cup {built} ELSE acked

\* Mutant of SyncOk: prevHash is not advanced.
SyncOkStale(w) ==
    /\ req[w].pc = "written"
    /\ synced' = Len(file)
    /\ consecFails' = 0
    /\ Return(w)
    /\ unlogged' = 0
    /\ Acknowledge
    /\ UNCHANGED <<file, ragged, chain, breakerTripped, built, restarts, damaged>>

\* Mutant of SyncOk: the file is never synced.
SyncSkipped(w) ==
    /\ req[w].pc = "written"
    /\ prevHash' = built
    /\ consecFails' = 0
    /\ Return(w)
    /\ unlogged' = 0
    /\ Acknowledge
    /\ UNCHANGED <<disk, seq, enabled, breakerTripped, built, restarts, damaged>>

\* Mutant of SyncOk: a successful append clears the breaker.
SyncUnfreezes(w) ==
    /\ req[w].pc = "written"
    /\ synced' = Len(file)
    /\ prevHash' = built
    /\ consecFails' = 0 /\ breakerTripped' = FALSE
    /\ Return(w)
    /\ unlogged' = 0
    /\ Acknowledge
    /\ UNCHANGED <<file, ragged, seq, enabled, built, restarts, damaged>>

\* Sync succeeds: only now prevHash moves on.
SyncOk(w) ==
    /\ req[w].pc = "written"
    /\ synced' = Len(file)
    /\ prevHash' = built
    /\ consecFails' = 0
    /\ Return(w)
    /\ unlogged' = 0
    /\ Acknowledge
    /\ UNCHANGED <<file, ragged, seq, enabled, breakerTripped, built, restarts, damaged>>

\* Sync fails: seq is kept, prevHash is not advanced.
SyncFailed(w) ==
    /\ "fsync" \in Faults
    /\ req[w].pc = "written"
    /\ bumpBreakerLocked
    /\ Return(w)
    /\ Unlogged(w)
    /\ damaged' = TRUE
    /\ UNCHANGED <<disk, chain, built, restarts, acked>>

ResetAuditBreaker ==
    /\ Unlocked
    /\ breakerTripped
    /\ breakerTripped' = FALSE /\ consecFails' = 0
    /\ unlogged' = 0
    /\ UNCHANGED <<disk, chain, req, built, restarts, acked, damaged>>

\* Mutant of OpenAuditChain: nothing is recovered from the file.
OpenAuditChainFresh(f) == enabled' = TRUE /\ prevHash' = emptyHash /\ seq' = 0

\* Mutant of OpenAuditChain: the numbering starts again.
OpenAuditChainUnnumbered(f) ==
    /\ Verifies(f)
    /\ enabled' = TRUE /\ prevHash' = TailHash(f) /\ seq' = 0

\* OpenAuditChain on the file f that a restart finds.  When the scan finds a
\* break, or the file cannot be opened, read or positioned, the chain stays
\* disabled and the service starts without it.
OpenAuditChain(f) ==
    \/ /\ Verifies(f)
       /\ enabled' = TRUE /\ prevHash' = TailHash(f) /\ seq' = TailSeq(f)
    \/ /\ ~ Verifies(f) \/ "open" \in Faults
       /\ enabled' = FALSE /\ prevHash' = emptyHash /\ seq' = 0

\* What a stop of the process leaves of the file.  A killed process leaves all
\* of it, synced or not; a power failure at least the synced lines, and a
\* fragment of the next one where lines can be torn.
Remains(f, r, n) == [file |-> f, ragged |-> r, synced |-> n]

Killed == {Remains(file, ragged, synced)}
PowerLost ==
    {Remains(SubSeq(file, 1, n), ragged /\ n = Len(file), n) : n \in synced..Len(file)}
TornByPowerLoss ==
    {Remains(Append(SubSeq(file, 1, n), Garbage), TRUE, n) : n \in synced..(Len(file) - 1)}

Survivors ==
    Killed \cup (IF "power" \in Faults THEN PowerLost ELSE {})
           \cup (IF {"power", "torn"} \subseteq Faults THEN TornByPowerLoss ELSE {})

\* The process stops at any point and is started again.
Restart(d) ==
    /\ restarts < MaxRestarts
    /\ restarts' = restarts + 1
    /\ file' = d.file /\ ragged' = d.ragged /\ synced' = d.synced
    /\ OpenAuditChain(d.file)
    /\ consecFails' = 0 /\ breakerTripped' = FALSE
    /\ req' = [w \in Worker |-> Idle]
    /\ unlogged' = 0
    /\ damaged' = (damaged \/ d.ragged)
    /\ UNCHANGED <<built, acked>>

Handle(w) ==
    \/ requireAdmin(w) \/ OtherEvent(w)
    \/ AppendDisabled(w) \/ AppendWrite(w) \/ WriteFailed(w)
    \/ SyncOk(w) \/ SyncFailed(w)

Next ==
    \/ \E w \in Worker : Handle(w)
    \/ ResetAuditBreaker
    \/ \E d \in Survivors : Restart(d)

Spec == Init /\ [][Next]_vars
-----------------------------------------------------------------------------
\* Until a first line is torn or a first fsync fails, whatever else fails and
\* wherever the process stops, every file it leaves verifies and its lines are
\* numbered 1, 2, 3...: a restart that can read it continues the chain.  The
\* numbers have no gaps because appendAuditChain takes seq back when Marshal or
\* Write fails; the header of audit_chain.go says otherwise (FailureLeavesGap).
ChainUnbroken ==
    ~ damaged => Verifies(file) /\ \A i \in DOMAIN file : file[i].seq = i

\* Until then, where the chain is enabled, prevHash and seq in memory are those of
\* the file, but for the line whose fsync is under way: a failed Write leaves both
\* behind, and OpenAuditChain recovers both.
TailRecovered ==
    ~ damaged /\ enabled /\ Unlocked => prevHash = TailHash(file) /\ seq = TailSeq(file)

\* "A chain write failure is surfaced as a gap in the seq numbers (operationally
\* visible)" (header of audit_chain.go): between two lines of the file that are
\* not of successive attempts, the numbers skip.  The code does not do this: seq
\* is taken back, and the file looks as if nothing had failed.
FailureLeavesGap ==
    \A i \in 2..Len(file) :
        file[i].hash > file[i - 1].hash + 1 => file[i].seq > file[i - 1].seq + 1

\* An entry that was synced as a line of its own stays in the file, whatever
\* writes and fsyncs fail or are cut short later and wherever the process stops:
\* nothing that follows damages an earlier line.
AckedDurable == \A h \in acked : \E i \in 1..synced : file[i].hash = h

\* The breaker stops admin operations after breakerThreshold appends in a row
\* failed; only the requests that had already passed the check slip through.
UnloggedBounded ==
    enabled => unlogged <= breakerThreshold + Cardinality(Worker) - 1

\* "a single lucky write after a long outage can't silently unfreeze admin ops"
\* (appendAuditChain): no append clears the breaker.
BreakerLatched ==
    [][\A w \in Worker : breakerTripped /\ Handle(w) => breakerTripped']_vars
=============================================================================
