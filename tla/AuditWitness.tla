---------------------------- MODULE AuditWitness ----------------------------
(***************************************************************************)
(* The goroutine of api/audit_witness.go that pins the tail of the audit    *)
(* chain to GarudaChain: it snapshots (seq, prevHash) under auditChain.mu,  *)
(* broadcasts one OP_RETURN transaction and remembers what it committed.    *)
(* The broadcast may fail, or time out after the node took the transaction. *)
(***************************************************************************)
EXTENDS AuditChain

VARIABLES
    witOn,      \* witness.enabled
    wit,        \* the goroutine: idle, or the snapshot it is committing
    last,       \* lastSeq and lastTailHash
    commits     \* the (seq, tail) pairs on GarudaChain

wvars == <<vars, witOn, wit, last, commits>>

Pin(s, h) == [seq |-> s, tail |-> h]
Sleeping == [pc |-> "idle", pin |-> Pin(0, emptyHash)]

\* StartAuditWitness turns the witness on when the chain c is enabled and the log
\* of the witness can be opened.
StartAuditWitness(c) == {c} \cup (IF "open" \in Faults THEN {FALSE} ELSE {})

WInit ==
    /\ Init
    /\ witOn \in StartAuditWitness(enabled)
    /\ wit = Sleeping
    /\ last = Pin(0, emptyHash)
    /\ commits = {}

\* Mutant of Snapshot: taken without auditChain.mu.
SnapshotUnlocked ==
    /\ witOn /\ wit = Sleeping
    /\ seq > 0 /\ prevHash # emptyHash
    /\ last # Pin(seq, prevHash)
    /\ wit' = [pc |-> "broadcast", pin |-> Pin(seq, prevHash)]
    /\ UNCHANGED <<vars, witOn, last, commits>>

\* commitAuditTail up to the broadcast.
Snapshot ==
    /\ witOn /\ wit = Sleeping
    /\ Unlocked
    /\ seq > 0 /\ prevHash # emptyHash
    /\ last # Pin(seq, prevHash)
    /\ wit' = [pc |-> "broadcast", pin |-> Pin(seq, prevHash)]
    /\ UNCHANGED <<vars, witOn, last, commits>>

BroadcastOk ==
    /\ wit.pc = "broadcast"
    /\ commits' = commits \cup {wit.pin}
    /\ wit' = [wit EXCEPT !.pc = "record"]
    /\ UNCHANGED <<vars, witOn, last>>

\* Mutant of BroadcastFailed: the tail counts as committed.
BroadcastForgotten ==
    /\ wit.pc = "broadcast"
    /\ commits' \in {commits, commits \cup {wit.pin}}
    /\ last' = wit.pin
    /\ wit' = Sleeping
    /\ UNCHANGED <<vars, witOn>>

\* The call fails or its answer is lost; either way it is tried again later.
BroadcastFailed ==
    /\ wit.pc = "broadcast"
    /\ commits' \in {commits, commits \cup {wit.pin}}
    /\ wit' = Sleeping
    /\ UNCHANGED <<vars, witOn, last>>

Record ==
    /\ wit.pc = "record"
    /\ last' = wit.pin
    /\ wit' = Sleeping
    /\ UNCHANGED <<vars, witOn, commits>>

Witness == Snapshot \/ BroadcastOk \/ BroadcastFailed \/ Record

WRestart(d) ==
    /\ Restart(d)
    /\ witOn' \in StartAuditWitness(enabled')
    /\ wit' = Sleeping
    /\ last' = Pin(0, emptyHash)
    /\ UNCHANGED commits

Serve == (\E w \in Worker : Handle(w)) \/ ResetAuditBreaker

WNext ==
    \/ Serve /\ UNCHANGED <<witOn, wit, last, commits>>
    \/ Witness
    \/ \E d \in Survivors : WRestart(d)

\* The ticker keeps firing, a goroutine that holds the mutex releases it, and
\* the node accepts a broadcast again and again.
WFairness ==
    /\ WF_wvars(Snapshot) /\ SF_wvars(BroadcastOk) /\ WF_wvars(Record)
    /\ \A w \in Worker : WF_wvars((SyncOk(w) \/ SyncFailed(w)) /\ UNCHANGED <<witOn, wit, last, commits>>)

WSpec == WInit /\ [][WNext]_wvars /\ WFairness
-----------------------------------------------------------------------------
\* "pinning (seq, tail_hash)" (commitAuditTail): a commitment names the number
\* and the hash of one and the same entry, although requests go on appending
\* while it is taken and broadcast, writes fail and the process stops.  Until a
\* line is torn or an fsync fails, that is: a failed Sync keeps the new seq and
\* the old prevHash, and the next commitment pairs the two.
PinsOneEntry ==
    ~ damaged =>
        \A c \in commits : \A i \in DOMAIN file : file[i].hash = c.tail => file[i].seq = c.seq

\* Until then what is committed stays in the file, and two commitments never name
\* two entries of the same number, through a kill or a power loss at any point.
CommittedKept ==
    ~ damaged =>
        /\ \A c \in commits : \E i \in DOMAIN file : file[i].hash = c.tail
        /\ \A c, d \in commits : c.seq = d.seq => c.tail = d.tail

\* Where the witness runs, a tail that stays the tail is committed in the end,
\* whatever broadcasts, writes and fsyncs fail on the way and wherever the process
\* is restarted with its witness.
TailWitnessed ==
    \A h \in 1..MaxEntries :
        (witOn /\ prevHash = h) ~> (~ witOn \/ prevHash # h \/ \E c \in commits : c.tail = h)
=============================================================================
