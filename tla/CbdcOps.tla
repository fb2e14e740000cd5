------------------------------ MODULE CbdcOps ------------------------------
(***************************************************************************)
(* Minting and burning over the API (handleCBDCMint and handleCBDCBurn of   *)
(* api/main.go) behind requireAdmin (api/security.go): the replay check, the*)
(* idempotency cache of api/cbdc_idem.go, the calls of the node, and the    *)
(* goroutines that serve deliveries of the same or of another request at    *)
(* the same time.  A request may be delivered several times; a client that  *)
(* got an error, or nothing, tries again with a new nonce and the same      *)
(* idempotency key.  The caches do not survive a restart of the API.        *)
(***************************************************************************)
EXTENDS AdminReplay, FiniteSets

CONSTANTS
    Handler,        \* the goroutines that serve a request
    Message,        \* the requests clients send
    Key, NoKey,     \* idempotency keys, and none
    idemTTL, maxIdemEntries,
    MaxDeliveries,  \* bound on requests served
    MaxRestarts     \* bound on restarts of the API

Operation == {"mint", "burn"}
Slot == Operation \X Key

ASSUME CbdcAssumption ==
    /\ NoKey \notin Key
    /\ \A m \in Message : /\ m.op \in Operation /\ m.key \in Key \cup {NoKey}
                          /\ m.nonce \in Nonce \cup {NoNonce} /\ m.ts \in Nat
                          /\ m.authentic \in BOOLEAN
    /\ idemTTL \in Nat /\ maxIdemEntries \in Nat \ {0}

VARIABLES
    handler,     \* goroutine -> where it is, its request, its clock reading
    idem,        \* cbdcIdemCache: slot -> time of its creation
    effects,     \* slot -> how often the node executed it
    inNode,      \* slot -> calls the API gave up on that the node may still execute
    told,        \* history: slots whose client was told that it is done
    chained,     \* history: slots whose OP_RETURN was broadcast
    excused,     \* history: slots whose protection was lost
    deliveries, restarts

opVars == <<handler, idem, effects, inNode, told, chained, excused, deliveries, restarts>>
vars == <<replayVars, opVars>>

\* A goroutine that serves no request.
Free == [pc |-> "free", at |-> 0]

Init ==
    /\ ReplayInit
    /\ handler = [h \in Handler |-> Free]
    /\ idem = <<>>
    /\ effects = [s \in Slot |-> 0]
    /\ inNode = [s \in Slot |-> 0]
    /\ told = {} /\ chained = {} /\ excused = {}
    /\ deliveries = 0 /\ restarts = 0

slot(m) == <<m.op, m.key>>

\* Goroutines that have looked a slot up and not yet answered.
Working(s) ==
    {h \in Handler : handler[h].pc \in {"call", "broadcast", "store"} /\ slot(handler[h].msg) = s}

Goto(h, pc) == handler' = [handler EXCEPT ![h].pc = pc]
Answer(h) == handler' = [handler EXCEPT ![h] = Free]
-----------------------------------------------------------------------------
(* requireAdmin *)

\* A request gets past the breaker and the rate limit, CheckAdminReplay reads the
\* clock and finds the timestamp in the window, or has nothing to check.
ReadClock(h, m) ==
    /\ handler[h] = Free
    /\ deliveries < MaxDeliveries
    /\ Legacy(m) \/ InWindow(m, now)
    /\ handler' = [handler EXCEPT ![h] =
                     [pc |-> IF Legacy(m) THEN "auth" ELSE "nonce", at |-> now, msg |-> m]]
    /\ deliveries' = deliveries + 1
    /\ UNCHANGED <<replayVars, idem, effects, inNode, told, chained, excused, restarts>>

seenOrRecord(h) ==
    /\ handler[h].pc = "nonce"
    /\ \/ Seen(handler[h].msg, handler[h].at) /\ Answer(h)
       \/ Record(handler[h].msg, handler[h].at) /\ Goto(h, "auth")
    /\ UNCHANGED <<idem, effects, inNode, told, chained, excused, deliveries, restarts>>

\* VerifyAdminSig and checkAdminKey.
Authorize(h) ==
    /\ handler[h].pc = "auth"
    /\ IF handler[h].msg.authentic THEN Goto(h, "lookup") ELSE Answer(h)
    /\ UNCHANGED <<replayVars, idem, effects, inNode, told, chained, excused, deliveries,
                   restarts>>
-----------------------------------------------------------------------------
(* The handlers *)

Drop(f, S) == [s \in DOMAIN f \ S |-> f[s]]

\* Mutant of HitKey: the operation is not part of the key of the cache.
HitKeyUnscoped(m) == {s \in DOMAIN idem : s[2] = m.key}

\* The entries that answer a request.
HitKey(m) == {s \in DOMAIN idem : s = slot(m)}

\* An entry is older than idemTTL.
Old(s) == now - idem[s] > idemTTL

\* Get finds an entry: replayIdem answers.
Hit(h) ==
    /\ handler[h].pc = "lookup"
    /\ \E s \in HitKey(handler[h].msg) : ~ Old(s)
    /\ told' = told \cup {slot(handler[h].msg)}
    /\ Answer(h)
    /\ UNCHANGED <<replayVars, idem, effects, inNode, chained, excused, deliveries, restarts>>

\* Get finds none, or deletes one that is too old; the request may then be
\* refused by the rate limit or as invalid.
Miss(h) ==
    LET s == slot(handler[h].msg)
        old == {e \in HitKey(handler[h].msg) : Old(e)}
    IN  /\ handler[h].pc = "lookup"
        /\ HitKey(handler[h].msg) = old
        /\ idem' = Drop(idem, old)
        /\ \/ Goto(h, "call") /\ excused' = excused \cup old \cup (IF Working(s) = {} THEN {} ELSE {s})
           \/ Answer(h) /\ excused' = excused \cup old
        /\ UNCHANGED <<replayVars, effects, inNode, told, chained, deliveries, restarts>>

Count(f, m, d) == IF m.key = NoKey THEN f ELSE [f EXCEPT ![slot(m)] = @ + d]
Slots(m) == {slot(m)} \cap Slot

\* mintasset, burnasset: the node executes the call.
NodeExecutes(h) ==
    /\ handler[h].pc = "call"
    /\ effects' = Count(effects, handler[h].msg, 1)
    /\ Goto(h, "broadcast")
    /\ UNCHANGED <<replayVars, idem, inNode, told, chained, excused, deliveries, restarts>>

\* The node refuses.
NodeRefuses(h) ==
    /\ handler[h].pc = "call"
    /\ Answer(h)
    /\ UNCHANGED <<replayVars, idem, effects, inNode, told, chained, excused, deliveries,
                   restarts>>

\* No answer of the node within the timeout of the client: "mint failed".
NodeTimeout(h) ==
    /\ handler[h].pc = "call"
    /\ inNode' = Count(inNode, handler[h].msg, 1)
    /\ excused' = excused \cup Slots(handler[h].msg)
    /\ Answer(h)
    /\ UNCHANGED <<replayVars, idem, effects, told, chained, deliveries, restarts>>

\* The node executes a call the API has given up on.
NodeLate(s) ==
    /\ inNode[s] > 0
    /\ inNode' = [inNode EXCEPT ![s] = @ - 1]
    /\ effects' = [effects EXCEPT ![s] = @ + 1]
    /\ UNCHANGED <<replayVars, handler, idem, told, chained, excused, deliveries, restarts>>

\* broadcastOpReturn and generatetoaddress.
Broadcast(h) ==
    /\ handler[h].pc = "broadcast"
    /\ chained' = chained \cup Slots(handler[h].msg)
    /\ Goto(h, "store")
    /\ UNCHANGED <<replayVars, idem, effects, inNode, told, excused, deliveries, restarts>>

\* "broadcast failed": what the node executed stays.
BroadcastFails(h) ==
    /\ handler[h].pc = "broadcast"
    /\ excused' = excused \cup Slots(handler[h].msg)
    /\ Answer(h)
    /\ UNCHANGED <<replayVars, idem, effects, inNode, told, chained, deliveries, restarts>>

\* Mutant of Room: at capacity only the expired entries are evicted.
RoomExpired(gone) ==
    LET old == {s \in DOMAIN idem : Old(s)}
    IN  gone = IF Cardinality(DOMAIN idem) < maxIdemEntries THEN {} ELSE old

\* gone is what Set evicts: nothing below capacity, the expired entries, and an
\* arbitrary half when that is not enough.
Room(gone) ==
    LET old == {s \in DOMAIN idem : Old(s)}
        half == IF maxIdemEntries < 4 THEN 1 ELSE maxIdemEntries \div 2
        left == Cardinality(DOMAIN idem \ old)
    IN  IF Cardinality(DOMAIN idem) < maxIdemEntries THEN gone = {}
        ELSE IF left < maxIdemEntries THEN gone = old
        ELSE old \subseteq gone /\ Cardinality(gone \ old) = half

\* Mutant of Set: the response is not stored.
SetNothing(s) == UNCHANGED <<idem, excused>>

Set(s) ==
    \E gone \in SUBSET DOMAIN idem :
        /\ Room(gone)
        /\ idem' = [e \in (DOMAIN idem \ gone) \cup {s} |-> IF e = s THEN now ELSE idem[e]]
        /\ excused' = excused \cup (gone \ {s})

\* The response is written, and stored under the key if there is one.
Respond(h) ==
    /\ handler[h].pc = "store"
    /\ IF handler[h].msg.key = NoKey
       THEN UNCHANGED <<idem, excused, told>>
       ELSE Set(slot(handler[h].msg)) /\ told' = told \cup {slot(handler[h].msg)}
    /\ Answer(h)
    /\ UNCHANGED <<replayVars, effects, inNode, chained, deliveries, restarts>>

\* The API is restarted: what it served and remembered is gone.
Restart ==
    /\ restarts < MaxRestarts
    /\ restarts' = restarts + 1
    /\ ForgetNonces
    /\ handler' = [h \in Handler |-> Free]
    /\ idem' = <<>>
    /\ excused' = excused \cup DOMAIN idem \cup {s \in Slot : Working(s) # {}}
    /\ UNCHANGED <<effects, inNode, told, chained, deliveries>>

Serve(h) ==
    \/ \E m \in Message : ReadClock(h, m)
    \/ seenOrRecord(h) \/ Authorize(h) \/ Hit(h) \/ Miss(h)
    \/ NodeExecutes(h) \/ NodeRefuses(h) \/ NodeTimeout(h)
    \/ Broadcast(h) \/ BroadcastFails(h) \/ Respond(h)

Next ==
    \/ \E h \in Handler : Serve(h)
    \/ \E s \in Slot : NodeLate(s)
    \/ Restart
    \/ Tick /\ UNCHANGED opVars

Spec == Init /\ [][Next]_vars
-----------------------------------------------------------------------------
\* An idempotency key makes a mint or burn happen at most once, however often it is
\* delivered one after the other, unless its protection was lost: its entry
\* expired, was evicted or went with a restart, two deliveries were under way
\* together, or the node executed it and the client was told of a failure.
MintsOnce == \A s \in Slot : effects[s] > 1 => s \in excused

\* A client that is told a mint or burn is done, by the handler or by a stored
\* response, is told the truth: the node executed that very operation and its
\* transaction is broadcast.
ToldMeansDone == \A s \in told : effects[s] > 0 /\ s \in chained

\* Neither cache grows beyond its capacity.
CachesBounded == Len(nonces) <= nonceCacheSize /\ Cardinality(DOMAIN idem) <= maxIdemEntries

\* A nonce that was neither dropped from the full list nor forgotten by a restart
\* is accepted again only when no request it was accepted with can be repeated:
\* the clock has reached the end of the window of their timestamps, whatever
\* clock reading the second request waited with for the lock.
AcceptedOnce ==
    [][\A n \in Nonce, h \in Handler :
          /\ handler[h].pc = "nonce" /\ handler'[h].pc = "auth" /\ handler[h].msg.nonce = n
          /\ usedAt[n] # 0 /\ n \notin dropped
          => \A m \in Message : m.nonce = n /\ InWindow(m, usedAt[n]) => now >= m.ts + replayWindow]_vars
=============================================================================
