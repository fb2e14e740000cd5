---------------------------- MODULE MoneyProofs ----------------------------
(***************************************************************************)
(* Proofs about the services that bring GRD into circulation: CbdcOps, for  *)
(* any requests, keys, nonces, goroutines and capacities of the two caches, *)
(* and TopUp, for any deposits, addresses, accounts, goroutines and amounts.*)
(***************************************************************************)
EXTENDS CbdcOps, TopUp, SumLemmas

\* A goroutine that serves a request.
Busy == [pc : {"nonce", "auth", "lookup", "call", "broadcast", "store"}, at : Nat, msg : Message]

\* The shape of the state, as far as the proofs need it.
ShapeInv ==
    /\ handler \in [Handler -> Busy \cup {Free}]
    /\ DOMAIN idem \subseteq Slot
    /\ effects \in [Slot -> Nat]
    /\ inNode \in [Slot -> Nat]
    /\ now \in Nat

\* While a slot is protected, one goroutine at most is at work on it, the
\* node has no call left to execute, and what the node executed is in the cache
\* or about to be stored there.
Protected(s) ==
    /\ \A g, h \in Working(s) : g = h
    /\ \A h \in Working(s) : handler[h].pc = "call" => effects[s] = 0
    /\ effects[s] <= 1
    /\ inNode[s] = 0
    /\ effects[s] = 1 => s \in DOMAIN idem \/ Working(s) # {}

OnceInv == ShapeInv /\ \A s \in Slot \ excused : Protected(s)

\* A goroutine serves a request or is free.
LEMMA HandlerFacts ==
    ASSUME ShapeInv, NEW h \in Handler
    PROVE  /\ handler[h].pc # "free" => handler[h] \in Busy /\ handler[h].msg \in Message
           /\ handler[h].pc = "free" => handler[h] = Free
           /\ handler[h] = Free => handler[h].pc = "free"
<1>1. Free.pc = "free"
  BY Zenon DEF Free
<1>2. \A b \in Busy : b.pc # "free" /\ b.msg \in Message
  BY Zenon DEF Busy
<1>3. handler[h] \in Busy \cup {Free}
  BY Zenon DEF ShapeInv
<1>4. QED
  BY <1>1, <1>2, <1>3, Zenon

\* A goroutine answers.
LEMMA AnswerFacts ==
    ASSUME ShapeInv, NEW h \in Handler, Answer(h)
    PROVE  /\ handler' \in [Handler -> Busy \cup {Free}]
           /\ handler'[h] = Free
           /\ \A g \in Handler \ {h} : handler'[g] = handler[g]
BY Zenon DEF ShapeInv, Answer

\* A goroutine moves on with its request.
LEMMA GotoFacts ==
    ASSUME ShapeInv, NEW h \in Handler, handler[h].pc # "free",
           NEW pc \in {"auth", "lookup", "call", "broadcast", "store"}, Goto(h, pc)
    PROVE  /\ handler' \in [Handler -> Busy \cup {Free}]
           /\ handler'[h].pc = pc
           /\ handler'[h].msg = handler[h].msg
           /\ handler'[h].at = handler[h].at
           /\ \A g \in Handler \ {h} : handler'[g] = handler[g]
<1>1. handler[h] \in Busy
  BY HandlerFacts, Zenon
<1>2. /\ [handler[h] EXCEPT !.pc = pc] \in Busy
      /\ [handler[h] EXCEPT !.pc = pc].pc = pc
      /\ [handler[h] EXCEPT !.pc = pc].msg = handler[h].msg
      /\ [handler[h] EXCEPT !.pc = pc].at = handler[h].at
  BY <1>1, Zenon DEF Busy
<1>3. handler' = [handler EXCEPT ![h] = [handler[h] EXCEPT !.pc = pc]]
  BY Zenon DEF Goto
<1>4. QED
  BY <1>2, <1>3, Zenon DEF ShapeInv

\* A slot is counted, unless the request has no key.
LEMMA CountFacts ==
    ASSUME NEW f \in [Slot -> Nat], NEW m \in Message
    PROVE  /\ Count(f, m, 1) \in [Slot -> Nat]
           /\ \A s \in Slot : Count(f, m, 1)[s] = IF s = slot(m) THEN f[s] + 1 ELSE f[s]
           /\ m.key # NoKey <=> slot(m) \in Slot
<1>1. m.key # NoKey <=> slot(m) \in Slot
  BY CbdcAssumption, Zenon DEF slot, Slot
<1>2. QED
  BY <1>1 DEF Count

\* Set stores a slot and evicts others.
LEMMA SetFacts ==
    ASSUME NEW s, Set(s)
    PROVE  \E gone \in SUBSET DOMAIN idem :
              /\ Room(gone)
              /\ DOMAIN idem' = (DOMAIN idem \ gone) \cup {s}
              /\ excused' = excused \cup (gone \ {s})
BY Zenon DEF Set

LEMMA ShapeInit == Init => ShapeInv
BY DEF Init, ReplayInit, ShapeInv, Free, Busy

\* Every step keeps the shape.
LEMMA ShapeStep == ShapeInv /\ [Next]_vars => ShapeInv'
<1> SUFFICES ASSUME ShapeInv, [Next]_vars PROVE ShapeInv'
  BY Zenon
<1>1. ASSUME NEW h \in Handler, Serve(h) PROVE ShapeInv'
  <2>1. ASSUME NEW m \in Message, ReadClock(h, m) PROVE ShapeInv'
    BY <2>1, Zenon DEF ReadClock, ShapeInv, Busy, replayVars
  <2>2. CASE seenOrRecord(h)
    <3>1. handler[h].pc = "nonce" /\ now' = now /\ UNCHANGED <<idem, effects, inNode>>
      BY <2>2, Zenon DEF seenOrRecord, Seen, Record
    <3>2. handler' \in [Handler -> Busy \cup {Free}]
      <4>1. CASE Answer(h)
        BY <4>1, AnswerFacts, Zenon
      <4>2. CASE Goto(h, "auth")
        BY <3>1, <4>2, GotoFacts, Zenon
      <4>3. QED
        BY <2>2, <4>1, <4>2, Zenon DEF seenOrRecord
    <3>3. QED
      BY <3>1, <3>2, Zenon DEF ShapeInv
  <2>3. CASE Authorize(h)
    <3>1. handler' \in [Handler -> Busy \cup {Free}]
      <4>1. CASE Answer(h)
        BY <4>1, AnswerFacts, Zenon
      <4>2. CASE Goto(h, "lookup")
        BY <2>3, <4>2, GotoFacts, Zenon DEF Authorize
      <4>3. QED
        BY <2>3, <4>1, <4>2, Zenon DEF Authorize
    <3>2. QED
      BY <2>3, <3>1, Zenon DEF Authorize, ShapeInv, replayVars
  <2>4. CASE Hit(h)
    <3>1. handler' \in [Handler -> Busy \cup {Free}]
      BY <2>4, AnswerFacts, Zenon DEF Hit
    <3>2. QED
      BY <2>4, <3>1, Zenon DEF Hit, ShapeInv, replayVars
  <2>5. CASE Miss(h)
    <3>1. handler' \in [Handler -> Busy \cup {Free}]
      <4>1. CASE Answer(h)
        BY <4>1, AnswerFacts, Zenon
      <4>2. CASE Goto(h, "call")
        BY <2>5, <4>2, GotoFacts, Zenon DEF Miss
      <4>3. QED
        BY <2>5, <4>1, <4>2, Zenon DEF Miss
    <3>2. DOMAIN idem' \subseteq DOMAIN idem
      BY <2>5, Zenon DEF Miss, Drop
    <3>3. QED
      BY <2>5, <3>1, <3>2, Zenon DEF Miss, ShapeInv, replayVars
  <2>6. CASE NodeExecutes(h)
    <3>1. handler' \in [Handler -> Busy \cup {Free}]
      BY <2>6, GotoFacts, Zenon DEF NodeExecutes
    <3>2. effects' \in [Slot -> Nat]
      BY <2>6, HandlerFacts, CountFacts, Zenon DEF NodeExecutes, ShapeInv
    <3>3. QED
      BY <2>6, <3>1, <3>2, Zenon DEF NodeExecutes, ShapeInv, replayVars
  <2>7. CASE NodeRefuses(h)
    <3>1. handler' \in [Handler -> Busy \cup {Free}]
      BY <2>7, AnswerFacts, Zenon DEF NodeRefuses
    <3>2. QED
      BY <2>7, <3>1, Zenon DEF NodeRefuses, ShapeInv, replayVars
  <2>8. CASE NodeTimeout(h)
    <3>1. handler' \in [Handler -> Busy \cup {Free}]
      BY <2>8, AnswerFacts, Zenon DEF NodeTimeout
    <3>2. inNode' \in [Slot -> Nat]
      BY <2>8, HandlerFacts, CountFacts, Zenon DEF NodeTimeout, ShapeInv
    <3>3. QED
      BY <2>8, <3>1, <3>2, Zenon DEF NodeTimeout, ShapeInv, replayVars
  <2>9. CASE Broadcast(h)
    <3>1. handler' \in [Handler -> Busy \cup {Free}]
      BY <2>9, GotoFacts, Zenon DEF Broadcast
    <3>2. QED
      BY <2>9, <3>1, Zenon DEF Broadcast, ShapeInv, replayVars
  <2>10. CASE BroadcastFails(h)
    <3>1. handler' \in [Handler -> Busy \cup {Free}]
      BY <2>10, AnswerFacts, Zenon DEF BroadcastFails
    <3>2. QED
      BY <2>10, <3>1, Zenon DEF BroadcastFails, ShapeInv, replayVars
  <2>11. CASE Respond(h)
    <3>1. handler' \in [Handler -> Busy \cup {Free}]
      BY <2>11, AnswerFacts, Zenon DEF Respond
    <3>2. handler[h].msg.key # NoKey => slot(handler[h].msg) \in Slot
      BY <2>11, HandlerFacts, CountFacts, Zenon DEF Respond, ShapeInv
    <3>3. DOMAIN idem' \subseteq Slot
      <4>1. CASE handler[h].msg.key = NoKey
        BY <2>11, <4>1, Zenon DEF Respond, ShapeInv
      <4>2. CASE Set(slot(handler[h].msg)) /\ handler[h].msg.key # NoKey
        <5>1. PICK gone \in SUBSET DOMAIN idem :
                 DOMAIN idem' = (DOMAIN idem \ gone) \cup {slot(handler[h].msg)}
          BY <4>2, SetFacts, Zenon
        <5>2. QED
          BY <3>2, <4>2, <5>1, Zenon DEF ShapeInv
      <4>3. QED
        BY <2>11, <4>1, <4>2, Zenon DEF Respond
    <3>4. QED
      BY <2>11, <3>1, <3>3, Zenon DEF Respond, ShapeInv, replayVars
  <2>12. QED
    BY <1>1, <2>1, <2>2, <2>3, <2>4, <2>5, <2>6, <2>7, <2>8, <2>9, <2>10, <2>11 DEF Serve
<1>2. ASSUME NEW s \in Slot, NodeLate(s) PROVE ShapeInv'
  BY <1>2 DEF NodeLate, ShapeInv, replayVars
<1>3. CASE Restart
  BY <1>3 DEF Restart, ForgetNonces, ShapeInv
<1>4. CASE Tick /\ UNCHANGED opVars
  BY <1>4 DEF Tick, opVars, ShapeInv
<1>5. CASE UNCHANGED vars
  BY <1>5, Zenon DEF vars, opVars, replayVars, ShapeInv
<1>6. QED
  BY <1>1, <1>2, <1>3, <1>4, <1>5, Zenon DEF Next
-----------------------------------------------------------------------------
(* MintsOnce *)

AtWork == {"call", "broadcast", "store"}

\* A goroutine that is at work on no slot before and after a step.
LEMMA WorkingStays ==
    ASSUME NEW h \in Handler, handler[h].pc \notin AtWork, handler'[h].pc \notin AtWork,
           \A g \in Handler \ {h} : handler'[g] = handler[g]
    PROVE  \A s : Working(s)' = Working(s)
BY Zenon DEF Working, AtWork

\* A goroutine that answers is at work on nothing any more.
LEMMA WorkingLeaves ==
    ASSUME NEW h \in Handler, handler'[h] = Free,
           \A g \in Handler \ {h} : handler'[g] = handler[g]
    PROVE  \A s : Working(s)' = Working(s) \ {h}
<1>1. handler'[h].pc = "free"
  BY DEF Free
<1>2. QED
  BY <1>1, Zenon DEF Working

\* A goroutine that moves on at work stays at work on its slot.
LEMMA WorkingMoves ==
    ASSUME NEW h \in Handler, handler[h].pc \in AtWork, handler'[h].pc \in AtWork,
           handler'[h].msg = handler[h].msg,
           \A g \in Handler \ {h} : handler'[g] = handler[g]
    PROVE  \A s : Working(s)' = Working(s)
BY Zenon DEF Working, AtWork

\* A goroutine begins to work on the slot of its request.
LEMMA WorkingEnters ==
    ASSUME NEW h \in Handler, handler[h].pc \notin AtWork, handler'[h].pc \in AtWork,
           handler'[h].msg = handler[h].msg,
           \A g \in Handler \ {h} : handler'[g] = handler[g]
    PROVE  \A s : Working(s)' = IF s = slot(handler[h].msg) THEN Working(s) \cup {h}
                                ELSE Working(s)
BY Zenon DEF Working, AtWork

\* The protection of a slot is not restored.
LEMMA ExcusedGrows == [Next]_vars => excused \subseteq excused'
<1> SUFFICES ASSUME [Next]_vars PROVE excused \subseteq excused'
  BY Zenon
<1>1. ASSUME NEW h \in Handler, Respond(h) PROVE excused \subseteq excused'
  BY <1>1, SetFacts, Zenon DEF Respond
<1>2. ASSUME NEW h \in Handler, Serve(h), ~ Respond(h) PROVE excused \subseteq excused'
  BY <1>2 DEF Serve, ReadClock, seenOrRecord, Authorize, Hit, Miss, NodeExecutes, NodeRefuses,
              NodeTimeout, Broadcast, BroadcastFails
<1>3. QED
  BY <1>1, <1>2, Zenon DEF Next, NodeLate, Restart, Tick, opVars, vars

\* A step that touches neither the counters of a slot nor its entry, and lets
\* nobody begin or end the work on it, keeps it protected.
LEMMA Untouched ==
    ASSUME NEW s \in Slot, Protected(s),
           Working(s)' = Working(s), effects'[s] = effects[s], inNode'[s] = inNode[s],
           s \in DOMAIN idem => s \in DOMAIN idem',
           \A h \in Working(s) : handler'[h] = handler[h]
    PROVE  Protected(s)'
BY Zenon DEF Protected

\* A step of a goroutine keeps the slots protected that are not excused.
LEMMA ServeProtects ==
    ASSUME OnceInv, ShapeInv', NEW h \in Handler, Serve(h), excused \subseteq excused',
           NEW s \in Slot \ excused'
    PROVE  Protected(s)'
<1> USE DEF AtWork
<1>0. Protected(s) /\ ShapeInv
  BY Zenon DEF OnceInv
<1>1. ASSUME NEW m \in Message, ReadClock(h, m) PROVE Protected(s)'
  <2>1. /\ handler[h].pc \notin AtWork /\ handler'[h].pc \notin AtWork
        /\ \A g \in Handler \ {h} : handler'[g] = handler[g]
    BY <1>0, <1>1, SMTT(30) DEF ReadClock, Free, ShapeInv
  <2>2. QED
    BY <1>0, <1>1, <2>1, WorkingStays, Untouched, Zenon DEF ReadClock, Working
<1>2. CASE seenOrRecord(h)
  <2>1. /\ handler[h].pc \notin AtWork /\ handler'[h].pc \notin AtWork
        /\ \A g \in Handler \ {h} : handler'[g] = handler[g]
    <3>1. CASE Answer(h)
      BY <1>0, <1>2, <3>1, AnswerFacts DEF seenOrRecord, Free
    <3>2. CASE Goto(h, "auth")
      BY <1>0, <1>2, <3>2, GotoFacts, Zenon DEF seenOrRecord
    <3>3. QED
      BY <1>2, <3>1, <3>2, Zenon DEF seenOrRecord
  <2>2. QED
    BY <1>0, <1>2, <2>1, WorkingStays, Untouched, Zenon DEF seenOrRecord, Working
<1>3. CASE Authorize(h)
  <2>1. /\ handler[h].pc \notin AtWork /\ handler'[h].pc \notin AtWork
        /\ \A g \in Handler \ {h} : handler'[g] = handler[g]
    <3>1. CASE Answer(h)
      BY <1>0, <1>3, <3>1, AnswerFacts DEF Authorize, Free
    <3>2. CASE Goto(h, "lookup")
      BY <1>0, <1>3, <3>2, GotoFacts, Zenon DEF Authorize
    <3>3. QED
      BY <1>3, <3>1, <3>2, Zenon DEF Authorize
  <2>2. QED
    BY <1>0, <1>3, <2>1, WorkingStays, Untouched, Zenon DEF Authorize, Working
<1>4. CASE Hit(h)
  <2>1. /\ handler[h].pc \notin AtWork /\ handler'[h].pc \notin AtWork
        /\ \A g \in Handler \ {h} : handler'[g] = handler[g]
    BY <1>0, <1>4, AnswerFacts DEF Hit, Free
  <2>2. QED
    BY <1>0, <1>4, <2>1, WorkingStays, Untouched, Zenon DEF Hit, Working
<1>5. CASE Miss(h)
  <2>1. s \notin HitKey(handler[h].msg) /\ (s \in DOMAIN idem => s \in DOMAIN idem')
    BY <1>5, Zenon DEF Miss, Drop
  <2>2. CASE Answer(h)
    <3>1. /\ handler[h].pc \notin AtWork /\ handler'[h].pc \notin AtWork
          /\ \A g \in Handler \ {h} : handler'[g] = handler[g]
      BY <1>0, <1>5, <2>2, AnswerFacts, SMTT(30) DEF Miss, Free
    <3>2. QED
      BY <1>0, <1>5, <2>1, <3>1, WorkingStays, Untouched, Zenon DEF Miss, Working
  <2>3. CASE Goto(h, "call") /\ ~ Answer(h)
    <3>1. /\ handler[h].pc \notin AtWork /\ handler'[h].pc = "call"
          /\ handler'[h].msg = handler[h].msg
          /\ \A g \in Handler \ {h} : handler'[g] = handler[g]
      BY <1>0, <1>5, <2>3, GotoFacts, Zenon DEF Miss
    <3>2. \A r : Working(r)' = IF r = slot(handler[h].msg) THEN Working(r) \cup {h}
                              ELSE Working(r)
      BY <3>1, WorkingEnters, Zenon
    <3>3. CASE s = slot(handler[h].msg)
      <4>1. Working(s) = {} /\ s \notin DOMAIN idem
        BY <1>5, <2>1, <2>3, <3>3, Zenon DEF Miss, HitKey
      <4>2. effects[s] = 0
        BY <1>0, <4>1 DEF Protected, ShapeInv
      <4>3. QED
        BY <1>0, <1>5, <3>2, <3>3, <4>1, <4>2, Zenon DEF Miss, Protected
    <3>4. CASE s # slot(handler[h].msg)
      <4>1. h \notin Working(s)
        BY <3>1, Zenon DEF Working
      <4>2. \A g \in Working(s) : handler'[g] = handler[g]
        BY <3>1, <4>1, Zenon DEF Working
      <4>3. QED
        BY <1>0, <1>5, <2>1, <3>2, <3>4, <4>2, Untouched, Zenon DEF Miss
    <3>5. QED
      BY <3>3, <3>4, Zenon
  <2>4. QED
    BY <1>5, <2>2, <2>3, Zenon DEF Miss
<1>6. CASE NodeExecutes(h)
  <2>1. /\ handler[h].pc = "call" /\ handler'[h].pc = "broadcast"
        /\ handler'[h].msg = handler[h].msg
        /\ \A g \in Handler \ {h} : handler'[g] = handler[g]
    BY <1>0, <1>6, GotoFacts, Zenon DEF NodeExecutes
  <2>2. Working(s)' = Working(s)
    BY <2>1, WorkingMoves, Zenon
  <2>3. handler[h].msg \in Message
    BY <1>0, <2>1, HandlerFacts, Zenon
  <2>4. effects'[s] = IF s = slot(handler[h].msg) THEN effects[s] + 1 ELSE effects[s]
    BY <1>0, <1>6, <2>3, CountFacts DEF NodeExecutes, ShapeInv
  <2>5. CASE s = slot(handler[h].msg)
    <3>1. h \in Working(s)
      BY <2>1, <2>5, Zenon DEF Working
    <3>2. effects[s] = 0 /\ \A g \in Working(s) : g = h
      BY <1>0, <2>1, <3>1, Zenon DEF Protected
    <3>3. effects'[s] = 1 /\ inNode'[s] = inNode[s]
      BY <1>6, <2>4, <2>5, <3>2 DEF NodeExecutes
    <3>4. QED
      BY <1>0, <2>1, <2>2, <3>1, <3>2, <3>3 DEF Protected
  <2>6. CASE s # slot(handler[h].msg)
    <3>1. \A g \in Working(s) : handler'[g] = handler[g]
      BY <2>1, <2>6, Zenon DEF Working
    <3>2. QED
      BY <1>0, <1>6, <2>2, <2>4, <2>6, <3>1, Untouched, Zenon DEF NodeExecutes
  <2>7. QED
    BY <2>5, <2>6, Zenon
<1>7. CASE NodeRefuses(h)
  <2>1. /\ handler'[h] = Free
        /\ \A g \in Handler \ {h} : handler'[g] = handler[g]
    BY <1>0, <1>7, AnswerFacts, Zenon DEF NodeRefuses
  <2>2. Working(s)' = Working(s) \ {h}
    BY <2>1, WorkingLeaves, Zenon
  <2>3. h \in Working(s) => effects[s] = 0
    BY <1>0, <1>7, Zenon DEF NodeRefuses, Protected
  <2>4. \A g \in Working(s)' : handler'[g] = handler[g]
    BY <2>1, <2>2, Zenon DEF Working
  <2>5. QED
    BY <1>0, <1>7, <2>2, <2>3, <2>4 DEF NodeRefuses, Protected
<1>8. CASE NodeTimeout(h)
  <2>1. /\ handler'[h] = Free
        /\ \A g \in Handler \ {h} : handler'[g] = handler[g]
    BY <1>0, <1>8, AnswerFacts, Zenon DEF NodeTimeout
  <2>2. handler[h].msg \in Message
    BY <1>0, <1>8, HandlerFacts, Zenon DEF NodeTimeout
  <2>3. s # slot(handler[h].msg)
    BY <1>8, Zenon DEF NodeTimeout, Slots
  <2>4. h \notin Working(s)
    BY <2>3, Zenon DEF Working
  <2>5. Working(s)' = Working(s) /\ \A g \in Working(s) : handler'[g] = handler[g]
    BY <2>1, <2>4, WorkingLeaves DEF Working
  <2>6. inNode'[s] = inNode[s]
    BY <1>0, <1>8, <2>2, <2>3, CountFacts DEF NodeTimeout, ShapeInv
  <2>7. QED
    BY <1>0, <1>8, <2>5, <2>6, Untouched, Zenon DEF NodeTimeout
<1>9. CASE Broadcast(h)
  <2>1. /\ handler[h].pc = "broadcast" /\ handler'[h].pc = "store"
        /\ handler'[h].msg = handler[h].msg
        /\ \A g \in Handler \ {h} : handler'[g] = handler[g]
    BY <1>0, <1>9, GotoFacts, Zenon DEF Broadcast
  <2>2. Working(s)' = Working(s)
    BY <2>1, WorkingMoves, Zenon
  <2>3. \A g \in Working(s) : handler'[g].pc = "call" => handler[g].pc = "call"
    BY <2>1, Zenon DEF Working
  <2>4. QED
    BY <1>0, <1>9, <2>2, <2>3, Zenon DEF Broadcast, Protected
<1>10. CASE BroadcastFails(h)
  <2>1. /\ handler'[h] = Free
        /\ \A g \in Handler \ {h} : handler'[g] = handler[g]
    BY <1>0, <1>10, AnswerFacts, Zenon DEF BroadcastFails
  <2>2. h \notin Working(s)
    BY <1>10, Zenon DEF BroadcastFails, Slots, Working
  <2>3. Working(s)' = Working(s) /\ \A g \in Working(s) : handler'[g] = handler[g]
    BY <2>1, <2>2, WorkingLeaves, Zenon DEF Working
  <2>4. QED
    BY <1>0, <1>10, <2>3, Untouched, Zenon DEF BroadcastFails
<1>11. CASE Respond(h)
  <2>1. /\ handler'[h] = Free
        /\ \A g \in Handler \ {h} : handler'[g] = handler[g]
    BY <1>0, <1>11, AnswerFacts, Zenon DEF Respond
  <2>2. Working(s)' = Working(s) \ {h} /\ \A g \in Working(s)' : handler'[g] = handler[g]
    BY <2>1, WorkingLeaves DEF Working
  <2>3. h \in Working(s) => s \in DOMAIN idem'
    <3>1. SUFFICES ASSUME h \in Working(s) PROVE s \in DOMAIN idem'
      BY Zenon
    <3>2. s = slot(handler[h].msg) /\ handler[h].msg \in Message
      BY <1>0, <1>11, <3>1, HandlerFacts, Zenon DEF Working, Respond
    <3>3. handler[h].msg.key # NoKey
      BY <1>0, <3>2, CountFacts, Zenon DEF ShapeInv
    <3>4. Set(slot(handler[h].msg))
      BY <1>11, <3>3, Zenon DEF Respond
    <3>5. PICK gone \in SUBSET DOMAIN idem :
             DOMAIN idem' = (DOMAIN idem \ gone) \cup {slot(handler[h].msg)}
      BY <3>4, SetFacts, Zenon
    <3>6. QED
      BY <3>2, <3>5, Zenon
  <2>4. s \in DOMAIN idem => s \in DOMAIN idem'
    BY <1>11, SetFacts, Zenon DEF Respond
  <2>5. QED
    BY <1>0, <1>11, <2>2, <2>3, <2>4, Zenon DEF Respond, Protected
<1>12. QED
  BY <1>1, <1>2, <1>3, <1>4, <1>5, <1>6, <1>7, <1>8, <1>9, <1>10, <1>11, Zenon DEF Serve

\* The inductive step of MintsOnce.
LEMMA OnceStep == OnceInv /\ [Next]_vars => OnceInv'
<1> SUFFICES ASSUME OnceInv, [Next]_vars PROVE OnceInv'
  BY Zenon
<1>1. ShapeInv' /\ excused \subseteq excused'
  BY ShapeStep, ExcusedGrows, Zenon DEF OnceInv
<1> SUFFICES ASSUME NEW s \in Slot \ excused' PROVE Protected(s)'
  BY <1>1, Zenon DEF OnceInv
<1>2. Protected(s) /\ ShapeInv
  BY <1>1, Zenon DEF OnceInv
<1>3. ASSUME NEW h \in Handler, Serve(h) PROVE Protected(s)'
  BY <1>1, <1>3, ServeProtects, Zenon
<1>4. ASSUME NEW r \in Slot, NodeLate(r) PROVE Protected(s)'
  <2>1. r # s
    BY <1>2, <1>4 DEF NodeLate, Protected
  <2>2. effects'[s] = effects[s] /\ inNode'[s] = inNode[s] /\ handler' = handler /\ idem' = idem
    BY <1>2, <1>4, <2>1, Zenon DEF NodeLate, ShapeInv
  <2>3. Working(s)' = Working(s)
    BY <2>2, Zenon DEF Working
  <2>4. QED
    BY <1>2, <2>2, <2>3, Untouched, Zenon
<1>5. CASE Restart
  <2>1. Working(s) = {} /\ s \notin DOMAIN idem
    BY <1>5, Zenon DEF Restart
  <2>2. effects[s] = 0
    BY <1>2, <2>1 DEF Protected, ShapeInv
  <2>3. Working(s)' = {}
    BY <1>5, Zenon DEF Restart, Working, Free
  <2>4. QED
    BY <1>2, <1>5, <2>2, <2>3, Zenon DEF Restart, Protected
<1>6. CASE (Tick /\ UNCHANGED opVars) \/ UNCHANGED vars
  <2>1. UNCHANGED <<effects, inNode, handler, idem>>
    BY <1>6, Zenon DEF opVars, vars
  <2>2. Working(s)' = Working(s)
    BY <2>1, Zenon DEF Working
  <2>3. QED
    BY <1>2, <2>1, <2>2, Untouched, Zenon
<1>7. QED
  BY <1>3, <1>4, <1>5, <1>6, Zenon DEF Next

LEMMA OnceInit == Init => OnceInv
<1> SUFFICES ASSUME Init PROVE OnceInv
  BY Zenon
<1>1. ShapeInv
  BY ShapeInit, Zenon
<1>2. ASSUME NEW s \in Slot PROVE Protected(s)
  BY <1>2 DEF Init, Protected, Working, Free
<1>3. QED
  BY <1>1, <1>2, Zenon DEF OnceInv

\* For any requests, goroutines and capacities, a mint or burn under an idempotency
\* key that has not lost its protection happens at most once.
THEOREM MintedOnce == Spec => []MintsOnce
<1>1. OnceInv => MintsOnce
  BY DEF OnceInv, ShapeInv, Protected, MintsOnce
<1>2. QED
  BY <1>1, OnceInit, OnceStep, PTL DEF Spec
-----------------------------------------------------------------------------
(* ToldMeansDone *)

Finished(s) == effects[s] > 0 /\ s \in chained

\* What is in the cache, or about to be stored, is done; what is about to be
\* broadcast was executed.
DoneInv ==
    /\ ShapeInv
    /\ told \subseteq Slot
    /\ \A s \in told \cup DOMAIN idem : Finished(s)
    /\ \A h \in Handler, s \in Slot :
          h \in Working(s) /\ handler[h].pc # "call" =>
             /\ effects[s] > 0
             /\ handler[h].pc = "store" => s \in chained

\* Nothing that was done is undone.
LEMMA DoneGrows ==
    ASSUME ShapeInv, [Next]_vars
    PROVE  chained \subseteq chained' /\ \A s \in Slot : effects[s] > 0 => effects'[s] > 0
<1>1. ASSUME NEW h \in Handler, NodeExecutes(h)
      PROVE  chained \subseteq chained' /\ \A s \in Slot : effects[s] > 0 => effects'[s] > 0
  <2>1. handler[h].msg \in Message
    BY <1>1, HandlerFacts, Zenon DEF NodeExecutes
  <2>2. \A s \in Slot : effects'[s] = IF s = slot(handler[h].msg) THEN effects[s] + 1 ELSE effects[s]
    BY <1>1, <2>1, CountFacts, Zenon DEF NodeExecutes, ShapeInv
  <2>3. QED
    BY <1>1, <2>2 DEF NodeExecutes, ShapeInv
<1>2. ASSUME NEW h \in Handler, Serve(h), ~ NodeExecutes(h)
      PROVE  chained \subseteq chained' /\ effects' = effects
  BY <1>2 DEF Serve, ReadClock, seenOrRecord, Authorize, Hit, Miss, NodeRefuses,
              NodeTimeout, Broadcast, BroadcastFails, Respond
<1>3. ASSUME NEW r \in Slot, NodeLate(r)
      PROVE  chained \subseteq chained' /\ \A s \in Slot : effects[s] > 0 => effects'[s] > 0
  BY <1>3 DEF NodeLate, ShapeInv
<1>4. QED
  BY <1>1, <1>2, <1>3, Zenon DEF Next, Restart, Tick, opVars, vars

LEMMA DoneStep == DoneInv /\ [Next]_vars => DoneInv'
<1> SUFFICES ASSUME DoneInv, [Next]_vars PROVE DoneInv'
  BY Zenon
<1>0. ShapeInv /\ ShapeInv'
  BY ShapeStep, Zenon DEF DoneInv
<1>1. chained \subseteq chained' /\ \A s \in Slot : effects[s] > 0 => effects'[s] > 0
  BY <1>0, DoneGrows, Zenon
<1>2. \A s \in Slot : Finished(s) => Finished(s)'
  BY <1>1, Zenon DEF Finished
<1>3. told' \subseteq Slot /\ \A s \in told' \cup DOMAIN idem' : Finished(s)'
  <2>1. CASE told' = told /\ DOMAIN idem' \subseteq DOMAIN idem
    BY <1>0, <1>2, <2>1, Zenon DEF DoneInv, ShapeInv
  <2>2. ASSUME NEW h \in Handler, Hit(h)
        PROVE  told' \subseteq Slot /\ \A s \in told' \cup DOMAIN idem' : Finished(s)'
    <3>1. slot(handler[h].msg) \in DOMAIN idem
      BY <2>2, Zenon DEF Hit, HitKey
    <3>2. QED
      BY <1>0, <1>2, <2>2, <3>1, Zenon DEF Hit, DoneInv, ShapeInv
  <2>3. ASSUME NEW h \in Handler, Respond(h), handler[h].msg.key # NoKey
        PROVE  told' \subseteq Slot /\ \A s \in told' \cup DOMAIN idem' : Finished(s)'
    <3>1. handler[h].pc = "store" /\ handler[h].msg \in Message
      BY <1>0, <2>3, HandlerFacts, Zenon DEF Respond
    <3>2. slot(handler[h].msg) \in Slot /\ h \in Working(slot(handler[h].msg))
      BY <1>0, <2>3, <3>1, CountFacts, Zenon DEF ShapeInv, Working
    <3>3. Finished(slot(handler[h].msg))
      BY <3>1, <3>2, Zenon DEF DoneInv, Finished
    <3>4. Set(slot(handler[h].msg)) /\ told' = told \cup {slot(handler[h].msg)}
      BY <2>3, Zenon DEF Respond
    <3>5. PICK gone \in SUBSET DOMAIN idem :
             DOMAIN idem' = (DOMAIN idem \ gone) \cup {slot(handler[h].msg)}
      BY <3>4, SetFacts, Zenon
    <3>6. QED
      BY <1>0, <1>2, <3>2, <3>3, <3>4, <3>5, Zenon DEF DoneInv, ShapeInv
  <2>4. ASSUME NEW h \in Handler, Miss(h) PROVE told' = told /\ DOMAIN idem' \subseteq DOMAIN idem
    BY <2>4, Zenon DEF Miss, Drop
  <2>5. ASSUME NEW h \in Handler, Respond(h), handler[h].msg.key = NoKey
        PROVE  told' = told /\ idem' = idem
    BY <2>5, Zenon DEF Respond
  <2>6. ASSUME NEW h \in Handler, Serve(h), ~ Hit(h), ~ Miss(h), ~ Respond(h)
        PROVE  told' = told /\ idem' = idem
    BY <2>6 DEF Serve, ReadClock, seenOrRecord, Authorize, NodeExecutes, NodeRefuses,
                NodeTimeout, Broadcast, BroadcastFails
  <2>7. CASE Restart
    BY <2>1, <2>7 DEF Restart
  <2>8. QED
    BY <2>1, <2>2, <2>3, <2>4, <2>5, <2>6, <2>7, Zenon DEF Next, NodeLate, Tick, opVars, vars
<1>4. ASSUME NEW g \in Handler, NEW s \in Slot, g \in Working(s)', handler'[g].pc # "call"
      PROVE  effects'[s] > 0 /\ (handler'[g].pc = "store" => s \in chained')
  <2>1. CASE handler'[g] = handler[g]
    BY <1>1, <1>4, <2>1, Zenon DEF DoneInv, Working
  <2>2. CASE NodeExecutes(g)
    <3>1. handler[g].msg \in Message /\ handler'[g].pc = "broadcast" /\ handler'[g].msg = handler[g].msg
      BY <1>0, <2>2, HandlerFacts, GotoFacts, Zenon DEF NodeExecutes
    <3>2. s = slot(handler[g].msg)
      BY <1>4, <3>1, Zenon DEF Working
    <3>3. effects'[s] = effects[s] + 1
      BY <1>0, <2>2, <3>1, <3>2, CountFacts, Zenon DEF NodeExecutes, ShapeInv
    <3>4. QED
      BY <1>0, <3>1, <3>3 DEF ShapeInv
  <2>3. CASE Broadcast(g)
    <3>1. /\ handler[g].pc = "broadcast" /\ handler'[g].pc = "store"
          /\ handler'[g].msg = handler[g].msg
      BY <1>0, <2>3, GotoFacts, Zenon DEF Broadcast
    <3>2. s = slot(handler[g].msg) /\ g \in Working(s)
      BY <1>4, <3>1, Zenon DEF Working
    <3>3. effects[s] > 0 /\ s \in chained'
      BY <2>3, <3>1, <3>2, Zenon DEF DoneInv, Broadcast, Slots
    <3>4. QED
      BY <1>1, <3>3, Zenon
  <2>4. ASSUME handler'[g] # handler[g], ~ NodeExecutes(g), ~ Broadcast(g) PROVE FALSE
    <3>1. handler'[g].pc \in {"broadcast", "store"}
      BY <1>4 DEF Working
    <3>2. ASSUME NEW h \in Handler, Serve(h), h # g PROVE FALSE
      BY <1>0, <2>4, <3>2 DEF Serve, ReadClock, seenOrRecord, Authorize, Hit, Miss, NodeExecutes,
            NodeRefuses, NodeTimeout, Broadcast, BroadcastFails, Respond, Answer, Goto, ShapeInv
    <3>3. ASSUME Serve(g) PROVE FALSE
      <4>1. ASSUME NEW m \in Message, ReadClock(g, m) PROVE FALSE
        BY <1>0, <3>1, <4>1, Zenon DEF ReadClock, ShapeInv
      <4>2. ASSUME Answer(g) PROVE FALSE
        BY <1>0, <3>1, <4>2, AnswerFacts DEF Free
      <4>3. ASSUME NEW pc \in {"auth", "lookup", "call"}, handler[g].pc # "free", Goto(g, pc)
            PROVE  FALSE
        BY <1>0, <3>1, <4>3, GotoFacts, Zenon
      <4>4. QED
        BY <2>4, <3>3, <4>1, <4>2, <4>3, Zenon DEF Serve, seenOrRecord, Authorize, Hit, Miss,
              NodeRefuses, NodeTimeout, BroadcastFails, Respond
    <3>4. CASE Restart
      BY <3>1, <3>4, Zenon DEF Restart, Free
    <3>5. QED
      BY <2>4, <3>2, <3>3, <3>4, Zenon DEF Next, NodeLate, Tick, opVars, vars
  <2>5. QED
    BY <2>1, <2>2, <2>3, <2>4, Zenon
<1>5. QED
  BY <1>0, <1>3, <1>4, Zenon DEF DoneInv

\* For any requests, goroutines and capacities, a client is told that a mint or
\* burn is done only when the node executed it and its transaction is broadcast.
THEOREM ToldTheTruth == Spec => []ToldMeansDone
<1>1. Init => DoneInv
  <2> SUFFICES ASSUME Init PROVE DoneInv
    BY Zenon
  <2>1. ShapeInv
    BY ShapeInit, Zenon
  <2>2. QED
    BY <2>1 DEF Init, DoneInv, Working, Free
<1>2. DoneInv => ToldMeansDone
  BY Zenon DEF DoneInv, Finished, ToldMeansDone
<1>3. QED
  BY <1>1, <1>2, DoneStep, PTL DEF Spec
-----------------------------------------------------------------------------
(* AcceptedOnce *)

NonceEntry == [nonce : Nonce, expireAt : Nat]

\* A nonce is listed once.  One that was accepted, and not dropped, is listed for
\* nonceCacheTTL from the clock reading it was accepted with.  Clock readings are
\* not ahead of the clock.
NonceInv ==
    /\ ShapeInv
    /\ nonces \in Seq(NonceEntry)
    /\ \A i, j \in 1..Len(nonces) : nonces[i].nonce = nonces[j].nonce => i = j
    /\ usedAt \in [Nonce -> Nat]
    /\ \A n \in Nonce : usedAt[n] # 0 /\ n \notin dropped =>
          \/ \E i \in 1..Len(nonces) :
                nonces[i].nonce = n /\ nonces[i].expireAt = usedAt[n] + nonceCacheTTL
          \/ usedAt[n] + nonceCacheTTL <= now
    /\ \A h \in Handler : handler[h].pc = "nonce" =>
          handler[h].at <= now /\ handler[h].msg.nonce \in Nonce

\* A prefix of the list.
LEMMA PrefixFacts ==
    ASSUME NEW f \in Seq(NonceEntry), NEW c \in 0..Len(f)
    PROVE  /\ SubSeq(f, 1, c) \in Seq(NonceEntry)
           /\ Len(SubSeq(f, 1, c)) = c /\ DOMAIN SubSeq(f, 1, c) = 1..c
           /\ \A i \in 1..c : SubSeq(f, 1, c)[i] = f[i]
OBVIOUS

\* What is left of the list when the oldest entry has made room.
LEMMA ShorterFacts ==
    ASSUME NEW f \in Seq(NonceEntry)
    PROVE  /\ Shorter(f) \in Seq(NonceEntry)
           /\ Len(Shorter(f)) <= Len(f)
           /\ Len(f) <= nonceCacheSize => Len(Shorter(f)) < nonceCacheSize
           /\ \A i \in 1..Len(Shorter(f)) : Shorter(f)[i] = f[i]
<1>1. CASE Len(f) < nonceCacheSize
  BY <1>1 DEF Shorter
<1>2. CASE ~ (Len(f) < nonceCacheSize)
  <2>1. nonceCacheSize - 1 \in 0..Len(f) /\ Shorter(f) = SubSeq(f, 1, nonceCacheSize - 1)
    BY <1>2, ReplayAssumption DEF Shorter
  <2>2. QED
    BY <2>1, PrefixFacts, ReplayAssumption
<1>3. QED
  BY <1>1, <1>2, Zenon

\* An entry at the front.
LEMMA FrontFacts ==
    ASSUME NEW f \in Seq(NonceEntry), NEW e \in NonceEntry
    PROVE  /\ <<e>> \o f \in Seq(NonceEntry)
           /\ Len(<<e>> \o f) = Len(f) + 1
           /\ (<<e>> \o f)[1] = e
           /\ \A i \in 1..Len(f) : (<<e>> \o f)[i + 1] = f[i]
           /\ \A i \in 2..Len(f) + 1 : (<<e>> \o f)[i] = f[i - 1]
OBVIOUS

\* What seenOrRecord removes from the back has expired by the clock.
LEMMA EvictedExpired ==
    ASSUME NonceInv, NEW c \in 0..Len(nonces), NEW t \in Nat, t <= now, Left(c, t)
    PROVE  \A i \in c + 1..Len(nonces) : nonces[i].expireAt <= now
<1>1. nonces \in Seq(NonceEntry) /\ now \in Nat
  BY Zenon DEF NonceInv, ShapeInv
<1>2. \A i \in 1..Len(nonces) : nonces[i] \in NonceEntry
  BY <1>1
<1>3. \A i \in c + 1..Len(nonces) : nonces[i].expireAt \in Nat
  BY <1>1, <1>2 DEF NonceEntry
<1>4. QED
  BY <1>1, <1>3 DEF Left

\* A nonce that seenOrRecord records was not accepted in the last nonceCacheTTL,
\* unless it was dropped.
LEMMA RecordedIsNew ==
    ASSUME NonceInv, NEW c \in 0..Len(nonces), NEW t \in Nat, t <= now, Left(c, t),
           NEW n \in Nonce, ~ Listed(n, SubSeq(nonces, 1, c)),
           usedAt[n] # 0, n \notin dropped
    PROVE  usedAt[n] + nonceCacheTTL <= now
<1>1. \A i \in 1..c : nonces[i].nonce # n
  <2>1. nonces \in Seq(NonceEntry)
    BY Zenon DEF NonceInv
  <2>2. DOMAIN SubSeq(nonces, 1, c) = 1..c /\ \A i \in 1..c : SubSeq(nonces, 1, c)[i] = nonces[i]
    BY <2>1, PrefixFacts, Zenon
  <2>3. QED
    BY <2>2, Zenon DEF Listed
<1>2. \A i \in c + 1..Len(nonces) : nonces[i].expireAt <= now
  BY EvictedExpired, Zenon
<1>3. QED
  BY <1>1, <1>2 DEF NonceInv

\* seenOrRecord keeps the invariant of the list.
LEMMA SeenKeeps ==
    ASSUME NonceInv, NEW m, NEW t \in Nat, t <= now, Seen(m, t), ShapeInv',
           \A h \in Handler : handler'[h].pc = "nonce" => handler'[h] = handler[h]
    PROVE  NonceInv'
<1>1. PICK c \in 0..Len(nonces) : Left(c, t) /\ nonces' = SubSeq(nonces, 1, c)
  BY Zenon DEF Seen
<1>2. UNCHANGED <<now, usedAt, dropped>>
  BY Zenon DEF Seen
<1>3. nonces \in Seq(NonceEntry)
  BY Zenon DEF NonceInv
<1>4. nonces' \in Seq(NonceEntry) /\ Len(nonces') = c /\ \A i \in 1..c : nonces'[i] = nonces[i]
  BY <1>1, <1>3, PrefixFacts, Zenon
<1>5. \A i \in c + 1..Len(nonces) : nonces[i].expireAt <= now
  BY <1>1, EvictedExpired, Zenon
<1>6. ASSUME NEW n \in Nonce, usedAt'[n] # 0, n \notin dropped'
      PROVE  \/ \E i \in 1..Len(nonces') :
                   nonces'[i].nonce = n /\ nonces'[i].expireAt = usedAt'[n] + nonceCacheTTL
             \/ usedAt'[n] + nonceCacheTTL <= now'
  <2>1. CASE usedAt[n] + nonceCacheTTL <= now
    BY <1>2, <2>1, Zenon
  <2>2. CASE ~ (usedAt[n] + nonceCacheTTL <= now)
    <3>1. PICK i \in 1..Len(nonces) :
             nonces[i].nonce = n /\ nonces[i].expireAt = usedAt[n] + nonceCacheTTL
      BY <1>2, <1>6, <2>2, Zenon DEF NonceInv
    <3>2. i \in 1..c
      BY <1>3, <1>5, <2>2, <3>1
    <3>3. QED
      BY <1>2, <1>4, <3>1, <3>2, Zenon
  <2>3. QED
    BY <2>1, <2>2, Zenon
<1>7. \A i, j \in 1..Len(nonces') : nonces'[i].nonce = nonces'[j].nonce => i = j
  BY <1>3, <1>4 DEF NonceInv
<1>8. \A h \in Handler : handler'[h].pc = "nonce" =>
          handler'[h].at <= now' /\ handler'[h].msg.nonce \in Nonce
  BY <1>2, Zenon DEF NonceInv
<1>9. QED
  BY <1>2, <1>4, <1>6, <1>7, <1>8, Zenon DEF NonceInv

LEMMA RecordKeeps ==
    ASSUME NonceInv, NEW m, m.nonce \in Nonce, NEW t \in Nat, t <= now, Record(m, t), ShapeInv',
           \A h \in Handler : handler'[h].pc = "nonce" => handler'[h] = handler[h]
    PROVE  NonceInv'
<1>1. PICK c \in 0..Len(nonces) :
         LET rest == SubSeq(nonces, 1, c)
         IN  /\ Left(c, t) /\ ~ Listed(m.nonce, rest)
             /\ Enlist(m, t, Shorter(rest))
             /\ dropped' = (dropped \cup {n \in Nonce :
                   Listed(n, rest) /\ ~ Listed(n, Shorter(rest))}) \ {m.nonce}
  BY Zenon DEF Record
<1> DEFINE rest == SubSeq(nonces, 1, c)
           kept == Shorter(rest)
           entry == [nonce |-> m.nonce, expireAt |-> t + nonceCacheTTL]
<1>2. now' = now /\ usedAt' = [usedAt EXCEPT ![m.nonce] = t] /\ nonces' = <<entry>> \o kept
  BY <1>1, Zenon DEF Record, Enlist
<1>3. nonces \in Seq(NonceEntry) /\ usedAt \in [Nonce -> Nat] /\ now \in Nat
  BY Zenon DEF NonceInv, ShapeInv
<1>4. /\ rest \in Seq(NonceEntry) /\ Len(rest) = c /\ DOMAIN rest = 1..c
      /\ \A i \in 1..c : rest[i] = nonces[i]
  BY <1>3, PrefixFacts, Zenon
<1>5. kept \in Seq(NonceEntry) /\ Len(kept) \in 0..c /\ \A i \in 1..Len(kept) : kept[i] = nonces[i]
  <2> HIDE DEF rest
  <2>1. kept \in Seq(NonceEntry) /\ Len(kept) <= Len(rest) /\ \A i \in 1..Len(kept) : kept[i] = rest[i]
    BY <1>4, ShorterFacts, Zenon
  <2>2. QED
    BY <1>4, <2>1
<1>6. entry \in NonceEntry
  BY ReplayAssumption DEF NonceEntry
<1> HIDE DEF entry, kept, rest
<1>7. /\ nonces' \in Seq(NonceEntry) /\ Len(nonces') = Len(kept) + 1
      /\ nonces'[1] = entry
      /\ \A i \in 1..Len(kept) : nonces'[i + 1] = nonces[i]
      /\ \A i \in 2..Len(kept) + 1 : nonces'[i] = nonces[i - 1]
  <2>1. /\ nonces' \in Seq(NonceEntry) /\ Len(nonces') = Len(kept) + 1
        /\ nonces'[1] = entry
        /\ \A i \in 1..Len(kept) : nonces'[i + 1] = kept[i]
        /\ \A i \in 2..Len(kept) + 1 : nonces'[i] = kept[i - 1]
    BY <1>2, <1>5, <1>6, FrontFacts
  <2>2. QED
    BY <1>5, <2>1
<1>8. entry.nonce = m.nonce /\ entry.expireAt = t + nonceCacheTTL
  BY Zenon DEF entry
<1>9. \A i \in 1..c : nonces[i].nonce # m.nonce
  BY <1>1, <1>4, Zenon DEF Listed, rest
<1>10. \A i, j \in 1..Len(nonces') : nonces'[i].nonce = nonces'[j].nonce => i = j
  <2>1. SUFFICES ASSUME NEW i \in 1..Len(kept) + 1, NEW j \in 1..Len(kept) + 1,
                        nonces'[i].nonce = nonces'[j].nonce
                 PROVE  i = j
    BY <1>7, Zenon
  <2>2. \A k \in 2..Len(kept) + 1 : k - 1 \in 1..c /\ nonces'[k].nonce # m.nonce
    BY <1>5, <1>7, <1>9
  <2>3. CASE i = 1 \/ j = 1
    BY <1>5, <1>7, <1>8, <2>1, <2>2, <2>3
  <2>4. CASE i \in 2..Len(kept) + 1 /\ j \in 2..Len(kept) + 1
    <3>1. nonces[i - 1].nonce = nonces[j - 1].nonce
      BY <1>7, <2>1, <2>4, Zenon
    <3>2. i - 1 \in 1..Len(nonces) /\ j - 1 \in 1..Len(nonces)
      BY <1>3, <2>2, <2>4
    <3>3. i - 1 = j - 1
      BY <3>1, <3>2, Zenon DEF NonceInv
    <3>4. QED
      BY <3>3
  <2>5. QED
    BY <1>5, <2>3, <2>4
<1>11. \A i \in c + 1..Len(nonces) : nonces[i].expireAt <= now
  BY <1>1, EvictedExpired, Zenon
<1>12. ASSUME NEW n \in Nonce, usedAt'[n] # 0, n \notin dropped'
       PROVE  \/ \E i \in 1..Len(nonces') :
                    nonces'[i].nonce = n /\ nonces'[i].expireAt = usedAt'[n] + nonceCacheTTL
              \/ usedAt'[n] + nonceCacheTTL <= now'
  <2>1. CASE n = m.nonce
    <3>1. usedAt'[n] = t
      BY <1>2, <1>3, <2>1, Zenon
    <3>2. 1 \in 1..Len(nonces')
      BY <1>5, <1>7
    <3>3. QED
      BY <1>7, <1>8, <2>1, <3>1, <3>2, Zenon
  <2>2. CASE n # m.nonce
    <3>1. usedAt'[n] = usedAt[n] /\ n \notin dropped
      BY <1>1, <1>2, <1>3, <1>12, <2>2, Zenon
    <3>2. CASE usedAt[n] + nonceCacheTTL <= now
      BY <1>2, <3>1, <3>2, Zenon
    <3>3. CASE ~ (usedAt[n] + nonceCacheTTL <= now)
      <4>1. PICK i \in 1..Len(nonces) :
               nonces[i].nonce = n /\ nonces[i].expireAt = usedAt[n] + nonceCacheTTL
        BY <1>12, <3>1, <3>3, Zenon DEF NonceInv
      <4>2. i \in 1..c
        BY <1>3, <1>11, <3>3, <4>1
      <4>3. Listed(n, rest)
        BY <1>4, <4>1, <4>2, Zenon DEF Listed
      <4>4. Listed(n, kept)
        BY <1>1, <1>12, <2>2, <4>3, Zenon DEF rest, kept
      <4>5. PICK j \in 1..Len(kept) : nonces[j].nonce = n
        BY <1>5, <4>4 DEF Listed
      <4>6. j = i
        BY <1>3, <1>5, <4>1, <4>5, SMTT(30) DEF NonceInv
      <4>7. i + 1 \in 1..Len(nonces') /\ nonces'[i + 1] = nonces[i]
        BY <1>5, <1>7, <4>5, <4>6, SMTT(30)
      <4>8. QED
        BY <3>1, <4>1, <4>7, Zenon
    <3>4. QED
      BY <3>2, <3>3, Zenon
  <2>3. QED
    BY <2>1, <2>2, Zenon
<1>13. usedAt' \in [Nonce -> Nat]
  BY <1>2, <1>3, Zenon
<1>14. \A h \in Handler : handler'[h].pc = "nonce" =>
          handler'[h].at <= now' /\ handler'[h].msg.nonce \in Nonce
  BY <1>2, Zenon DEF NonceInv
<1>15. QED
  BY <1>7, <1>10, <1>12, <1>13, <1>14, Zenon DEF NonceInv

\* A step that leaves the list alone and lets nobody wait for it.
LEMMA NonceUntouched ==
    ASSUME NonceInv, ShapeInv', UNCHANGED <<nonces, usedAt, dropped>>, now <= now',
           \A h \in Handler : handler'[h].pc = "nonce" => handler'[h] = handler[h]
    PROVE  NonceInv'
<1>1. now \in Nat /\ now' \in Nat /\ usedAt \in [Nonce -> Nat]
  BY Zenon DEF NonceInv, ShapeInv
<1>2. \A h \in Handler : handler'[h].pc = "nonce" =>
         handler'[h].at <= now' /\ handler'[h].msg.nonce \in Nonce
  <2>1. SUFFICES ASSUME NEW h \in Handler, handler'[h].pc = "nonce"
                 PROVE  handler'[h].at <= now' /\ handler'[h].msg.nonce \in Nonce
    BY Zenon
  <2>2. handler'[h] \in Busy
    BY <2>1 DEF ShapeInv, Free
  <2>3. handler'[h].at \in Nat
    BY <2>2, Zenon DEF Busy
  <2>4. handler'[h].at <= now /\ handler'[h].msg.nonce \in Nonce
    BY <2>1, Zenon DEF NonceInv
  <2>5. QED
    BY <1>1, <2>3, <2>4
<1>3. \A n \in Nonce : usedAt[n] + nonceCacheTTL <= now => usedAt[n] + nonceCacheTTL <= now'
  BY <1>1, ReplayAssumption
<1>4. QED
  BY <1>2, <1>3, Zenon DEF NonceInv

\* What seenOrRecord does to the goroutines.
LEMMA SeenOrRecordFacts ==
    ASSUME NonceInv, NEW h \in Handler, seenOrRecord(h)
    PROVE  /\ handler[h].at \in Nat /\ handler[h].at <= now /\ handler[h].msg.nonce \in Nonce
           /\ \A g \in Handler : handler'[g].pc = "nonce" => handler'[g] = handler[g]
           /\ \A g \in Handler \ {h} : handler'[g] = handler[g]
           /\ handler'[h].pc = "auth" => Record(handler[h].msg, handler[h].at)
<1>0. ShapeInv
  BY Zenon DEF NonceInv
<1>1. handler[h].pc = "nonce"
  BY Zenon DEF seenOrRecord
<1>2. handler[h] \in Busy
  BY <1>0, <1>1, HandlerFacts, Zenon
<1>3. handler[h].at \in Nat /\ handler[h].at <= now /\ handler[h].msg.nonce \in Nonce
  BY <1>1, <1>2, Zenon DEF Busy, NonceInv
<1>4. CASE Seen(handler[h].msg, handler[h].at) /\ Answer(h)
  BY <1>0, <1>3, <1>4, AnswerFacts, SMTT(30) DEF Free
<1>5. CASE Record(handler[h].msg, handler[h].at) /\ Goto(h, "auth")
  BY <1>0, <1>1, <1>3, <1>5, GotoFacts, Zenon
<1>6. QED
  BY <1>4, <1>5, Zenon DEF seenOrRecord

\* The other steps of a goroutine do not touch the list, and none of them but
\* seenOrRecord leads from "nonce" to "auth".
LEMMA OtherSteps ==
    ASSUME ShapeInv, NEW h \in Handler, Serve(h), ~ seenOrRecord(h),
           \A m \in Message : ~ ReadClock(h, m)
    PROVE  /\ UNCHANGED replayVars
           /\ \A g \in Handler \ {h} : handler'[g] = handler[g]
           /\ handler'[h].pc \in {"free", "lookup", "call", "broadcast", "store"}
<1>1. ASSUME Answer(h)
      PROVE  /\ \A g \in Handler \ {h} : handler'[g] = handler[g]
             /\ handler'[h].pc \in {"free", "lookup", "call", "broadcast", "store"}
  BY <1>1, AnswerFacts DEF Free
<1>2. ASSUME NEW pc \in {"lookup", "call", "broadcast", "store"}, Goto(h, pc), handler[h].pc # "free"
      PROVE  /\ \A g \in Handler \ {h} : handler'[g] = handler[g]
             /\ handler'[h].pc \in {"free", "lookup", "call", "broadcast", "store"}
  BY <1>2, GotoFacts, Zenon
<1>3. UNCHANGED replayVars
  BY Zenon DEF Serve, Authorize, Hit, Miss, NodeExecutes, NodeRefuses, NodeTimeout, Broadcast,
         BroadcastFails, Respond
<1>4. \/ Answer(h)
      \/ /\ handler[h].pc # "free"
         /\ \E pc \in {"lookup", "call", "broadcast", "store"} : Goto(h, pc)
  <2>1. CASE Authorize(h) \/ Hit(h) \/ Miss(h)
    BY <2>1, Zenon DEF Authorize, Hit, Miss
  <2>2. CASE NodeExecutes(h) \/ NodeRefuses(h) \/ NodeTimeout(h)
    BY <2>2, Zenon DEF NodeExecutes, NodeRefuses, NodeTimeout
  <2>3. CASE Broadcast(h) \/ BroadcastFails(h) \/ Respond(h)
    BY <2>3, Zenon DEF Broadcast, BroadcastFails, Respond
  <2>4. QED
    BY <2>1, <2>2, <2>3, Zenon DEF Serve
<1>5. QED
  BY <1>1, <1>2, <1>3, <1>4, Zenon

LEMMA NonceStep == NonceInv /\ [Next]_vars => NonceInv'
<1> SUFFICES ASSUME NonceInv, [Next]_vars PROVE NonceInv'
  BY Zenon
<1>0. ShapeInv /\ ShapeInv'
  BY ShapeStep, Zenon DEF NonceInv
<1>1. ASSUME NEW h \in Handler, NEW m \in Message, ReadClock(h, m) PROVE NonceInv'
  <2>1. UNCHANGED replayVars /\ \A g \in Handler \ {h} : handler'[g] = handler[g]
    BY <1>0, <1>1, Zenon DEF ReadClock, ShapeInv
  <2>2. handler'[h].at = now /\ handler'[h].msg = m
    BY <1>0, <1>1, Zenon DEF ReadClock, ShapeInv
  <2>3. handler'[h].pc = "nonce" => m.nonce \in Nonce
    <3>1. handler'[h].pc = "nonce" => ~ Legacy(m)
      BY <1>0, <1>1, Zenon DEF ReadClock, ShapeInv
    <3>2. QED
      BY <1>1, <3>1, CbdcAssumption, Zenon DEF ReadClock, InWindow
  <2>4. UNCHANGED <<now, nonces, usedAt, dropped>>
    BY <2>1, Zenon DEF replayVars
  <2>5. \A g \in Handler : handler'[g].pc = "nonce" =>
           handler'[g].at <= now' /\ handler'[g].msg.nonce \in Nonce
    <3>1. now \in Nat
      BY <1>0, Zenon DEF ShapeInv
    <3>2. ASSUME NEW g \in Handler \ {h}, handler'[g].pc = "nonce"
          PROVE  handler'[g].at <= now' /\ handler'[g].msg.nonce \in Nonce
      BY <2>1, <2>4, <3>2, Zenon DEF NonceInv
    <3>3. ASSUME handler'[h].pc = "nonce"
          PROVE  handler'[h].at <= now' /\ handler'[h].msg.nonce \in Nonce
      BY <2>2, <2>3, <2>4, <3>1, <3>3
    <3>4. QED
      BY <3>2, <3>3, Zenon
  <2>6. QED
    BY <1>0, <2>4, <2>5, Zenon DEF NonceInv
<1>2. ASSUME NEW h \in Handler, seenOrRecord(h) PROVE NonceInv'
  <2>1. CASE Seen(handler[h].msg, handler[h].at)
    BY <1>0, <1>2, <2>1, SeenOrRecordFacts, SeenKeeps, Zenon
  <2>2. CASE Record(handler[h].msg, handler[h].at)
    BY <1>0, <1>2, <2>2, SeenOrRecordFacts, RecordKeeps, Zenon
  <2>3. QED
    BY <1>2, <2>1, <2>2, Zenon DEF seenOrRecord
<1>3. ASSUME NEW h \in Handler, Serve(h), ~ seenOrRecord(h), \A m \in Message : ~ ReadClock(h, m)
      PROVE  NonceInv'
  <2>1. /\ UNCHANGED <<nonces, usedAt, dropped>> /\ now' = now
        /\ \A g \in Handler : handler'[g].pc = "nonce" => handler'[g] = handler[g]
    BY <1>0, <1>3, OtherSteps, Zenon DEF replayVars
  <2>2. QED
    BY <1>0, <2>1, NonceUntouched DEF ShapeInv
<1>4. ASSUME NEW s \in Slot, NodeLate(s) PROVE NonceInv'
  BY <1>0, <1>4, NonceUntouched DEF NodeLate, replayVars, ShapeInv
<1>5. CASE Restart
  <2>1. /\ nonces' = <<>> /\ dropped' = dropped \cup {n \in Nonce : Listed(n, nonces)}
        /\ UNCHANGED <<now, usedAt>>
    BY <1>5, Zenon DEF Restart, ForgetNonces
  <2>2. \A h \in Handler : handler'[h].pc = "free"
    BY <1>5, Zenon DEF Restart, Free
  <2>3. ASSUME NEW n \in Nonce, usedAt'[n] # 0, n \notin dropped'
        PROVE  usedAt'[n] + nonceCacheTTL <= now'
    <3>1. n \notin dropped /\ ~ Listed(n, nonces)
      BY <2>1, <2>3, Zenon
    <3>2. DOMAIN nonces = 1..Len(nonces)
      BY SMTT(30) DEF NonceInv
    <3>3. QED
      BY <2>1, <2>3, <3>1, <3>2, Zenon DEF NonceInv, Listed
  <2>4. nonces' \in Seq(NonceEntry) /\ Len(nonces') = 0
    BY <2>1
  <2>5. QED
    BY <1>0, <2>1, <2>2, <2>3, <2>4 DEF NonceInv
<1>6. CASE Tick /\ UNCHANGED opVars
  BY <1>0, <1>6, NonceUntouched DEF Tick, opVars, ShapeInv
<1>7. CASE UNCHANGED vars
  BY <1>0, <1>7, NonceUntouched DEF vars, opVars, replayVars, ShapeInv
<1>8. QED
  BY <1>1, <1>2, <1>3, <1>4, <1>5, <1>6, <1>7, Zenon DEF Next

\* One step of AcceptedOnce.
LEMMA AcceptStep ==
    ASSUME NonceInv, [Next]_vars, NEW n \in Nonce, NEW h \in Handler,
           handler[h].pc = "nonce", handler'[h].pc = "auth", handler[h].msg.nonce = n,
           usedAt[n] # 0, n \notin dropped,
           NEW m \in Message, m.nonce = n, InWindow(m, usedAt[n])
    PROVE  now >= m.ts + replayWindow
<1>0. ShapeInv
  BY Zenon DEF NonceInv
<1>1. seenOrRecord(h)
  <2>1. ASSUME NEW g \in Handler, NEW l \in Message, ReadClock(g, l) PROVE FALSE
    BY <1>0, <2>1, SMTT(30) DEF ReadClock, ShapeInv, Free
  <2>2. ASSUME NEW g \in Handler, g # h, seenOrRecord(g) PROVE FALSE
    BY <2>2, SeenOrRecordFacts, Zenon
  <2>3. ASSUME NEW g \in Handler, Serve(g), ~ seenOrRecord(g), \A l \in Message : ~ ReadClock(g, l)
        PROVE  FALSE
    BY <1>0, <2>3, OtherSteps, Zenon
  <2>4. CASE Restart
    BY <2>4, Zenon DEF Restart, Free
  <2>5. QED
    BY <2>1, <2>2, <2>3, <2>4, Zenon DEF Next, NodeLate, Tick, opVars, vars
<1>2. Record(handler[h].msg, handler[h].at) /\ handler[h].at \in Nat /\ handler[h].at <= now
  BY <1>1, SeenOrRecordFacts, Zenon
<1>3. PICK c \in 0..Len(nonces) : Left(c, handler[h].at) /\ ~ Listed(n, SubSeq(nonces, 1, c))
  BY <1>2, Zenon DEF Record
<1>4. usedAt[n] + nonceCacheTTL <= now
  BY <1>2, <1>3, RecordedIsNew, Zenon
<1>5. m.ts \in Nat /\ usedAt[n] \in Nat /\ now \in Nat
  BY <1>0, CbdcAssumption, Zenon DEF NonceInv, ShapeInv
<1>6. m.ts - usedAt[n] <= replayWindow
  BY Zenon DEF InWindow
<1>7. QED
  BY <1>4, <1>5, <1>6, ReplayAssumption

LEMMA NonceInit == Init => NonceInv
<1> SUFFICES ASSUME Init PROVE NonceInv
  BY Zenon
<1>1. ShapeInv
  BY ShapeInit, Zenon
<1>2. nonces \in Seq(NonceEntry) /\ Len(nonces) = 0
  BY DEF Init, ReplayInit
<1>3. QED
  BY <1>1, <1>2 DEF Init, ReplayInit, NonceInv, Free

\* For any window, any capacity of the list and any delay between the reading of
\* the clock and the lock, a nonce that was not dropped is accepted again only
\* when the timestamps it was accepted with are out of date.
THEOREM NoncesAcceptedOnce == Spec => AcceptedOnce
<1>1. NonceInv /\ [Next]_vars =>
        [\A n \in Nonce, h \in Handler :
          /\ handler[h].pc = "nonce" /\ handler'[h].pc = "auth" /\ handler[h].msg.nonce = n
          /\ usedAt[n] # 0 /\ n \notin dropped
          => \A m \in Message : m.nonce = n /\ InWindow(m, usedAt[n]) => now >= m.ts + replayWindow]_vars
  BY AcceptStep, Zenon
<1>2. QED
  BY <1>1, NonceInit, NonceStep, PTL DEF Spec, AcceptedOnce
-----------------------------------------------------------------------------
(* CachesBounded *)

IdemBounded == IsFiniteSet(DOMAIN idem) /\ Cardinality(DOMAIN idem) <= maxIdemEntries
BoundInv == NonceInv /\ Len(nonces) <= nonceCacheSize /\ IdemBounded

\* Set makes room before it stores.
LEMMA SetBounded ==
    ASSUME IdemBounded, NEW s, Set(s)
    PROVE  IdemBounded'
<1>1. PICK gone \in SUBSET DOMAIN idem :
         Room(gone) /\ DOMAIN idem' = (DOMAIN idem \ gone) \cup {s}
  BY SetFacts, Zenon
<1> DEFINE D == DOMAIN idem
           old == {e \in D : Old(e)}
           half == IF maxIdemEntries < 4 THEN 1 ELSE maxIdemEntries \div 2
<1>2. IsFiniteSet(D) /\ Cardinality(D) \in Nat /\ Cardinality(D) <= maxIdemEntries
  BY FS_CardinalityType, Zenon DEF IdemBounded
<1>3. IsFiniteSet(D \ old) /\ Cardinality(D \ old) \in Nat /\ Cardinality(D \ old) <= Cardinality(D)
  BY <1>2, FS_Subset, FS_CardinalityType, Zenon
<1>4. IsFiniteSet(D \ gone) /\ Cardinality(D \ gone) \in Nat
  BY <1>2, FS_Subset, FS_CardinalityType, Zenon
<1>5. half \in Nat /\ half >= 1
  BY CbdcAssumption
<1> HIDE DEF half
<1>6. Cardinality(D \ gone) < maxIdemEntries
  <2>1. CASE Cardinality(D) < maxIdemEntries
    <3>1. gone = {}
      BY <1>1, <2>1, Zenon DEF Room
    <3>2. D \ gone = D
      BY <3>1, Zenon
    <3>3. QED
      BY <2>1, <3>2, Zenon
  <2>2. CASE ~ (Cardinality(D) < maxIdemEntries) /\ Cardinality(D \ old) < maxIdemEntries
    <3>1. gone = old
      BY <1>1, <2>2, Zenon DEF Room
    <3>2. QED
      BY <2>2, <3>1, Zenon
  <2>3. CASE ~ (Cardinality(D) < maxIdemEntries) /\ ~ (Cardinality(D \ old) < maxIdemEntries)
    <3>1. old \subseteq gone /\ Cardinality(gone \ old) = half
      BY <1>1, <2>3, Zenon DEF Room, half
    <3>2. D \ gone = (D \ old) \ (gone \ old) /\ (D \ old) \cap (gone \ old) = gone \ old
      BY <3>1, Zenon
    <3>3. Cardinality(D \ gone) = Cardinality(D \ old) - half
      <4> DEFINE A == D \ old
                 B == gone \ old
      <4>1. IsFiniteSet(A) /\ IsFiniteSet(B) /\ A \cap B = B /\ D \ gone = A \ B
        BY <1>2, <1>3, <3>2, FS_Subset, Zenon
      <4> HIDE DEF A, B
      <4>2. Cardinality(A \ B) = Cardinality(A) - Cardinality(A \cap B)
        BY <4>1, FS_Difference, Zenon
      <4>3. QED
        BY <3>1, <4>1, <4>2, Zenon DEF A, B
    <3>4. QED
      BY <1>2, <1>3, <1>5, <3>3, CbdcAssumption
  <2>4. QED
    BY <2>1, <2>2, <2>3, Zenon
<1>7. /\ IsFiniteSet((D \ gone) \cup {s})
      /\ Cardinality((D \ gone) \cup {s}) <= Cardinality(D \ gone) + 1
  <2> HIDE DEF D
  <2>1. QED
    BY <1>4, FS_AddElement
<1>8. Cardinality((D \ gone) \cup {s}) \in Nat
  BY <1>7, FS_CardinalityType, Zenon
<1>9. QED
  BY <1>1, <1>4, <1>6, <1>7, <1>8, CbdcAssumption, SMTT(30) DEF IdemBounded

LEMMA IdemStep ==
    ASSUME IdemBounded, [Next]_vars
    PROVE  IdemBounded'
<1>1. ASSUME NEW h \in Handler, Respond(h) PROVE IdemBounded'
  <2>1. CASE handler[h].msg.key = NoKey
    BY <1>1, <2>1, Zenon DEF Respond, IdemBounded
  <2>2. CASE Set(slot(handler[h].msg))
    BY <2>2, SetBounded, Zenon
  <2>3. QED
    BY <1>1, <2>1, <2>2, Zenon DEF Respond
<1>2. CASE DOMAIN idem' \subseteq DOMAIN idem
  <2>1. /\ IsFiniteSet(DOMAIN idem') /\ Cardinality(DOMAIN idem') <= Cardinality(DOMAIN idem)
        /\ Cardinality(DOMAIN idem) \in Nat /\ Cardinality(DOMAIN idem') \in Nat
    BY <1>2, FS_Subset, FS_CardinalityType, Zenon DEF IdemBounded
  <2>2. QED
    BY <2>1, CbdcAssumption DEF IdemBounded
<1>3. ASSUME NEW h \in Handler, Serve(h), ~ Respond(h) PROVE DOMAIN idem' \subseteq DOMAIN idem
  <2>1. ASSUME Miss(h) PROVE DOMAIN idem' \subseteq DOMAIN idem
    BY <2>1, Zenon DEF Miss, Drop
  <2>2. ASSUME ~ Miss(h) PROVE idem' = idem
    BY <1>3, <2>2 DEF Serve, ReadClock, seenOrRecord, Authorize, Hit, NodeExecutes, NodeRefuses,
          NodeTimeout, Broadcast, BroadcastFails
  <2>3. QED
    BY <2>1, <2>2, Zenon
<1>4. ASSUME Restart PROVE DOMAIN idem' \subseteq DOMAIN idem
  BY <1>4 DEF Restart
<1>5. QED
  BY <1>1, <1>2, <1>3, <1>4, Zenon DEF Next, NodeLate, Tick, opVars, vars

\* The list of nonces makes room before it grows.
LEMMA NoncesBounded ==
    ASSUME NonceInv, [Next]_vars, Len(nonces) <= nonceCacheSize
    PROVE  Len(nonces') <= nonceCacheSize
<1>0. ShapeInv /\ nonces \in Seq(NonceEntry)
  BY Zenon DEF NonceInv
<1>1. ASSUME NEW h \in Handler, seenOrRecord(h) PROVE Len(nonces') <= nonceCacheSize
  <2> DEFINE m == handler[h].msg
             t == handler[h].at
  <2>1. t \in Nat /\ m.nonce \in Nonce
    BY <1>1, SeenOrRecordFacts, Zenon
  <2>2. CASE Seen(m, t)
    <3>1. PICK c \in 0..Len(nonces) : nonces' = SubSeq(nonces, 1, c)
      BY <2>2, Zenon DEF Seen
    <3>2. Len(nonces') = c
      BY <1>0, <3>1, PrefixFacts, Zenon
    <3>3. QED
      BY <1>0, <3>1, <3>2, ReplayAssumption
  <2>3. CASE Record(m, t)
    <3>1. PICK c \in 0..Len(nonces) : Enlist(m, t, Shorter(SubSeq(nonces, 1, c)))
      BY <2>3, Zenon DEF Record
    <3> DEFINE rest == SubSeq(nonces, 1, c)
               entry == [nonce |-> m.nonce, expireAt |-> t + nonceCacheTTL]
    <3>2. rest \in Seq(NonceEntry) /\ Len(rest) = c /\ c <= nonceCacheSize
      BY <1>0, PrefixFacts, ReplayAssumption
    <3> HIDE DEF rest
    <3>3. Shorter(rest) \in Seq(NonceEntry) /\ Len(Shorter(rest)) < nonceCacheSize
      BY <3>2, ShorterFacts, Zenon
    <3>4. entry \in NonceEntry
      BY <2>1, ReplayAssumption DEF NonceEntry
    <3>5. nonces' = <<entry>> \o Shorter(rest)
      BY <3>1, Zenon DEF Enlist, rest
    <3> HIDE DEF entry
    <3>6. Len(nonces') = Len(Shorter(rest)) + 1
      BY <3>3, <3>4, <3>5, FrontFacts, Zenon
    <3>7. QED
      BY <3>3, <3>6, ReplayAssumption
  <2>4. QED
    BY <1>1, <2>2, <2>3, Zenon DEF seenOrRecord
<1>2. ASSUME NEW h \in Handler, Serve(h), ~ seenOrRecord(h) PROVE nonces' = nonces
  BY <1>0, <1>2, OtherSteps, Zenon DEF ReadClock, replayVars
<1>3. CASE Restart
  <2>1. Len(nonces') = 0
    BY <1>3, Zenon DEF Restart, ForgetNonces
  <2>2. QED
    BY <2>1, ReplayAssumption
<1>4. QED
  BY <1>1, <1>2, <1>3, Zenon DEF Next, NodeLate, Tick, vars, replayVars

\* For any capacities, neither the list of nonces nor the idempotency cache
\* outgrows its own.
THEOREM CachesStayBounded == Spec => []CachesBounded
<1>1. Init => BoundInv
  <2> SUFFICES ASSUME Init PROVE BoundInv
    BY Zenon
  <2>1. NonceInv
    BY NonceInit, Zenon
  <2>2. DOMAIN idem = {} /\ Len(nonces) = 0
    BY DEF Init, ReplayInit
  <2>3. QED
    BY <2>1, <2>2, FS_EmptySet, ReplayAssumption, CbdcAssumption DEF BoundInv, IdemBounded
<1>2. BoundInv /\ [Next]_vars => BoundInv'
  BY NonceStep, NoncesBounded, IdemStep, Zenon DEF BoundInv
<1>3. BoundInv => CachesBounded
  BY Zenon DEF BoundInv, IdemBounded, CachesBounded
<1>4. QED
  BY <1>1, <1>2, <1>3, PTL DEF Spec

-----------------------------------------------------------------------------
(* QRIS deposits *)

QrisShape ==
    /\ status \in [Deposit -> {None, "pending", "confirmed", "expired"}]
    /\ sender = Nobody \/ sender \in [dep : Deposit, by : {"auto", "admin"}, sent : BOOLEAN]
    /\ poller \in [Poller -> Deposit \cup {None}]
    /\ paid \in [Deposit -> Nat]
    /\ inFlight \in [Deposit -> Nat]
    /\ gaveUp \in [Deposit -> Nat]
    /\ polled \subseteq Deposit

\* Whoever holds the lock for a deposit has had it paid.
BeingConfirmed(d) == sender.dep = d /\ sender.sent

\* The account of a deposit: while it waits, every payment made or still to be
\* expected stems from a call that failed; once it is paid there is one more.  A
\* deposit under payment is pending, and one a poller is about to mark was found by it
\* while it was unpaid, or is known to have been met half way.
Settled(d) ==
    /\ paid[d] + inFlight[d] <= gaveUp[d] + 1
    /\ status[d] \in {None, "pending"} /\ ~ BeingConfirmed(d) => paid[d] + inFlight[d] <= gaveUp[d]
    /\ BeingConfirmed(d) => paid[d] > 0
    /\ inFlight[d] <= gaveUp[d]
    /\ sender.dep = d => status[d] = "pending"
    /\ status[d] = "confirmed" => paid[d] > 0
    /\ status[d] = "expired" /\ paid[d] > 0 => gaveUp[d] > 0 \/ d \in polled
    /\ \A p \in Poller : poller[p] = d =>
          /\ status[d] # None
          /\ status[d] = "confirmed" \/ sender.dep = d => d \in polled

QrisInv == QrisShape /\ \A d \in Deposit : Settled(d)

\* Nobody holds the lock exactly if no deposit is under payment.
LEMMA SenderFacts ==
    ASSUME QrisShape
    PROVE  /\ sender # Nobody => sender.dep \in Deposit
           /\ sender = Nobody => sender.dep \notin Deposit
BY QrisAssumption DEF QrisShape, Nobody, None

\* Every step of the deposits keeps their account.
LEMMA QrisStep ==
    ASSUME QrisInv, QrisNext
    PROVE  QrisInv'
<1>0. QrisShape /\ \A d \in Deposit : Settled(d)
  BY Zenon DEF QrisInv
<1> USE DEF QrisShape
<1>1. ASSUME NEW d \in Deposit, handleQRISCreate(d) PROVE QrisInv'
  <2>1. QrisShape'
    BY <1>0, <1>1, Zenon DEF handleQRISCreate
  <2>2. ASSUME NEW e \in Deposit PROVE Settled(e)'
    BY <1>0, <1>1, <2>2, Zenon DEF handleQRISCreate, Settled, BeingConfirmed
  <2>3. QED
    BY <2>1, <2>2, Zenon DEF QrisInv
<1>2. ASSUME NEW d \in Deposit, Overdue(d) PROVE QrisInv'
  BY <1>0, <1>2, Zenon DEF Overdue, QrisInv, Settled, BeingConfirmed
<1>3. ASSUME NEW d \in Deposit, NEW by \in {"auto", "admin"}, MaySend(d), Send(d, by),
             UNCHANGED <<status, poller, paid, inFlight, gaveUp>>
      PROVE  QrisInv'
  <2>1. QrisShape'
    BY <1>0, <1>3, Zenon DEF Send
  <2>2. /\ sender'.dep = d /\ ~ sender'.sent /\ status[d] = "pending" /\ polled \subseteq polled'
        /\ sender.dep \notin Deposit
    BY <1>0, <1>3, SenderFacts, Zenon DEF Send, MaySend, LockFree
  <2>3. ASSUME NEW e \in Deposit PROVE Settled(e)'
    <3>1. ASSUME NEW p \in Poller, poller[p] = d PROVE d \in polled'
      BY <1>3, <3>1, Zenon DEF Send
    <3>2. QED
      BY <1>0, <1>3, <2>2, <2>3, <3>1, Zenon DEF Settled, BeingConfirmed
  <2>4. QED
    BY <2>1, <2>3, Zenon DEF QrisInv
<1>4. ASSUME NEW d \in Deposit, AutoConfirm(d) PROVE QrisInv'
  <2>1. CASE MaySend(d)
    BY <1>3, <1>4, <2>1, Zenon DEF AutoConfirm
  <2>2. CASE ~ MaySend(d)
    BY <1>0, <1>4, <2>2 DEF AutoConfirm, QrisInv, Settled, BeingConfirmed
  <2>3. QED
    BY <2>1, <2>2, Zenon
<1>5. ASSUME NEW d \in Deposit, handleQRISConfirm(d) PROVE QrisInv'
  BY <1>3, <1>5, Zenon DEF handleQRISConfirm
<1>6. CASE SendOk
  <2>1. /\ sender.dep \in Deposit /\ ~ sender.sent
        /\ sender' \in [dep : Deposit, by : {"auto", "admin"}, sent : BOOLEAN]
        /\ sender'.dep = sender.dep /\ sender'.sent
    BY <1>0, <1>6, SenderFacts, Zenon DEF SendOk
  <2>2. QrisShape'
    BY <1>0, <1>6, <2>1 DEF SendOk
  <2>3. ASSUME NEW e \in Deposit PROVE Settled(e)'
    <3>1. CASE e = sender.dep
      <4>1. /\ status[e] = "pending" /\ paid[e] + inFlight[e] <= gaveUp[e] /\ inFlight[e] <= gaveUp[e]
            /\ \A p \in Poller : poller[p] = e => e \in polled
        BY <1>0, <2>1, <3>1, Zenon DEF Settled, BeingConfirmed
      <4>2. /\ status' = status /\ paid'[e] = paid[e] + 1 /\ sender'.dep = e /\ sender'.sent
            /\ inFlight' = inFlight /\ gaveUp' = gaveUp /\ polled' = polled /\ poller' = poller
        BY <1>0, <1>6, <2>1, <3>1, Zenon DEF SendOk
      <4>3. paid[e] \in Nat /\ inFlight[e] \in Nat /\ gaveUp[e] \in Nat
        BY <1>0, Zenon
      <4>4. QED
        BY <4>1, <4>2, <4>3 DEF Settled, BeingConfirmed, None
    <3>2. CASE e # sender.dep
      BY <1>0, <1>6, <2>1, <3>2, Zenon DEF SendOk, Settled, BeingConfirmed
    <3>3. QED
      BY <3>1, <3>2, Zenon
  <2>4. QED
    BY <2>2, <2>3, Zenon DEF QrisInv
<1>12. CASE Confirm
  <2>1. sender.dep \in Deposit /\ sender.sent /\ sender' = Nobody /\ sender'.dep \notin Deposit
    BY <1>0, <1>12, SenderFacts, QrisAssumption, Zenon DEF Confirm, Unlock, Nobody, None
  <2>2. QrisShape'
    BY <1>0, <1>12, <2>1, Zenon DEF Confirm
  <2>3. ASSUME NEW e \in Deposit PROVE Settled(e)'
    <3>1. CASE e = sender.dep
      <4>1. /\ paid[e] > 0 /\ paid[e] + inFlight[e] <= gaveUp[e] + 1 /\ inFlight[e] <= gaveUp[e]
            /\ \A p \in Poller : poller[p] = e => e \in polled
        BY <1>0, <2>1, <3>1, Zenon DEF Settled, BeingConfirmed
      <4>2. /\ status'[e] = "confirmed" /\ paid' = paid /\ sender'.dep # e
            /\ inFlight' = inFlight /\ gaveUp' = gaveUp /\ polled' = polled /\ poller' = poller
        BY <1>0, <1>12, <2>1, <3>1, Zenon DEF Confirm
      <4>4. QED
        BY <4>1, <4>2 DEF Settled, BeingConfirmed, None
    <3>2. CASE e # sender.dep
      BY <1>0, <1>12, <2>1, <3>2, Zenon DEF Confirm, Settled, BeingConfirmed
    <3>3. QED
      BY <3>1, <3>2, Zenon
  <2>4. QED
    BY <2>2, <2>3, Zenon DEF QrisInv
<1>7. CASE SendFails
  <2>1. sender.dep \in Deposit /\ sender' = Nobody /\ sender'.dep \notin Deposit
    BY <1>0, <1>7, SenderFacts, QrisAssumption, Zenon DEF SendFails, Unlock, Nobody, None
  <2>2. QrisShape'
    BY <1>0, <1>7, <2>1 DEF SendFails
  <2>3. ASSUME NEW e \in Deposit PROVE Settled(e)'
    BY <1>0, <1>7, <2>1, <2>3 DEF SendFails, Settled, BeingConfirmed
  <2>4. QED
    BY <2>2, <2>3, Zenon DEF QrisInv
<1>8. ASSUME NEW d \in Deposit, PaidLate(d) PROVE QrisInv'
  <2>1. QrisShape'
    BY <1>0, <1>8 DEF PaidLate
  <2>2. ASSUME NEW e \in Deposit PROVE Settled(e)'
    BY <1>0, <1>8, <2>2 DEF PaidLate, Settled, BeingConfirmed
  <2>3. QED
    BY <2>1, <2>2, Zenon DEF QrisInv
<1>9. ASSUME NEW d \in Deposit, NEW p \in Poller, handleQRISStatus(p, d) PROVE QrisInv'
  <2>1. QrisShape'
    BY <1>0, <1>9, Zenon DEF handleQRISStatus
  <2>2. ASSUME NEW e \in Deposit PROVE Settled(e)'
    BY <1>0, <1>9, <2>2, Zenon DEF handleQRISStatus, Settled, BeingConfirmed, None
  <2>3. QED
    BY <2>1, <2>2, Zenon DEF QrisInv
<1>10. ASSUME NEW p \in Poller, Expire(p) PROVE QrisInv'
  <2>1. poller[p] \in Deposit /\ sender.dep \notin Deposit
    BY <1>0, <1>10, SenderFacts, Zenon DEF Expire, LockFree
  <2>2. QrisShape'
    BY <1>0, <1>10, <2>1, Zenon DEF Expire
  <2>3. ASSUME NEW e \in Deposit PROVE Settled(e)'
    <3>1. CASE e = poller[p]
      BY <1>0, <1>10, <2>1, <3>1, QrisAssumption DEF Expire, Settled, BeingConfirmed, None
    <3>2. CASE e # poller[p]
      BY <1>0, <1>10, <2>1, <3>2, QrisAssumption, Zenon DEF Expire, Settled, BeingConfirmed, None
    <3>3. QED
      BY <3>1, <3>2, Zenon
  <2>4. QED
    BY <2>2, <2>3, Zenon DEF QrisInv
<1>11. QED
  BY <1>1, <1>2, <1>4, <1>5, <1>6, <1>7, <1>8, <1>9, <1>10, <1>12, Zenon DEF QrisNext

LEMMA QrisUnchanged == ASSUME QrisInv, UNCHANGED qrisVars PROVE QrisInv'
BY Zenon DEF QrisInv, QrisShape, Settled, BeingConfirmed, qrisVars

LEMMA QrisInitial == TopUpInit => QrisInv
BY QrisAssumption DEF TopUpInit, QrisInit, QrisInv, QrisShape, Settled, BeingConfirmed, None, Nobody

LEMMA QrisInductive == QrisInv /\ [TopUpNext]_topUpVars => QrisInv'
BY QrisStep, QrisUnchanged, Zenon DEF TopUpNext, topUpVars

\* For any deposits, pollers and retries, a deposit is paid once and beyond that
\* at most once for each call of the node that failed.
THEOREM DepositsPaidOnce == TopUpSpec => []PaidOnce
<1>1. QrisInv => PaidOnce
  BY DEF QrisInv, QrisShape, Settled, PaidOnce
<1>2. QED
  BY <1>1, QrisInitial, QrisInductive, PTL DEF TopUpSpec

\* For any deposits, pollers and retries, the status of a deposit is true of the
\* money unless whoever paid it still holds the lock, a call failed or a status
\* request met the payment half way.
THEOREM StatusIsTrue == TopUpSpec => []StatusTrue
<1>1. QrisInv => StatusTrue
  BY DEF QrisInv, QrisShape, Settled, BeingConfirmed, StatusTrue
<1>2. QED
  BY <1>1, QrisInitial, QrisInductive, PTL DEF TopUpSpec
-----------------------------------------------------------------------------
(* The ledger *)

Request == [pc : {"available", "credit", "debit"}, l1 : Address, account : Account,
            amount : 1..MaxAmount, onChain : Int]

LedgerShape ==
    /\ onChain \in [Address -> Int]
    /\ mempool \in [Address -> Int]
    /\ trading \in [Account -> Int]
    /\ locked \in [Address -> Int]
    /\ clerk \in [Clerk -> Request \cup {Done}]

\* The step a balance and what is about to be taken from it make together.
LEMMA Difference ==
    ASSUME NEW t \in Int, NEW s \in Int, NEW k \in Int, NEW u \in Int, NEW v \in Int
    PROVE  /\ s <= k /\ u <= t /\ v = s + u => t - v >= - k
           /\ t - s >= - k /\ u >= t /\ v = s => u - v >= - k
OBVIOUS

\* What the goroutines are about to take from a trading account.
Taking(a) ==
    [c \in Clerk |-> IF clerk[c].pc = "debit" /\ clerk[c].account = a THEN clerk[c].amount ELSE 0]

Slack == (Cardinality(Clerk) - 1) * MaxAmount

LEMMA SlackNat == Slack \in Nat
<1>1. Cardinality(Clerk) \in Nat /\ Cardinality(Clerk) # 0 /\ MaxAmount \in Nat
  BY LedgerAssumption, FS_CardinalityType, FS_EmptySet
<1>2. Cardinality(Clerk) - 1 \in Nat
  BY <1>1
<1>3. \A x, y \in Nat : x * y \in Nat
  OBVIOUS
<1> QED BY <1>1, <1>2, <1>3, Zenon DEF Slack

\* Already what is left after those debits is bounded.
LedgerInv == LedgerShape /\ \A a \in Account : trading[a] - SumFunction(Taking(a)) >= - Slack

\* A goroutine of the ledger is at a request or done.
LEMMA ClerkFacts ==
    ASSUME LedgerShape, NEW c \in Clerk
    PROVE  /\ clerk[c].pc # "done" => clerk[c] \in Request /\ clerk[c] # Done
           /\ clerk[c].pc = "done" => clerk[c] = Done
<1>1. Done.pc = "done"
  BY Zenon DEF Done
<1>2. \A q \in Request : q.pc # "done"
  BY Zenon DEF Request
<1>3. QED
  BY <1>1, <1>2, Zenon DEF LedgerShape

LEMMA DoneTakesNothing == Done.pc # "debit"
<1>1. Done.pc = "done"
  BY Zenon DEF Done
<1> QED BY <1>1

\* What a goroutine is about to take is a natural, at most MaxAmount.
LEMMA TakingFacts ==
    ASSUME LedgerShape, NEW a \in Account
    PROVE  /\ Taking(a) \in [Clerk -> Int] /\ DOMAIN Taking(a) = Clerk
           /\ \A c \in Clerk : /\ Taking(a)[c] \in Int /\ Taking(a)[c] <= MaxAmount
                               /\ clerk[c].pc # "debit" \/ clerk[c].account # a => Taking(a)[c] = 0
                               /\ clerk[c].pc = "debit" /\ clerk[c].account = a =>
                                     Taking(a)[c] = clerk[c].amount
           /\ SumFunction(Taking(a)) \in Int /\ SumFunction(Taking(a)) >= 0
<1>1. ASSUME NEW c \in Clerk, clerk[c].pc = "debit" PROVE clerk[c].amount \in 1..MaxAmount
  BY <1>1, ClerkFacts, Zenon DEF Request
<1>2. MaxAmount \in Nat /\ IsFiniteSet(Clerk)
  BY LedgerAssumption, Zenon DEF LedgerAssumption
<1>3. \A c \in Clerk : Taking(a)[c] \in Int /\ Taking(a)[c] >= 0 /\ Taking(a)[c] <= MaxAmount
  BY <1>1, <1>2 DEF Taking
<1>4. DOMAIN Taking(a) = Clerk /\ Taking(a) \in [Clerk -> Int]
  <2>1. DOMAIN Taking(a) = Clerk /\ Taking(a) = [c \in Clerk |-> Taking(a)[c]]
    BY Zenon DEF Taking
  <2> QED BY <1>3, <2>1, Zenon
<1>5. SumFunction(Taking(a)) \in Int /\ SumFunction(Taking(a)) >= 0
  BY <1>2, <1>3, <1>4, SumNat, Zenon
<1> QED BY <1>3, <1>4, <1>5, Zenon DEF Taking

\* A step that changes the request of one goroutine changes what is about to be
\* taken by that much.
LEMMA TakingMoves ==
    ASSUME LedgerShape, LedgerShape', NEW c \in Clerk, NEW a \in Account,
           \A d \in Clerk \ {c} : clerk'[d] = clerk[d]
    PROVE  SumFunction(Taking(a)') = SumFunction(Taking(a)) + (Taking(a)'[c] - Taking(a)[c])
<1>1. IsFiniteSet(Clerk)
  BY LedgerAssumption, Zenon DEF LedgerAssumption
<1>2. Taking(a) \in [Clerk -> Int] /\ Taking(a)[c] \in Int
  BY TakingFacts, Zenon
<1>3. Taking(a)' \in [Clerk -> Int] /\ Taking(a)'[c] \in Int
  <2>1. Taking(a)' = [d \in Clerk |-> IF clerk'[d].pc = "debit" /\ clerk'[d].account = a THEN clerk'[d].amount ELSE 0]
    BY Zenon DEF Taking
  <2>2. ASSUME NEW d \in Clerk, clerk'[d].pc = "debit" PROVE clerk'[d].amount \in Int
    <3>0. \A q \in Request \cup {Done} : q.pc = "debit" => q \in Request
      BY DoneTakesNothing, Zenon
    <3>1. clerk'[d] \in Request
      <4>1. clerk'[d] \in Request \cup {Done}
        BY DEF LedgerShape
      <4> QED BY <2>2, <3>0, <4>1, Zenon
    <3>2. clerk'[d].amount \in 1..MaxAmount
      BY <3>1, Zenon DEF Request
    <3> QED BY <3>2
  <2> QED BY <2>1, <2>2
<1>4. \A d \in Clerk \ {c} : Taking(a)'[d] = Taking(a)[d]
  BY DEF Taking
<1> DEFINE f == Taking(a)
           g == Taking(a)'
           x == g[c] - f[c]
<1>5. x \in Int /\ g[c] = f[c] + x
  BY <1>2, <1>3
<1> HIDE DEF f, g, x
<1>6. f \in [Clerk -> Int] /\ g \in [Clerk -> Int] /\ \A d \in Clerk \ {c} : g[d] = f[d]
  BY <1>2, <1>3, <1>4, Zenon DEF f, g
<1>7. SumFunction(g) = SumFunction(f) + x
  BY <1>1, <1>5, <1>6, SumMoves
<1> QED BY <1>7, Zenon DEF f, g, x

\* A request begins: a withdrawal has found enough for itself, and the others take
\* at most MaxAmount each.
LEMMA BeginStep ==
    ASSUME LedgerInv, NEW c \in Clerk, NEW pc \in {"available", "debit"}, NEW l1 \in Address,
           NEW b \in Account, NEW n \in Amount, NEW seen \in {onChain[l1], 0},
           Begin(c, pc, l1, b, n, seen), UNCHANGED chainVars,
           pc = "debit" => n <= trading[b]
    PROVE  LedgerInv'
<1> DEFINE q == [pc |-> pc, l1 |-> l1, account |-> b, amount |-> n, onChain |-> seen]
<1>1. /\ LedgerShape /\ clerk' = [clerk EXCEPT ![c] = q] /\ clerk[c] = Done
      /\ UNCHANGED <<trading, locked, onChain, mempool>>
  BY Zenon DEF LedgerInv, Begin, chainVars
<1>2. /\ MaxAmount \in Nat /\ n \in 1..MaxAmount /\ n \in Nat /\ IsFiniteSet(Clerk)
      /\ Cardinality(Clerk) \in Nat
  BY LedgerAssumption, FS_CardinalityType DEF LedgerAssumption
<1>3. q \in Request
  BY <1>1, <1>2 DEF Request, LedgerShape
<1>4. LedgerShape'
  BY <1>1, <1>3, Zenon DEF LedgerShape
<1>5. clerk'[c] = q /\ \A d \in Clerk \ {c} : clerk'[d] = clerk[d]
  BY <1>1, Zenon DEF LedgerShape
<1>6. q.pc = pc /\ q.account = b /\ q.amount = n
  BY Zenon
<1> HIDE DEF q
<1>7. ASSUME NEW a \in Account PROVE trading'[a] - SumFunction(Taking(a)') >= - Slack
  <2>1. SumFunction(Taking(a)') = SumFunction(Taking(a)) + (Taking(a)'[c] - Taking(a)[c])
    BY <1>1, <1>4, <1>5, TakingMoves
  <2>2. Taking(a)[c] = 0
    <3>1. clerk[c].pc # "debit"
      BY <1>1, DoneTakesNothing, Zenon
    <3> QED BY <1>1, <3>1, TakingFacts, Zenon
  <2>3. SumFunction(Taking(a)) \in Int /\ trading[a] \in Int /\ Slack \in Int
    BY <1>1, SlackNat, TakingFacts DEF LedgerShape
  <2>4. trading[a] - SumFunction(Taking(a)) >= - Slack
    BY Zenon DEF LedgerInv
  <2>5. CASE pc = "debit" /\ b = a
    <3>1. Taking(a)'[c] = n
      BY <1>5, <1>6, <2>5 DEF Taking
    <3>2. SumFunction(Taking(a)) <= Slack
      <4>1. DOMAIN Taking(a) = Clerk /\ \A y \in Clerk : Taking(a)[y] \in Int /\ Taking(a)[y] <= MaxAmount
        BY <1>1, TakingFacts, Zenon
      <4> QED BY <1>2, <2>2, <4>1, SumOfOthers, Zenon DEF Slack
    <3>3. n <= trading[a]
      BY <2>5, Zenon
    <3>4. trading'[a] = trading[a]
      BY <1>1, Zenon
    <3>5. n \in Int /\ \A x, y \in Int : x + (y - 0) = x + y
      BY <1>2
    <3>6. SumFunction(Taking(a)') = SumFunction(Taking(a)) + n
      BY <2>1, <2>2, <2>3, <3>1, <3>5, Zenon
    <3>7. \A x, y \in Int : x + y \in Int
      OBVIOUS
    <3>8. SumFunction(Taking(a)') \in Int
      BY <2>3, <3>5, <3>6, <3>7, Zenon
    <3> QED BY <2>3, <3>2, <3>3, <3>4, <3>5, <3>6, <3>8, Difference, Zenon
  <2>6. CASE ~ (pc = "debit" /\ b = a)
    <3>1. Taking(a)'[c] = 0
      BY <1>5, <1>6, <2>6 DEF Taking
    <3> QED BY <1>1, <2>1, <2>2, <2>3, <2>4, <3>1
  <2> QED BY <2>5, <2>6, Zenon
<1> QED BY <1>4, <1>7, Zenon DEF LedgerInv

\* A goroutine that is not about to debit moves on, and no trading account loses.
LEMMA OtherStep ==
    ASSUME LedgerInv, LedgerShape', NEW c \in Clerk, clerk[c].pc # "debit", clerk'[c].pc # "debit",
           \A d \in Clerk \ {c} : clerk'[d] = clerk[d],
           \A a \in Account : trading'[a] >= trading[a]
    PROVE  LedgerInv'
<1>1. ASSUME NEW a \in Account PROVE trading'[a] - SumFunction(Taking(a)') >= - Slack
  <2>1. SumFunction(Taking(a)') = SumFunction(Taking(a)) + (Taking(a)'[c] - Taking(a)[c])
    BY TakingMoves DEF LedgerInv
  <2>2. Taking(a)[c] = 0 /\ Taking(a)'[c] = 0
    BY DEF Taking
  <2>3. SumFunction(Taking(a)) \in Int /\ trading[a] \in Int /\ trading'[a] \in Int /\ Slack \in Int
    BY SlackNat, TakingFacts DEF LedgerShape, LedgerInv
  <2>4. trading[a] - SumFunction(Taking(a)) >= - Slack
    BY Zenon DEF LedgerInv
  <2>5. \A x \in Int : x + (0 - 0) = x
    OBVIOUS
  <2>6. SumFunction(Taking(a)') = SumFunction(Taking(a)) /\ trading'[a] >= trading[a]
    BY <2>1, <2>2, <2>3, <2>5, Zenon
  <2> QED BY <2>3, <2>4, <2>6, Difference, Zenon
<1> QED BY <1>1, Zenon DEF LedgerInv

\* Every step of the ledger.
LEMMA LedgerStep ==
    ASSUME LedgerInv, LedgerNext
    PROVE  LedgerInv'
<1>0. LedgerShape /\ UNCHANGED <<onChain, mempool>>
  BY Zenon DEF LedgerInv, LedgerNext, chainVars
<1>1. ASSUME NEW c \in Clerk, NEW l1 \in Address, NEW a \in Account, NEW n \in Amount,
             handleDexDeposit(c, l1, a, n) \/ handleDexWithdraw(c, l1, a, n)
      PROVE  LedgerInv'
  <2>1. CASE handleDexDeposit(c, l1, a, n)
    BY <1>0, <2>1, BeginStep, Zenon DEF handleDexDeposit, chainVars
  <2>2. CASE handleDexWithdraw(c, l1, a, n)
    <3>1. n <= trading[a]
      BY <1>0, <2>2, LedgerAssumption DEF handleDexWithdraw, LedgerShape, LedgerAssumption
    <3> QED BY <1>0, <2>2, <3>1, BeginStep, Zenon DEF handleDexWithdraw, chainVars
  <2> QED BY <1>1, <2>1, <2>2, Zenon
<1>2. ASSUME NEW c \in Clerk, CheckDeposit(c) PROVE LedgerInv'
  <2>1. clerk[c].pc = "available" /\ clerk[c] \in Request
    BY <1>0, <1>2, ClerkFacts, Zenon DEF CheckDeposit
  <2>2. PICK q \in Request \cup {Done} : q.pc # "debit" /\ clerk' = [clerk EXCEPT ![c] = q]
    <3>1. [clerk[c] EXCEPT !.pc = "credit"] \in Request /\ [clerk[c] EXCEPT !.pc = "credit"].pc # "debit"
      BY <2>1, Zenon DEF Request
    <3>2. Done.pc # "debit"
      BY Zenon DEF Done
    <3> QED BY <1>2, <3>1, <3>2, Zenon DEF CheckDeposit, Return
  <2>3. LedgerShape' /\ clerk'[c] = q /\ \A d \in Clerk \ {c} : clerk'[d] = clerk[d]
    BY <1>0, <1>2, <2>2, Zenon DEF CheckDeposit, LedgerShape
  <2>4. \A a \in Account : trading'[a] >= trading[a]
    BY <1>0, <1>2 DEF CheckDeposit, LedgerShape
  <2> QED BY <2>1, <2>2, <2>3, <2>4, OtherStep, Zenon
<1>3. ASSUME NEW c \in Clerk, Credit(c) PROVE LedgerInv'
  <2>1. clerk[c].pc = "credit" /\ clerk[c] \in Request /\ clerk' = [clerk EXCEPT ![c] = Done]
    BY <1>0, <1>3, ClerkFacts, Zenon DEF Credit, Return
  <2>2. clerk[c].l1 \in Address /\ clerk[c].account \in Account /\ clerk[c].amount \in Nat
    <3>1. clerk[c].l1 \in Address /\ clerk[c].account \in Account /\ clerk[c].amount \in 1..MaxAmount
      BY <2>1, Zenon DEF Request
    <3> QED BY <3>1, LedgerAssumption DEF LedgerAssumption
  <2>3. clerk' \in [Clerk -> Request \cup {Done}] /\ clerk'[c] = Done /\ Done.pc # "debit"
        /\ \A d \in Clerk \ {c} : clerk'[d] = clerk[d]
    BY <1>0, <2>1, Zenon DEF LedgerShape, Done
  <2>4. /\ trading' \in [Account -> Int] /\ locked' \in [Address -> Int]
        /\ \A a \in Account : trading'[a] >= trading[a]
    BY <1>0, <1>3, <2>2 DEF Credit, LedgerShape
  <2>5. LedgerShape'
    BY <1>0, <2>3, <2>4, Zenon DEF LedgerShape
  <2> QED BY <2>1, <2>3, <2>4, <2>5, OtherStep, Zenon
<1>4. ASSUME NEW c \in Clerk, Debit(c) PROVE LedgerInv'
  <2>1. clerk[c].pc = "debit" /\ clerk[c] \in Request /\ clerk' = [clerk EXCEPT ![c] = Done]
    BY <1>0, <1>4, ClerkFacts, Zenon DEF Debit, Return
  <2>2. clerk[c].l1 \in Address /\ clerk[c].account \in Account /\ clerk[c].amount \in Nat
    <3>1. clerk[c].l1 \in Address /\ clerk[c].account \in Account /\ clerk[c].amount \in 1..MaxAmount
      BY <2>1, Zenon DEF Request
    <3> QED BY <3>1, LedgerAssumption DEF LedgerAssumption
  <2>3. clerk' \in [Clerk -> Request \cup {Done}] /\ clerk'[c] = Done /\ Done.pc # "debit"
        /\ \A d \in Clerk \ {c} : clerk'[d] = clerk[d]
    BY <1>0, <2>1, Zenon DEF LedgerShape, Done
  <2>4. /\ trading' \in [Account -> Int] /\ locked' \in [Address -> Int]
        /\ \A a \in Account :
              trading'[a] = IF a = clerk[c].account THEN trading[a] - clerk[c].amount ELSE trading[a]
    BY <1>0, <1>4, <2>2 DEF Debit, Unlocked, LedgerShape
  <2>5. LedgerShape'
    BY <1>0, <2>3, <2>4, Zenon DEF LedgerShape
  <2>6. ASSUME NEW a \in Account PROVE trading'[a] - SumFunction(Taking(a)') >= - Slack
    <3>1. SumFunction(Taking(a)') = SumFunction(Taking(a)) + (Taking(a)'[c] - Taking(a)[c])
      BY <1>0, <2>3, <2>5, TakingMoves
    <3>2. Taking(a)'[c] = 0
      BY <2>3 DEF Taking
    <3>3. Taking(a)[c] = IF a = clerk[c].account THEN clerk[c].amount ELSE 0
      BY <2>1 DEF Taking
    <3>4. SumFunction(Taking(a)) \in Int /\ trading[a] \in Int /\ Slack \in Int
      BY <1>0, SlackNat, TakingFacts DEF LedgerShape
    <3>5. trading[a] - SumFunction(Taking(a)) >= - Slack
      BY Zenon DEF LedgerInv
    <3> QED BY <2>2, <2>4, <3>1, <3>2, <3>3, <3>4, <3>5
  <2> QED BY <2>5, <2>6, Zenon DEF LedgerInv
<1> QED BY <1>1, <1>2, <1>3, <1>4, Zenon DEF LedgerNext

\* Whatever happens on the chain, balances are integers.
LEMMA ChainStep ==
    ASSUME QrisInv, LedgerShape, QrisNext \/ ChainNext
    PROVE  onChain' \in [Address -> Int] /\ mempool' \in [Address -> Int]
<1>1. ASSUME NEW d \in Deposit, Pay(AddressOf[d], AmountOf[d])
      PROVE  onChain' \in [Address -> Int] /\ mempool' \in [Address -> Int]
  BY <1>1, QrisAssumption DEF Pay, LedgerShape
<1>2. CASE UNCHANGED chainVars
  BY <1>2, Zenon DEF LedgerShape, chainVars
<1>3. CASE SendOk
  BY <1>1, <1>3, SenderFacts, Zenon DEF SendOk, QrisInv
<1>4. ASSUME NEW d \in Deposit, PaidLate(d)
      PROVE  onChain' \in [Address -> Int] /\ mempool' \in [Address -> Int]
  BY <1>1, <1>4, Zenon DEF PaidLate
<1>5. CASE Confirm
  BY <1>2, <1>5, ChainAssumption DEF Confirm, Generate, LedgerShape
<1>6. CASE ChainNext
  BY <1>6, LedgerAssumption DEF ChainNext, Block, Spend, LedgerShape, LedgerAssumption
<1> QED BY <1>2, <1>3, <1>4, <1>5, <1>6, Zenon DEF QrisNext, handleQRISCreate, Overdue, AutoConfirm,
           handleQRISConfirm, handleQRISStatus, SendFails, Expire

LEMMA LedgerInitial == TopUpInit => LedgerInv
<1> SUFFICES ASSUME TopUpInit PROVE LedgerInv
  BY Zenon
<1>1. /\ onChain = [a \in Address |-> 0] /\ mempool = [a \in Address |-> 0]
      /\ trading = [a \in Account |-> 0]
      /\ locked = [a \in Address |-> 0] /\ clerk = [c \in Clerk |-> Done]
  BY Zenon DEF TopUpInit, LedgerInit, ChainInit
<1>2. LedgerShape
  <2>1. /\ onChain \in [Address -> Int] /\ mempool \in [Address -> Int]
        /\ trading \in [Account -> Int] /\ locked \in [Address -> Int]
    BY <1>1
  <2>2. clerk \in [Clerk -> Request \cup {Done}]
    BY <1>1, Zenon
  <2> QED BY <2>1, <2>2, Zenon DEF LedgerShape
<1>3. ASSUME NEW a \in Account PROVE trading[a] - SumFunction(Taking(a)) >= - Slack
  <2>1. \A c \in Clerk : Taking(a)[c] = 0
    BY <1>1, <1>2, TakingFacts, Zenon DEF Done
  <2>2. IsFiniteSet(Clerk) /\ MaxAmount \in Nat /\ Cardinality(Clerk) \in Nat
    BY LedgerAssumption, FS_CardinalityType, Zenon DEF LedgerAssumption
  <2>3. SumFunction(Taking(a)) = 0
    BY <1>2, <2>1, <2>2, TakingFacts, SumZeros, Zenon
  <2>4. trading[a] = 0
    BY <1>1, Zenon
  <2>5. 0 - 0 >= - Slack
    BY SlackNat
  <2> QED BY <2>3, <2>4, <2>5, Zenon
<1> QED BY <1>2, <1>3, Zenon DEF LedgerInv

\* Payments, requests and spending keep the invariant of the ledger.
LEMMA LedgerInductive == QrisInv /\ LedgerInv /\ [TopUpNext]_topUpVars => LedgerInv'
<1> SUFFICES ASSUME QrisInv, LedgerInv, [TopUpNext]_topUpVars PROVE LedgerInv'
  BY Zenon
<1>1. ASSUME UNCHANGED ledgerVars, onChain' \in [Address -> Int], mempool' \in [Address -> Int]
      PROVE  LedgerInv'
  <2>1. UNCHANGED <<trading, locked, clerk>>
    BY <1>1, Zenon DEF ledgerVars
  <2>2. \A a \in Account : Taking(a)' = Taking(a)
    BY <2>1, Zenon DEF Taking
  <2> QED BY <1>1, <2>1, <2>2, Zenon DEF LedgerInv, LedgerShape
<1>2. CASE (QrisNext \/ ChainNext) /\ UNCHANGED ledgerVars
  BY <1>1, <1>2, ChainStep, Zenon DEF LedgerInv
<1>3. CASE LedgerNext
  BY <1>3, LedgerStep, Zenon
<1>4. CASE UNCHANGED topUpVars
  BY <1>1, <1>4, Zenon DEF topUpVars, chainVars, LedgerInv, LedgerShape
<1> QED BY <1>2, <1>3, <1>4, Zenon DEF TopUpNext

\* For any accounts, addresses, goroutines and amounts, whatever is paid, spent and
\* mined meanwhile, overlapping withdrawals overdraw a trading account by no more
\* than one withdrawal for each goroutine but one.
THEOREM OverdraftIsBounded == TopUpSpec => []OverdraftBounded
<1>1. LedgerInv => OverdraftBounded
  <2> SUFFICES ASSUME LedgerInv, NEW a \in Account PROVE trading[a] >= - Slack
    BY Zenon DEF OverdraftBounded, Slack
  <2>1. SumFunction(Taking(a)) \in Int /\ SumFunction(Taking(a)) >= 0 /\ trading[a] \in Int /\ Slack \in Int
    BY SlackNat, TakingFacts DEF LedgerShape, LedgerInv
  <2>2. trading[a] - SumFunction(Taking(a)) >= - Slack
    BY Zenon DEF LedgerInv
  <2> QED BY <2>1, <2>2
<1>2. QED
  BY <1>1, LedgerInductive, QrisInitial, QrisInductive, LedgerInitial, PTL DEF TopUpSpec
-----------------------------------------------------------------------------
(* What backs the trading accounts *)

\* A credit adds the same amount to both totals; a debit takes it from the trading
\* accounts, and at most that from what is locked.
LEMMA BackedStep ==
    ASSUME LedgerShape, TradingBacked, LedgerNext
    PROVE  TradingBacked'
<1>1. /\ trading \in [Account -> Int] /\ locked \in [Address -> Int]
      /\ IsFiniteSet(Account) /\ IsFiniteSet(Address)
  BY LedgerAssumption, Zenon DEF LedgerShape
<1>2. SumFunction(trading) \in Int /\ SumFunction(locked) \in Int
  BY <1>1, SumFunctionInt, Zenon
<1>3. SumFunction(trading) <= SumFunction(locked)
  BY Zenon DEF TradingBacked
<1>4. ASSUME NEW c \in Clerk, Credit(c) PROVE TradingBacked'
  <2> DEFINE l1 == clerk[c].l1
             a == clerk[c].account
             n == clerk[c].amount
  <2>1. l1 \in Address /\ a \in Account /\ n \in Nat /\ n \in Int
    BY <1>4, ClerkFacts, LedgerAssumption DEF Credit, Request
  <2>2. /\ locked' = [locked EXCEPT ![l1] = @ + n] /\ trading' = [trading EXCEPT ![a] = @ + n]
    BY <1>4, Zenon DEF Credit
  <2> HIDE DEF l1, a, n
  <2>3. /\ trading' \in [Account -> Int] /\ trading'[a] = trading[a] + n
        /\ \A y \in Account \ {a} : trading'[y] = trading[y]
        /\ locked' \in [Address -> Int] /\ locked'[l1] = locked[l1] + n
        /\ \A y \in Address \ {l1} : locked'[y] = locked[y]
    BY <1>1, <2>1, <2>2
  <2>4. SumFunction(trading') = SumFunction(trading) + n
    BY <1>1, <2>1, <2>3, SumMoves
  <2>5. SumFunction(locked') = SumFunction(locked) + n
    BY <1>1, <2>1, <2>3, SumMoves
  <2> QED BY <1>2, <1>3, <2>1, <2>4, <2>5 DEF TradingBacked
<1>5. ASSUME NEW c \in Clerk, Debit(c) PROVE TradingBacked'
  <2> DEFINE l1 == clerk[c].l1
             a == clerk[c].account
             n == clerk[c].amount
             d == locked'[l1] - locked[l1]
  <2>1. l1 \in Address /\ a \in Account /\ n \in Nat /\ - n \in Int
    BY <1>5, ClerkFacts, LedgerAssumption DEF Debit, Request
  <2>2. /\ trading' = [trading EXCEPT ![a] = @ - n]
        /\ locked' = [locked EXCEPT ![l1] = IF locked[l1] - n < 0 THEN 0 ELSE locked[l1] - n]
    BY <1>5, Zenon DEF Debit, Unlocked
  <2> HIDE DEF l1, a, n
  <2>3. /\ trading' \in [Account -> Int] /\ trading'[a] = trading[a] + (- n)
        /\ \A y \in Account \ {a} : trading'[y] = trading[y]
        /\ locked' \in [Address -> Int]
        /\ \A y \in Address \ {l1} : locked'[y] = locked[y]
    BY <1>1, <2>1, <2>2
  <2>4. d \in Int /\ d >= - n /\ locked'[l1] = locked[l1] + d
    BY <1>1, <2>1, <2>2
  <2> HIDE DEF d
  <2>5. SumFunction(trading') = SumFunction(trading) + (- n)
    BY <1>1, <2>1, <2>3, SumMoves
  <2>6. SumFunction(locked') = SumFunction(locked) + d
    BY <1>1, <2>1, <2>3, <2>4, SumMoves
  <2> QED BY <1>2, <1>3, <2>1, <2>4, <2>5, <2>6 DEF TradingBacked
<1>6. CASE UNCHANGED <<trading, locked>>
  BY <1>6, Zenon DEF TradingBacked
<1> QED BY <1>4, <1>5, <1>6, Zenon DEF LedgerNext, handleDexDeposit, handleDexWithdraw, Begin, CheckDeposit

\* For any accounts, L1 addresses and amounts, and however requests interleave,
\* what the trading accounts hold together is locked on L1.
THEOREM TradingAlwaysBacked == TopUpSpec => []TradingBacked
<1>1. QrisInv /\ LedgerInv /\ TradingBacked /\ [TopUpNext]_topUpVars => TradingBacked'
  <2> SUFFICES ASSUME QrisInv, LedgerInv, TradingBacked, [TopUpNext]_topUpVars PROVE TradingBacked'
    BY Zenon
  <2>1. CASE UNCHANGED <<trading, locked>>
    BY <2>1, Zenon DEF TradingBacked
  <2>2. CASE LedgerNext
    BY <2>2, BackedStep, Zenon DEF LedgerInv
  <2> QED BY <2>1, <2>2, Zenon DEF TopUpNext, topUpVars, ledgerVars
<1>2. TopUpInit => TradingBacked
  <2> SUFFICES ASSUME TopUpInit PROVE TradingBacked
    BY Zenon
  <2>1. /\ trading = [a \in Account |-> 0] /\ locked = [a \in Address |-> 0]
    BY Zenon DEF TopUpInit, LedgerInit
  <2>2. SumFunction(trading) = 0 /\ SumFunction(locked) = 0
    BY <2>1, SumZeros, LedgerAssumption, Zenon DEF LedgerAssumption
  <2> QED BY <2>2 DEF TradingBacked
<1> QED BY <1>1, <1>2, LedgerInductive, QrisInitial, QrisInductive, LedgerInitial, PTL DEF TopUpSpec
=============================================================================
