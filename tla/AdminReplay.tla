---------------------------- MODULE AdminReplay ----------------------------
(***************************************************************************)
(* The replay check of the admin endpoints (api/admin_replay.go): a request *)
(* carries a nonce and a timestamp; the timestamp has to be within          *)
(* replayWindow of the clock, and the nonce must not be in a bounded list   *)
(* of the nonces seen in the last nonceCacheTTL.  The clock is read before  *)
(* the lock of the list is taken, so the time a call evicts and records     *)
(* with may be behind that of a call that went before it.                   *)
(***************************************************************************)
EXTENDS Integers, Sequences

CONSTANTS
    Nonce,
    NoNonce,         \* the header X-Admin-Nonce is missing
    replayWindow,
    nonceCacheTTL,
    nonceCacheSize,
    Strict,          \* StrictMode
    MaxTime          \* bound on the clock

ASSUME ReplayAssumption ==
    /\ NoNonce \notin Nonce
    /\ replayWindow \in Nat /\ nonceCacheTTL \in Nat /\ MaxTime \in Nat
    /\ nonceCacheTTL >= 2 * replayWindow
    /\ nonceCacheSize \in Nat \ {0}
    /\ Strict \in BOOLEAN

VARIABLES
    now,       \* the clock
    nonces,    \* adminNonceCache: the list, newest first
    usedAt,    \* history: nonce -> clock reading of its last acceptance, 0 if none
    dropped    \* history: nonces taken from the list before their time

replayVars == <<now, nonces, usedAt, dropped>>

ReplayInit ==
    /\ now = 1
    /\ nonces = <<>>
    /\ usedAt = [n \in Nonce |-> 0]
    /\ dropped = {}

Tick ==
    /\ now < MaxTime
    /\ now' = now + 1
    /\ UNCHANGED <<nonces, usedAt, dropped>>

\* The requests CheckAdminReplay lets pass without a look at the nonce.
Legacy(m) == m.nonce = NoNonce /\ m.ts = 0 /\ ~ Strict

\* The timestamp is within the window at clock reading t.
InWindow(m, t) ==
    /\ m.nonce # NoNonce /\ m.ts # 0
    /\ t - m.ts <= replayWindow /\ m.ts - t <= replayWindow

Listed(n, list) == \E i \in DOMAIN list : list[i].nonce = n

\* The first c entries are left when the expired ones at the back are removed at
\* time t.
Left(c, t) ==
    /\ c > 0 => nonces[c].expireAt > t
    /\ \A i \in c + 1..Len(nonces) : nonces[i].expireAt <= t

\* seenOrRecord returns true.
Seen(m, t) ==
    /\ \E c \in 0..Len(nonces) :
          Left(c, t) /\ Listed(m.nonce, SubSeq(nonces, 1, c)) /\ nonces' = SubSeq(nonces, 1, c)
    /\ UNCHANGED <<now, usedAt, dropped>>

\* Mutant of Enlist: an entry is kept for replayWindow only.
EnlistShort(m, t, list) ==
    nonces' = <<[nonce |-> m.nonce, expireAt |-> t + replayWindow]>> \o list

Enlist(m, t, list) ==
    nonces' = <<[nonce |-> m.nonce, expireAt |-> t + nonceCacheTTL]>> \o list

\* The oldest entry makes room when the list is full.
Shorter(list) == IF Len(list) < nonceCacheSize THEN list ELSE SubSeq(list, 1, nonceCacheSize - 1)

\* seenOrRecord returns false: the nonce is recorded.
Record(m, t) ==
    /\ \E c \in 0..Len(nonces) :
          LET rest == SubSeq(nonces, 1, c)
          IN  /\ Left(c, t) /\ ~ Listed(m.nonce, rest)
              /\ Enlist(m, t, Shorter(rest))
              /\ dropped' = (dropped \cup {n \in Nonce :
                    Listed(n, rest) /\ ~ Listed(n, Shorter(rest))}) \ {m.nonce}
    /\ usedAt' = [usedAt EXCEPT ![m.nonce] = t]
    /\ UNCHANGED now

\* The process starts anew.
ForgetNonces ==
    /\ nonces' = <<>>
    /\ dropped' = dropped \cup {n \in Nonce : Listed(n, nonces)}
    /\ UNCHANGED <<now, usedAt>>
=============================================================================
