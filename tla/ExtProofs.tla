----------------------------- MODULE ExtProofs -----------------------------
(***************************************************************************)
(* What holds of the extension for any set of pages, requests, handlers,    *)
(* accounts, sessions and stops of the worker: a request takes effect only  *)
(* once and, where it needs an approval, after an approving answer; an      *)
(* order or a garuda_send only on a connected site; none that was refused.  *)
(* A promise that resolves tells the truth; the stored vault can be opened  *)
(* and agrees with the session.                                             *)
(***************************************************************************)
EXTENDS ExtApproval, SequenceTheorems, TLAPS
-----------------------------------------------------------------------------
(* Types *)

Phrase == Mnemonic \cup {"none", InitDisk.vault.mnemonic}
Vault == [mnemonic : Phrase, accounts : Seq(Nat), connectedSites : SUBSET Origin]
PasswordOrNull == Password \cup {NoPassword}
Handler ==
    [kind : {"idle", "create", "unlock", "add", "connect", "execute"},
     pc : {"idle", "derive", "save", "stored", "load", "prepare", "executed"},
     obj : Nat, index : Nat, vault : Vault, password : PasswordOrNull]

\* A handler at an await of the vault.
InVault(h) == h.pc \in {"derive", "save", "stored", "load"}

\* Which handler waits where, and what it needs there.
HandlerOK(h, size) ==
    /\ h.pc = "derive" => h.kind = "add" /\ h.obj \in 1..size
    /\ h.pc = "load" => h.kind = "unlock"
    /\ h.pc \in {"save", "stored"} => h.kind \in {"create", "add", "connect"}
    /\ h.pc \in {"save", "stored", "load"} => h.password \in Password
    /\ h.pc \in {"prepare", "executed"} => h.kind = "execute"
    /\ h.pc = "idle" => h = Idle

VaultInv ==
    /\ disk \in [vault : Vault, password : PasswordOrNull]
    /\ heap \in Seq(Vault)
    /\ session \in [password : PasswordOrNull, obj : Nat]
    /\ isUnlocked => session.obj \in 1..Len(heap)
    /\ job \in [Job -> Handler]
    /\ \A j \in Job : HandlerOK(job[j], Len(heap))
    /\ StoredOpenable

\* What the worker, its pending map and the page know of a request.
RequestOK(r) ==
    /\ job[r].kind \in {"idle", "connect", "execute"}
    /\ job[r].kind = "connect" => method[r] = "connect"
    /\ promise[r] = "none" =>
          /\ result[r] = "none" /\ effects[r] = 0
          /\ job[r] = Idle /\ r \notin pending /\ r \notin refused
    /\ r \in pending => effects[r] = 0 /\ job[r] = Idle /\ r \notin refused
    /\ job[r].pc = "prepare" => effects[r] = 0
    /\ job[r].pc = "executed" => effects[r] = 1
    /\ method[r] # "direct" /\ (effects[r] = 1 \/ job[r] # Idle) => r \in approved
    /\ r \in refused => effects[r] = 0 /\ job[r] = Idle
    /\ method[r] \in {"sign", "send"} /\ "ok" \in {promise[r], result[r]} => effects[r] = 1

RequestTypes ==
    /\ promise \in [Req -> {"none", "pending", "ok", "error"}]
    /\ result \in [Req -> {"none", "ok", "error"}]
    /\ method \in [Req -> Method \cup {"none"}]
    /\ effects \in [Req -> 0..1]
    /\ refused \subseteq Req
    /\ pending \subseteq Req

RequestInv ==
    /\ RequestTypes
    /\ \A r \in Req : RequestOK(r)

\* A connection of the site was approved.
Granted(site) ==
    \E q \in Req : /\ OriginOf[q] = site
                   /\ method[q] = "connect" /\ effects[q] > 0 /\ q \in approved

\* A vault, stored, in memory or in the hands of a handler, holds the site.
Known(site) ==
    \/ site \in disk.vault.connectedSites
    \/ \E i \in 1..Len(heap) : site \in heap[i].connectedSites
    \/ \E j \in Job : site \in job[j].vault.connectedSites

\* A request the worker has not answered at once.
Active(r) == r \in pending \/ job[r] # Idle \/ effects[r] > 0

\* Only sites that were connected are in a vault, and only their orders and
\* garuda_sends get anywhere.
SiteInv ==
    /\ \A site \in Origin : Known(site) => Granted(site)
    /\ \A r \in Req : method[r] \in {"order", "send"} /\ Active(r) => Granted(OriginOf[r])

Numbered(vault) == \A i \in 1..Len(vault.accounts) : vault.accounts[i] = i - 1
Shown == [vault |-> sessionVault, password |-> session.password]

\* As long as the vault handlers take turns, what the one that is running holds
\* is what the session and the store hold.
InTurn(h) ==
    /\ h.pc = "derive" /\ isUnlocked =>
          session.obj = h.obj /\ disk = Shown /\ h.index = Len(sessionVault.accounts)
    /\ h.pc \in {"save", "stored"} =>
          /\ Numbered(h.vault)
          /\ isUnlocked /\ h.kind # "create" =>
                Shown = [vault |-> h.vault, password |-> h.password]
    /\ h.pc \in {"stored", "load"} => disk = [vault |-> h.vault, password |-> h.password]

TurnInv ==
    ~ raced =>
        /\ Numbered(disk.vault)
        /\ VaultQuiet /\ isUnlocked => disk = Shown
        /\ \A i, j \in Job : InVault(job[i]) /\ InVault(job[j]) => i = j
        /\ \A j \in Job : InTurn(job[j])
-----------------------------------------------------------------------------
(* The vault *)

\* The records the handlers start from are well typed.
LEMMA VaultTypes ==
    /\ NoVault \in Vault /\ Idle \in Handler /\ NoPassword \in PasswordOrNull
    /\ Password \subseteq PasswordOrNull /\ NoPassword \notin Password
    /\ \A m \in Phrase : VaultData(m) \in Vault
    /\ Mnemonic \subseteq Phrase
<1>1. <<>> \in Seq(Nat) /\ <<0>> \in Seq(Nat)
  OBVIOUS
<1>2. NoVault \in Vault
  BY <1>1, Zenon DEF NoVault, Vault, Phrase
<1>3. NoPassword \in PasswordOrNull /\ Password \subseteq PasswordOrNull
      /\ NoPassword \notin Password /\ Mnemonic \subseteq Phrase
  BY VaultAssumption, Zenon DEF PasswordOrNull, Phrase
<1>4. Idle \in Handler
  BY <1>2, <1>3, Zenon DEF Idle, Handler
<1>5. \A m \in Phrase : VaultData(m) \in Vault
  BY <1>1, Zenon DEF VaultData, Vault
<1> QED
  BY <1>2, <1>3, <1>4, <1>5, Zenon

\* A handler that is as it was stays in order when sessions are opened.
LEMMA HandlerStays ==
    ASSUME NEW h, NEW m \in Nat, NEW n \in Nat, m <= n, HandlerOK(h, m)
    PROVE  HandlerOK(h, n)
BY DEF HandlerOK

LEMMA IdleOK == ASSUME NEW n PROVE HandlerOK(Idle, n)
BY Zenon DEF HandlerOK, Idle

\* One handler changes, the sessions stay or grow.
LEMMA OneHandler ==
    ASSUME VaultInv, NEW j \in Job, NEW h \in Handler, HandlerOK(h, Len(heap)),
           job' = [job EXCEPT ![j] = h], heap' \in Seq(Vault), Len(heap) <= Len(heap')
    PROVE  job' \in [Job -> Handler] /\ \A i \in Job : HandlerOK(job'[i], Len(heap'))
<1>1. Len(heap) \in Nat /\ Len(heap') \in Nat
  BY DEF VaultInv
<1>2. job' \in [Job -> Handler]
  BY Zenon DEF VaultInv
<1>3. ASSUME NEW i \in Job PROVE HandlerOK(job'[i], Len(heap))
  BY Zenon DEF VaultInv
<1> QED
  BY <1>1, <1>2, <1>3, HandlerStays, Zenon

LEMMA VaultInitInv == VaultInit => VaultInv
<1> SUFFICES ASSUME VaultInit PROVE VaultInv
  BY Zenon
<1>1. disk \in [vault : Vault, password : PasswordOrNull] /\ StoredOpenable
  <2>1. CASE InitDisk = NoDisk
    BY <2>1, VaultTypes, Zenon DEF VaultInit, NoDisk, StoredOpenable
  <2>2. CASE /\ InitDisk = [vault |-> VaultData(InitDisk.vault.mnemonic),
                            password |-> InitDisk.password]
             /\ InitDisk.password \in Password
    <3>1. VaultData(InitDisk.vault.mnemonic) \in Vault
      BY VaultTypes, Zenon DEF Phrase
    <3> QED
      BY <2>2, <3>1, VaultTypes DEF VaultInit, StoredOpenable
  <2> QED
    BY <2>1, <2>2, VaultAssumption, Zenon
<1>2. heap \in Seq(Vault) /\ session \in [password : PasswordOrNull, obj : Nat] /\ ~ isUnlocked
  BY VaultTypes DEF VaultInit, Locked, isUnlocked
<1>3. job \in [Job -> Handler] /\ \A j \in Job : HandlerOK(job[j], Len(heap))
  BY VaultTypes, IdleOK, Zenon DEF VaultInit
<1> QED
  BY <1>1, <1>2, <1>3, Zenon DEF VaultInv

\* A handler that starts and leaves the rest alone.
LEMMA EnterVault ==
    ASSUME VaultInv, NEW j \in Job, NEW h \in Handler, HandlerOK(h, Len(heap)),
           job' = [job EXCEPT ![j] = h], UNCHANGED <<disk, heap, session>>
    PROVE  VaultInv'
<1>1. heap' \in Seq(Vault) /\ Len(heap) <= Len(heap')
  BY DEF VaultInv
<1>2. job' \in [Job -> Handler] /\ \A i \in Job : HandlerOK(job'[i], Len(heap'))
  BY <1>1, OneHandler, Zenon
<1> QED
  BY <1>2, Zenon DEF VaultInv, isUnlocked, StoredOpenable

\* The handlers of the wallet_* requests, up to their first await.
LEMMA RequestVault ==
    ASSUME VaultInv, NEW j \in Job, WalletRequest(j)
    PROVE  VaultInv'
<1>1. ASSUME NEW m \in Mnemonic, NEW p \in Password, wallet_create(j, m, p) PROVE VaultInv'
  <2> DEFINE h == [Idle EXCEPT !.kind = "create", !.pc = "save", !.vault = VaultData(m), !.password = p]
  <2>1. h \in Handler
    BY VaultTypes, Zenon DEF Handler, Idle
  <2>2. HandlerOK(h, Len(heap))
    BY Zenon DEF HandlerOK, Idle
  <2> QED
    BY <1>1, <2>1, <2>2, EnterVault, Zenon DEF wallet_create, Enter
<1>2. ASSUME NEW p \in Password, wallet_unlock(j, p) PROVE VaultInv'
  <2> DEFINE h == [Idle EXCEPT !.kind = "unlock", !.pc = "load", !.vault = disk.vault, !.password = p]
  <2>1. h \in Handler
    BY VaultTypes, Zenon DEF Handler, Idle, VaultInv
  <2>2. HandlerOK(h, Len(heap))
    BY Zenon DEF HandlerOK, Idle
  <2> QED
    BY <1>2, <2>1, <2>2, EnterVault, Zenon DEF wallet_unlock, Enter
<1>3. ASSUME wallet_addAccount(j) PROVE VaultInv'
  <2> DEFINE h == [Idle EXCEPT !.kind = "add", !.pc = "derive", !.obj = session.obj,
                               !.index = Len(sessionVault.accounts)]
  <2>1. session.obj \in 1..Len(heap) /\ sessionVault \in Vault
    BY <1>3 DEF wallet_addAccount, VaultInv, sessionVault
  <2>2. session.obj \in Nat /\ Len(sessionVault.accounts) \in Nat
    BY <2>1 DEF VaultInv, Vault
  <2>3. h \in Handler
    BY <2>2, VaultTypes, Zenon DEF Handler, Idle
  <2>4. HandlerOK(h, Len(heap))
    BY <2>1, Zenon DEF HandlerOK, Idle
  <2> QED
    BY <1>3, <2>3, <2>4, EnterVault, Zenon DEF wallet_addAccount, Enter
<1> QED
  BY <1>1, <1>2, <1>3, Zenon DEF WalletRequest

\* A vault object changes and is going to be saved, if there still is a session.
LEMMA PersistVault ==
    ASSUME VaultInv, NEW j \in Job, NEW o \in 1..Len(heap), NEW v \in Vault,
           NEW k \in {"add", "connect"},
           heap' = [heap EXCEPT ![o] = v],
           persistSession([j |-> j, kind |-> k, obj |-> o], v),
           UNCHANGED disk
    PROVE  VaultInv'
<1> DEFINE saving == [Idle EXCEPT !.kind = k, !.pc = "save", !.vault = v,
                                  !.password = session.password]
           h == IF isUnlocked THEN saving ELSE Idle
<1>1. /\ heap' \in Seq(Vault) /\ Len(heap') = Len(heap)
      /\ Len(heap) \in Nat /\ Len(heap) <= Len(heap')
  BY DEF VaultInv
<1>2. isUnlocked => session.password \in Password
  BY Zenon DEF VaultInv, isUnlocked, PasswordOrNull
<1>3. h \in Handler
  BY <1>2, VaultTypes, Zenon DEF Handler, Idle, VaultInv
<1>4. HandlerOK(h, Len(heap))
  BY <1>2, IdleOK, Zenon DEF HandlerOK, Idle
<1>5. job' = [job EXCEPT ![j] = h]
  BY Zenon DEF persistSession
<1> HIDE DEF h
<1>6. job' \in [Job -> Handler] /\ \A i \in Job : HandlerOK(job'[i], Len(heap'))
  BY <1>1, <1>3, <1>4, <1>5, OneHandler, Zenon
<1>7. /\ session' \in [password : PasswordOrNull, obj : Nat]
      /\ session'.password # NoPassword => session'.obj \in 1..Len(heap')
  BY <1>1 DEF persistSession, VaultInv, isUnlocked
<1> QED
  BY <1>1, <1>6, <1>7, Zenon DEF VaultInv, isUnlocked, StoredOpenable

\* The handlers of the vault after an await.
LEMMA ResumeVault ==
    ASSUME VaultInv, NEW j \in Job, Resume(j)
    PROVE  VaultInv'
<1>0. job[j] \in Handler /\ HandlerOK(job[j], Len(heap)) /\ Len(heap) \in Nat
  BY DEF VaultInv
<1>1. ASSUME OpenSession(j) PROVE VaultInv'
  <2>1. job[j].password \in Password /\ job[j].vault \in Vault
    BY <1>0, <1>1, Zenon DEF OpenSession, HandlerOK, Handler
  <2>2. heap' = Append(heap, job[j].vault)
        /\ session' = [password |-> job[j].password, obj |-> Len(heap) + 1]
    BY <1>1, Zenon DEF OpenSession, setSession
  <2>3. heap' \in Seq(Vault) /\ Len(heap') = Len(heap) + 1
    BY <2>1, <2>2 DEF VaultInv
  <2>4. job' \in [Job -> Handler] /\ \A i \in Job : HandlerOK(job'[i], Len(heap'))
    <3>1. job' = [job EXCEPT ![j] = Idle] /\ Len(heap) <= Len(heap')
      BY <1>0, <1>1, <2>3 DEF OpenSession
    <3> QED
      BY <2>3, <3>1, OneHandler, VaultTypes, IdleOK, Zenon
  <2>5. /\ session' \in [password : PasswordOrNull, obj : Nat]
        /\ session'.obj \in 1..Len(heap')
    BY <1>0, <2>1, <2>2, <2>3, VaultTypes
  <2> QED
    BY <1>1, <2>3, <2>4, <2>5, Zenon DEF OpenSession, VaultInv, isUnlocked, StoredOpenable
<1>2. ASSUME PushAccount(j) PROVE VaultInv'
  <2> DEFINE o == job[j].obj
             v == [heap[o] EXCEPT !.accounts = Append(@, job[j].index)]
  <2>1. o \in 1..Len(heap) /\ job[j].index \in Nat /\ heap[o] \in Vault
    BY <1>0, <1>2 DEF PushAccount, HandlerOK, Handler, VaultInv
  <2>2. v \in Vault
    <3>1. heap[o].accounts \in Seq(Nat)
      BY <2>1, Zenon DEF Vault
    <3>2. Append(heap[o].accounts, job[j].index) \in Seq(Nat)
      BY <2>1, <3>1
    <3> QED
      BY <2>1, <3>2, Zenon DEF Vault
  <2>3. heap' = [heap EXCEPT ![o] = v] /\ heap'[o] = v
    <3>1. heap' = [heap EXCEPT ![o] = v]
      BY <1>2, Zenon DEF PushAccount
    <3> HIDE DEF v
    <3> QED
      BY <2>1, <3>1 DEF VaultInv
  <2>4. persistSession([j |-> j, kind |-> "add", obj |-> o], v) /\ UNCHANGED disk
    BY <1>2, <2>3, Zenon DEF PushAccount
  <2> QED
    BY <2>1, <2>2, <2>3, <2>4, PersistVault, Zenon
<1>3. ASSUME saveVault(j) PROVE VaultInv'
  <2> DEFINE h == [job[j] EXCEPT !.pc = "stored"]
  <2>1. job' = [job EXCEPT ![j] = h] /\ UNCHANGED <<heap, session>>
    BY <1>3, Zenon DEF saveVault
  <2>2. h \in Handler /\ HandlerOK(h, Len(heap))
    BY <1>0, <1>3, Zenon DEF saveVault, Handler, HandlerOK
  <2>3. heap' \in Seq(Vault) /\ Len(heap) <= Len(heap')
    BY <2>1 DEF VaultInv
  <2>4. job' \in [Job -> Handler] /\ \A i \in Job : HandlerOK(job'[i], Len(heap'))
    BY <2>1, <2>2, <2>3, OneHandler, Zenon
  <2>5. disk' \in [vault : Vault, password : PasswordOrNull] /\ disk'.password \in Password
    BY <1>0, <1>3, VaultTypes, Zenon DEF saveVault, Handler, HandlerOK
  <2> QED
    BY <2>1, <2>4, <2>5, Zenon DEF VaultInv, isUnlocked, StoredOpenable
<1>4. ASSUME AccountAdded(j) PROVE VaultInv'
  BY <1>4, EnterVault, VaultTypes, IdleOK, Zenon DEF AccountAdded
<1> QED
  BY <1>1, <1>2, <1>3, <1>4, Zenon DEF Resume

LEMMA LockVault ==
    ASSUME VaultInv, clearSession \/ StopWorker
    PROVE  VaultInv'
<1>1. session' = Locked /\ UNCHANGED <<disk, heap>>
  BY Zenon DEF clearSession, StopWorker
<1>2. job' \in [Job -> Handler] /\ \A j \in Job : HandlerOK(job'[j], Len(heap))
  BY VaultTypes, IdleOK, Zenon DEF clearSession, StopWorker, VaultInv
<1> QED
  BY <1>1, <1>2, VaultTypes, Zenon DEF VaultInv, Locked, isUnlocked, StoredOpenable

\* A handler that signs and sends starts outside the vault.
LEMMA WorkingFacts ==
    /\ Working \in Handler /\ Working.kind = "execute" /\ Working.pc = "prepare"
    /\ Working.vault = Idle.vault /\ ~ InVault(Working) /\ ~ InVault(Idle)
    /\ \A n : HandlerOK(Working, n)
BY VaultTypes, Zenon DEF Working, Handler, Idle, HandlerOK, InVault

\* Only a wallet_send* gets a handler at once.
LEMMA PageVault ==
    ASSUME NEW r \in Req, Page(r)
    PROVE  \/ UNCHANGED vaultVars
           \/ /\ r \in Job /\ promise[r] = "none" /\ method' = [method EXCEPT ![r] = "direct"]
              /\ promise' = [promise EXCEPT ![r] = "pending"]
              /\ job' = [job EXCEPT ![r] = Working] /\ UNCHANGED <<disk, heap, session, stops, raced>>
              /\ UNCHANGED <<result, pending, approved, refused, effects>>
<1>1. r \in Job
  BY ApprovalAssumption, Zenon
<1> QED
  BY <1>1, Zenon DEF Page, AnswerAtOnce, SendFails, AskApproval, SendDirect, sendToBackground, OnWaiting,
                     OnResult, PageTimeout

\* A page's request that was approved.
LEMMA ApprovalVault ==
    ASSUME VaultInv, NEW r \in Req, handleApproved(r)
    PROVE  VaultInv'
<1>0. r \in Job /\ OriginOf[r] \in Origin
  BY ApprovalAssumption, Zenon
<1> DEFINE v == [sessionVault EXCEPT !.connectedSites = @ \cup {OriginOf[r]}]
<1>1. CASE UNCHANGED vaultVars
  BY <1>1, Zenon DEF vaultVars, VaultInv, isUnlocked, StoredOpenable
<1>2. CASE /\ isUnlocked
           /\ heap' = [heap EXCEPT ![session.obj] = v]
           /\ persistSession([j |-> r, kind |-> "connect", obj |-> session.obj], v)
           /\ UNCHANGED disk
  <2>1. session.obj \in 1..Len(heap) /\ sessionVault \in Vault
    BY <1>2 DEF VaultInv, sessionVault
  <2>2. v \in Vault
    BY <1>0, <2>1, Zenon DEF Vault
  <2> QED
    BY <1>0, <1>2, <2>1, <2>2, PersistVault, Zenon
<1>3. CASE job' = [job EXCEPT ![r] = Working] /\ UNCHANGED <<disk, heap, session>>
  BY <1>0, <1>3, WorkingFacts, EnterVault, Zenon
<1> QED
  BY <1>1, <1>2, <1>3, Zenon DEF handleApproved

LEMMA ContinueVault ==
    ASSUME VaultInv, NEW r \in Req, Continue(r)
    PROVE  VaultInv'
<1>0. r \in Job
  BY ApprovalAssumption, Zenon
<1>1. CASE job' = [job EXCEPT ![r] = Idle] /\ UNCHANGED <<disk, heap, session>>
  BY <1>0, <1>1, EnterVault, VaultTypes, IdleOK, Zenon
<1>2. CASE Execute(r)
  <2> DEFINE h == [job[r] EXCEPT !.pc = "executed"]
  <2>1. job' = [job EXCEPT ![r] = h] /\ UNCHANGED <<disk, heap, session>>
    BY <1>2, Zenon DEF Execute
  <2>2. h \in Handler /\ HandlerOK(h, Len(heap))
    BY <1>0, <1>2, Zenon DEF Execute, Handler, HandlerOK, VaultInv
  <2> QED
    BY <1>0, <2>1, <2>2, EnterVault, Zenon
<1> QED
  BY <1>1, <1>2, Zenon DEF Continue, Connected, ExecuteFailed, Executed, Finish

\* Every other step leaves the vault alone.
LEMMA StepVault ==
    ASSUME VaultInv, [Next]_vars
    PROVE  VaultInv'
<1>1. CASE UNCHANGED vaultVars
  BY <1>1, Zenon DEF vaultVars, VaultInv, isUnlocked, StoredOpenable
<1>2. ASSUME NEW r \in Req, Page(r) PROVE VaultInv'
  BY <1>1, <1>2, PageVault, WorkingFacts, EnterVault, Zenon
<1>3. ASSUME NEW r \in Req, Approval(r) PROVE VaultInv'
  <2>1. CASE Rejected(r) \/ ApprovalTimeout(r)
    BY <1>1, <2>1, Zenon DEF Rejected, ApprovalTimeout, Refuse
  <2>2. CASE Approved(r)
    BY <2>2, ApprovalVault, Zenon DEF Approved
  <2>3. CASE Continue(r)
    BY <2>3, ContinueVault, Zenon
  <2> QED
    BY <1>3, <2>1, <2>2, <2>3, Zenon DEF Approval
<1>5. ASSUME Wallet PROVE VaultInv'
  BY <1>5, RequestVault, ResumeVault, LockVault, ApprovalAssumption, Zenon DEF Wallet
<1>6. ASSUME Stop PROVE VaultInv'
  BY <1>6, LockVault, Zenon DEF Stop
<1>7. CASE UNCHANGED vars
  BY <1>1, <1>7, Zenon DEF vars
<1> QED
  BY <1>2, <1>3, <1>5, <1>6, <1>7, Zenon DEF Next

-----------------------------------------------------------------------------
(* Requests of the pages *)

LEMMA RequestInit == Init => RequestInv
<1> SUFFICES ASSUME Init PROVE RequestInv
  BY Zenon
<1>1. RequestTypes
  BY DEF Init, RequestTypes
<1>2. ASSUME NEW r \in Req PROVE RequestOK(r)
  <2>1. job[r] = Idle /\ Idle.kind = "idle" /\ Idle.pc = "idle"
    BY ApprovalAssumption, Zenon DEF Init, VaultInit, Idle
  <2>2. r \notin pending
    BY DEF Init
  <2> QED
    BY <2>1, <2>2 DEF Init, RequestOK
<1> QED
  BY <1>1, <1>2 DEF RequestInv

\* The steps of the page and its content script.
LEMMA PageRequest ==
    ASSUME VaultInv, RequestInv, NEW r \in Req, Page(r)
    PROVE  RequestInv'
<1>0. RequestTypes /\ (\A q \in Req : RequestOK(q)) /\ Idle.kind = "idle"
  BY Zenon DEF RequestInv, Idle
<1>2. ASSUME NEW m \in Method, AnswerAtOnce(r, m) \/ SendFails(r, m) PROVE RequestInv'
  <2>1. /\ promise[r] = "none" /\ method' = [method EXCEPT ![r] = m]
        /\ UNCHANGED <<result, pending>>
    BY <1>2, Zenon DEF AnswerAtOnce, SendFails, sendToBackground
  <2>a. UNCHANGED <<job, refused, approved, effects>>
    BY <1>2, Zenon DEF AnswerAtOnce, SendFails, vaultVars
  <2>2. \/ promise' = [promise EXCEPT ![r] = "error"]
        \/ m = "connect" /\ promise' = [promise EXCEPT ![r] = "ok"]
    BY <1>2, Zenon DEF AnswerAtOnce, SendFails, AlreadyConnected
  <2>3. RequestTypes'
    BY <1>0, <2>a, <2>1, <2>2, Zenon DEF RequestTypes
  <2>4. \A q \in Req : RequestOK(q)'
    BY <1>0, <2>a, <2>1, <2>2 DEF RequestTypes, RequestOK
  <2> QED
    BY <2>1, <2>3, <2>4, Zenon DEF RequestInv
<1>3. ASSUME NEW m \in Method, AskApproval(r, m) PROVE RequestInv'
  <2>1. /\ promise[r] = "none" /\ method' = [method EXCEPT ![r] = m]
        /\ promise' = [promise EXCEPT ![r] = "pending"]
        /\ pending' = pending \cup {r} /\ UNCHANGED <<result, job, refused, approved, effects>>
    BY <1>3, Zenon DEF AskApproval, sendToBackground, vaultVars
  <2>2. RequestTypes'
    BY <1>0, <2>1, Zenon DEF RequestTypes
  <2>3. \A q \in Req : RequestOK(q)'
    BY <1>0, <2>1 DEF RequestTypes, RequestOK
  <2> QED
    BY <2>2, <2>3, Zenon DEF RequestInv
<1>4. ASSUME OnWaiting(r) \/ OnResult(r) \/ PageTimeout(r) PROVE RequestInv'
  <2>1. /\ UNCHANGED <<method, pending, job, refused, approved, effects>>
        /\ UNCHANGED result \/ (result[r] # "none" /\ result' = [result EXCEPT ![r] = "none"])
        /\ \/ UNCHANGED promise
           \/ promise[r] = "pending" /\ promise' = [promise EXCEPT ![r] = result[r]]
              /\ result[r] # "none"
           \/ promise[r] = "pending" /\ promise' = [promise EXCEPT ![r] = "error"]
    BY <1>4, Zenon DEF OnWaiting, OnResult, PageTimeout, vaultVars
  <2>2. RequestTypes'
    BY <1>0, <2>1 DEF RequestTypes
  <2>3. \A q \in Req : RequestOK(q)'
    BY <1>0, <2>1 DEF RequestTypes, RequestOK
  <2> QED
    BY <2>1, <2>2, <2>3, Zenon DEF RequestInv
<1>5. ASSUME NEW m \in Method, SendDirect(r, m) PROVE RequestInv'
  <2>1. /\ promise[r] = "none" /\ method' = [method EXCEPT ![r] = "direct"]
        /\ promise' = [promise EXCEPT ![r] = "pending"]
        /\ job' = [job EXCEPT ![r] = Working]
        /\ UNCHANGED <<result, pending, refused, approved, effects>>
    BY <1>5, Zenon DEF SendDirect, sendToBackground
  <2>2. RequestTypes'
    BY <1>0, <2>1, Zenon DEF RequestTypes, Method
  <2>3. /\ job'[r] = Working /\ method'[r] = "direct" /\ promise'[r] = "pending"
        /\ \A q \in Req : q # r => job'[q] = job[q] /\ method'[q] = method[q] /\ promise'[q] = promise[q]
    BY <1>0, <2>1, ApprovalAssumption, Zenon DEF RequestTypes, VaultInv
  <2>4. /\ Working.kind = "execute" /\ Working.pc = "prepare"
        /\ r \notin pending /\ r \notin refused /\ effects[r] = 0 /\ result[r] = "none"
    BY <1>0, <2>1, WorkingFacts, Zenon DEF RequestOK
  <2>5. RequestOK(r)'
    BY <2>1, <2>3, <2>4 DEF RequestOK
  <2>6. ASSUME NEW q \in Req, q # r PROVE RequestOK(q)'
    <3>1. RequestOK(q) /\ job'[q] = job[q] /\ method'[q] = method[q] /\ promise'[q] = promise[q]
      BY <1>0, <2>3, <2>6, Zenon
    <3> QED
      BY <2>1, <3>1 DEF RequestOK
  <2> QED
    BY <2>2, <2>5, <2>6, Zenon DEF RequestInv
<1>6. \A m \in Asks[r] : m \in Method
  BY ApprovalAssumption, Zenon
<1> QED
  BY <1>2, <1>3, <1>4, <1>5, <1>6, Zenon DEF Page

\* Steps in which no map of the worker, no result and no promise changes, and the
\* handler of a request at most saves its vault.
LEMMA RequestKept ==
    ASSUME RequestInv,
           UNCHANGED <<method, promise, result, pending, approved, refused, effects>>,
           \A r \in Req : \/ job'[r] = job[r]
                          \/ job[r].pc = "save" /\ job'[r].pc = "stored"
                             /\ job'[r].kind = job[r].kind
    PROVE  RequestInv'
<1>1. Idle.pc = "idle"
  BY Zenon DEF Idle
<1>2. ASSUME NEW r \in Req PROVE RequestOK(r)'
  <2>1. RequestOK(r) /\ (r \in pending' <=> r \in pending)
    BY Zenon DEF RequestInv
  <2>2. CASE job'[r] = job[r]
    BY <2>1, <2>2, Zenon DEF RequestOK
  <2>3. CASE job[r].pc = "save" /\ job'[r].pc = "stored" /\ job'[r].kind = job[r].kind
    BY <1>1, <2>1, <2>3, Zenon DEF RequestOK
  <2> QED
    BY <2>2, <2>3, Zenon
<1> QED
  BY <1>2, Zenon DEF RequestInv, RequestTypes

\* Rejected or timed out.
LEMMA RefuseRequest ==
    ASSUME RequestInv, NEW r \in Req, Refuse(r)
    PROVE  RequestInv'
<1>0. RequestTypes /\ \A q \in Req : RequestOK(q)
  BY Zenon DEF RequestInv
<1>1. /\ r \in pending /\ Forget(r) /\ refused' = refused \cup {r}
      /\ result' = [result EXCEPT ![r] = "error"]
      /\ UNCHANGED <<job, method, promise, approved, effects>>
  BY Zenon DEF Refuse, Forget, sendResultToTab, vaultVars
<1>2. /\ pending' \subseteq Req
      /\ \A q \in Req : q \in pending' => q \in pending /\ q # r
  BY <1>0, <1>1, Zenon DEF Forget, RequestTypes
<1>3. RequestTypes'
  BY <1>0, <1>1, <1>2, Zenon DEF RequestTypes
<1>4. \A q \in Req : RequestOK(q)'
  BY <1>0, <1>1, <1>2 DEF RequestTypes, RequestOK
<1> QED
  BY <1>2, <1>3, <1>4, Zenon DEF RequestInv

\* An approving answer deletes the request before it does anything.
LEMMA ApproveRequest ==
    ASSUME VaultInv, RequestInv, NEW r \in Req, Approved(r)
    PROVE  RequestInv'
<1>0. RequestTypes /\ (\A q \in Req : RequestOK(q)) /\ r \in Job /\ Req \subseteq Job
  BY ApprovalAssumption, Zenon DEF RequestInv
<1>1. /\ r \in pending /\ Forget(r) /\ approved' = approved \cup {r}
      /\ handleApproved(r) /\ UNCHANGED <<method, promise>>
  BY Zenon DEF Approved, Forget
<1>2. /\ pending' \subseteq Req
      /\ \A q \in Req : q \in pending' => q \in pending /\ q # r
  BY <1>0, <1>1, Zenon DEF Forget, RequestTypes
<1>3. effects[r] = 0 /\ job[r] = Idle /\ r \notin refused /\ promise[r] # "none"
  BY <1>0, <1>1, Zenon DEF RequestOK
<1>4. job \in [Job -> Handler]
  BY Zenon DEF VaultInv
<1>5. CASE /\ refused' = refused \cup {r} /\ result' = [result EXCEPT ![r] = "error"]
           /\ UNCHANGED <<job, effects>>
  <2>1. RequestTypes'
    BY <1>0, <1>1, <1>2, <1>5, Zenon DEF RequestTypes
  <2>2. \A q \in Req : RequestOK(q)'
    BY <1>0, <1>1, <1>2, <1>3, <1>5 DEF RequestTypes, RequestOK
  <2> QED
    BY <1>2, <2>1, <2>2, Zenon DEF RequestInv
<1>6. ASSUME NEW h, job' = [job EXCEPT ![r] = h], UNCHANGED <<refused, result>>,
             \/ h.kind = "connect" /\ h.pc = "save" /\ effects' = [effects EXCEPT ![r] = @ + 1]
                /\ method[r] = "connect"
             \/ h.kind = "execute" /\ h.pc = "prepare" /\ UNCHANGED effects
      PROVE  RequestInv'
  <2>1. effects'[r] \in 0..1 /\ \A q \in Req : q # r => effects'[q] = effects[q]
    BY <1>0, <1>3, <1>6 DEF RequestTypes
  <2>2. effects' \in [Req -> 0..1]
    BY <1>0, <1>3, <1>6 DEF RequestTypes
  <2>3. RequestTypes'
    BY <1>0, <1>1, <1>2, <1>6, <2>2, Zenon DEF RequestTypes
  <2>4. job'[r] = h /\ \A q \in Req : q # r => job'[q] = job[q]
    BY <1>0, <1>4, <1>6, Zenon
  <2>5. ASSUME NEW q \in Req, q # r PROVE RequestOK(q)'
    <3>1. /\ job'[q] = job[q] /\ effects'[q] = effects[q] /\ (q \in pending' => q \in pending)
          /\ (q \in approved => q \in approved')
      BY <1>1, <1>2, <2>1, <2>4, <2>5, Zenon
    <3>2. method' = method /\ promise' = promise /\ refused' = refused /\ result' = result
      BY <1>1, <1>6, Zenon
    <3> QED BY <1>0, <3>1, <3>2, Zenon DEF RequestOK
  <2>6. RequestOK(r)'
    <3>0. job'[r].kind = "connect" => method'[r] = "connect"
      BY <1>1, <1>6, <2>4, Zenon
    <3>1. r \notin pending' /\ r \in approved' /\ r \notin refused' /\ promise'[r] # "none"
      BY <1>1, <1>2, <1>3, <1>6, Zenon
    <3>2. job'[r].kind \in {"connect", "execute"} /\ job'[r].pc \in {"save", "prepare"}
      BY <1>6, <2>4, Zenon
    <3>3. job'[r].pc = "prepare" => effects'[r] = 0
      BY <1>3, <1>6, <2>4, Zenon
    <3>4. method'[r] \in {"sign", "send"} /\ "ok" \in {promise'[r], result'[r]} => effects'[r] = 1
      BY <1>0, <1>1, <1>3, <1>6, Zenon DEF RequestOK
    <3> QED
      BY <3>0, <3>1, <3>2, <3>3, <3>4, Zenon DEF RequestOK
  <2> QED
    BY <1>2, <2>3, <2>5, <2>6, Zenon DEF RequestInv
<1>7. ASSUME isUnlocked, method[r] = "connect", effects' = [effects EXCEPT ![r] = @ + 1],
             NEW v, persistSession([j |-> r, kind |-> "connect", obj |-> session.obj], v),
             UNCHANGED <<refused, result>>
      PROVE  RequestInv'
  <2> DEFINE h == [Idle EXCEPT !.kind = "connect", !.pc = "save", !.vault = v,
                               !.password = session.password]
  <2>1. job' = [job EXCEPT ![r] = h]
    BY <1>7, Zenon DEF persistSession
  <2>2. h.kind = "connect" /\ h.pc = "save"
    BY Zenon DEF Idle
  <2> QED
    BY <1>6, <1>7, <2>1, <2>2, Zenon
<1>8. ASSUME job' = [job EXCEPT ![r] = Working], UNCHANGED <<refused, result, effects>>
      PROVE  RequestInv'
  BY <1>6, <1>8, WorkingFacts, Zenon
<1> QED
  BY <1>1, <1>5, <1>7, <1>8, Zenon DEF handleApproved, sendResultToTab, vaultVars

\* The execution of an approved request.
LEMMA ContinueRequest ==
    ASSUME VaultInv, RequestInv, NEW r \in Req, Continue(r)
    PROVE  RequestInv'
<1>0. RequestTypes /\ (\A q \in Req : RequestOK(q)) /\ r \in Job /\ Req \subseteq Job
  BY ApprovalAssumption, Zenon DEF RequestInv
<1>1. UNCHANGED <<method, promise, pending, approved, refused>>
  BY Zenon DEF Continue
<1>2. job \in [Job -> Handler] /\ Idle.pc = "idle" /\ Idle.kind = "idle"
  BY Zenon DEF VaultInv, Idle
<1>3. \A q \in Req : q \in pending' <=> q \in pending
  BY <1>1, Zenon
<1>5. ASSUME NEW how \in {"ok", "error"}, Finish(r, how), job[r].pc # "idle",
             how = "ok" /\ method[r] \in {"sign", "send"} => effects[r] = 1
      PROVE  RequestInv'
  <2>1. /\ job' = [job EXCEPT ![r] = Idle] /\ result' = [result EXCEPT ![r] = how]
        /\ UNCHANGED effects
    BY <1>5, Zenon DEF Finish, sendResultToTab
  <2>2. job'[r] = Idle /\ result'[r] = how
        /\ \A q \in Req : q # r => job'[q] = job[q] /\ result'[q] = result[q]
    BY <1>0, <1>2, <2>1, Zenon DEF RequestTypes
  <2>3. RequestTypes'
    BY <1>0, <1>1, <2>1, Zenon DEF RequestTypes
  <2>4. ASSUME NEW q \in Req PROVE RequestOK(q)'
    <3>1. CASE q = r
      BY <1>0, <1>1, <1>2, <1>3, <1>5, <2>1, <2>2, <3>1, Zenon DEF RequestOK
    <3>2. CASE q # r
      BY <1>0, <1>1, <1>3, <2>1, <2>2, <3>2 DEF RequestOK
    <3> QED
      BY <3>1, <3>2, Zenon
  <2> QED
    BY <2>3, <2>4, Zenon DEF RequestInv
<1>6. CASE Connected(r)
  <2>1. method[r] = "connect" /\ job[r].pc # "idle"
    BY <1>0, <1>6, Zenon DEF Connected, RequestOK
  <2> QED
    BY <1>5, <1>6, <2>1, Zenon DEF Connected
<1>7. CASE Execute(r)
  <2>1. /\ job[r].pc = "prepare" /\ job' = [job EXCEPT ![r].pc = "executed"]
        /\ effects' = [effects EXCEPT ![r] = @ + 1] /\ UNCHANGED result
    BY <1>7, Zenon DEF Execute
  <2>2. effects[r] = 0
    BY <1>0, <2>1, Zenon DEF RequestOK
  <2>3. /\ job'[r].pc = "executed" /\ job'[r].kind = job[r].kind
        /\ \A q \in Req : q # r => job'[q] = job[q]
    BY <1>0, <1>2, <2>1, Zenon DEF Handler
  <2>4. effects' \in [Req -> 0..1] /\ effects'[r] = 1 /\ \A q \in Req : q # r => effects'[q] = effects[q]
    BY <1>0, <2>1, <2>2 DEF RequestTypes
  <2>5. RequestTypes'
    BY <1>0, <1>1, <2>1, <2>4, Zenon DEF RequestTypes
  <2>6. ASSUME NEW q \in Req PROVE RequestOK(q)'
    <3>1. CASE q = r
      BY <1>0, <1>1, <1>2, <1>3, <2>1, <2>3, <2>4, <3>1, Zenon DEF RequestOK
    <3>2. CASE q # r
      BY <1>0, <1>1, <1>3, <2>1, <2>3, <2>4, <3>2 DEF RequestOK
    <3> QED
      BY <3>1, <3>2, Zenon
  <2> QED
    BY <2>5, <2>6, Zenon DEF RequestInv
<1>8. CASE ExecuteFailed(r)
  BY <1>5, <1>8, Zenon DEF ExecuteFailed
<1>9. CASE Executed(r)
  BY <1>0, <1>5, <1>9, Zenon DEF Executed, RequestOK
<1> QED
  BY <1>6, <1>7, <1>8, <1>9, Zenon DEF Continue

\* The wallet's own handlers do not touch the handler of a request, except to
\* save the vault for it.
LEMMA WalletRequests ==
    ASSUME VaultInv, RequestInv, Wallet
    PROVE  \A r \in Req : \/ job'[r] = job[r]
                          \/ job[r].pc = "save" /\ job'[r].pc = "stored"
                             /\ job'[r].kind = job[r].kind
<1> SUFFICES ASSUME NEW r \in Req
             PROVE  \/ job'[r] = job[r]
                    \/ job[r].pc = "save" /\ job'[r].pc = "stored"
                       /\ job'[r].kind = job[r].kind
  BY Zenon
<1>1. r \in Job /\ r \notin Task /\ job \in [Job -> Handler]
  BY ApprovalAssumption, Zenon DEF VaultInv
<1>2. job[r].kind \notin {"create", "unlock", "add"}
  BY Zenon DEF RequestInv, RequestOK
<1>3. ASSUME NEW t \in Task, WalletRequest(t) PROVE job'[r] = job[r]
  BY <1>1, <1>3, Zenon DEF WalletRequest, wallet_create, wallet_unlock, wallet_addAccount, Enter
<1>4. ASSUME NEW j \in Job, Resume(j), j # r PROVE job'[r] = job[r]
  BY <1>1, <1>4, Zenon DEF Resume, OpenSession, PushAccount, persistSession, saveVault, AccountAdded
<1>5. ASSUME Resume(r) PROVE job[r].pc = "save" /\ job'[r].pc = "stored"
                             /\ job'[r].kind = job[r].kind
  <2>1. saveVault(r)
    BY <1>2, <1>5, Zenon DEF Resume, OpenSession, PushAccount, AccountAdded
  <2> QED
    BY <1>1, <2>1, Zenon DEF saveVault, Handler
<1>6. ASSUME clearSession PROVE job'[r] = job[r]
  BY <1>6, Zenon DEF clearSession
<1> QED
  BY <1>3, <1>4, <1>5, <1>6, Zenon DEF Wallet

LEMMA StopRequest ==
    ASSUME RequestInv, Stop
    PROVE  RequestInv'
<1>1. /\ pending' = {} /\ UNCHANGED <<method, promise, approved, refused, effects>>
      /\ job' = [j \in Job |-> Idle]
      /\ result' = [r \in Req |-> IF method[r] = "direct" /\ job[r] # Idle THEN "error"
                                  ELSE result[r]]
  BY Zenon DEF Stop, StopWorker
<1>2. Idle.kind = "idle" /\ Idle.pc = "idle"
  BY Zenon DEF Idle
<1>3. ASSUME NEW r \in Req PROVE RequestOK(r)'
  <2>1. job'[r] = Idle /\ r \notin pending'
    BY <1>1, ApprovalAssumption, Zenon
  <2>2. RequestOK(r) /\ (result'[r] = result[r] \/ (result'[r] = "error" /\ job[r] # Idle))
    BY <1>1, Zenon DEF RequestInv
  <2> QED
    BY <1>1, <1>2, <2>1, <2>2 DEF RequestOK
<1>4. RequestTypes'
  BY <1>1 DEF RequestInv, RequestTypes
<1> QED
  BY <1>3, <1>4, Zenon DEF RequestInv

LEMMA StepRequest ==
    ASSUME VaultInv, RequestInv, [Next]_vars
    PROVE  RequestInv'
<1>1. CASE UNCHANGED <<job, method, promise, result, pending, approved, refused, effects>>
  BY <1>1, RequestKept, Zenon
<1>2. ASSUME NEW r \in Req, Page(r) PROVE RequestInv'
  BY <1>2, PageRequest, Zenon
<1>3. ASSUME NEW r \in Req, Approval(r) PROVE RequestInv'
  <2>1. CASE Rejected(r) \/ ApprovalTimeout(r)
    BY <2>1, RefuseRequest, Zenon DEF Rejected, ApprovalTimeout
  <2>3. CASE Approved(r)
    BY <2>3, ApproveRequest, Zenon
  <2>4. CASE Continue(r)
    BY <2>4, ContinueRequest, Zenon
  <2> QED
    BY <1>3, <2>1, <2>3, <2>4, Zenon DEF Approval
<1>5. ASSUME Wallet PROVE RequestInv'
  <2>1. UNCHANGED <<method, promise, result, pending, approved, refused, effects>>
    BY <1>5, Zenon DEF Wallet
  <2> QED
    BY <1>5, <2>1, WalletRequests, RequestKept, Zenon
<1>6. ASSUME Stop PROVE RequestInv'
  BY <1>6, StopRequest, Zenon
<1>7. CASE UNCHANGED vars
  BY <1>1, <1>7, Zenon DEF vars, vaultVars
<1> QED
  BY <1>2, <1>3, <1>5, <1>6, <1>7, Zenon DEF Next

\* The vault and the requests, together.
THEOREM RequestsHandled == Spec => [](VaultInv /\ RequestInv)
<1>1. Init => VaultInv /\ RequestInv
  BY VaultInitInv, RequestInit, Zenon DEF Init
<1>2. VaultInv /\ RequestInv /\ [Next]_vars => (VaultInv /\ RequestInv)'
  BY StepVault, StepRequest, Zenon
<1> QED
  BY <1>1, <1>2, PTL DEF Spec

\* A request takes effect at most once and, unless it is a wallet_send*, only when
\* an approving answer to it was taken while it was pending (approval_response):
\* the request is deleted from pendingRequests before anything is executed, so no
\* second answer, timer or restart finds it again.
THEOREM ApprovedOnce == Spec => []OnlyApprovedOnce
<1>1. VaultInv /\ RequestInv => OnlyApprovedOnce
  <2> SUFFICES ASSUME RequestInv, NEW r \in Req
               PROVE  /\ effects[r] <= 1
                      /\ method[r] # "direct" /\ (effects[r] = 1 \/ job[r] # Idle) => r \in approved
    BY Zenon DEF OnlyApprovedOnce
  <2>1. effects[r] \in 0..1 /\ RequestOK(r)
    BY Zenon DEF RequestInv, RequestTypes
  <2> QED
    BY <2>1 DEF RequestOK
<1> QED
  BY <1>1, RequestsHandled, PTL

\* A request that was rejected, that timed out or that met a locked wallet never
\* runs later.
THEOREM RefusedStaysRefused == Spec => []RefusedNeverRuns
<1>1. VaultInv /\ RequestInv => RefusedNeverRuns
  BY Zenon DEF RequestInv, RequestTypes, RequestOK, RefusedNeverRuns
<1> QED
  BY <1>1, RequestsHandled, PTL

\* The promise of a garuda_signMessage, garuda_sendTransaction or
\* garuda_sendToken resolves only after the signature was made or the node took
\* the transaction.
THEOREM ResolvedIsDone == Spec => []ResolvedMeansDone
<1>1. VaultInv /\ RequestInv => ResolvedMeansDone
  BY Zenon DEF RequestInv, RequestTypes, RequestOK, ResolvedMeansDone
<1> QED
  BY <1>1, RequestsHandled, PTL

\* Nothing is saved under the null password of a closed session
\* (persistSession): whatever is stored can be opened again.
THEOREM StoredCanBeOpened == Spec => []StoredOpenable
<1>1. VaultInv /\ RequestInv => StoredOpenable
  BY Zenon DEF VaultInv
<1> QED
  BY <1>1, RequestsHandled, PTL

-----------------------------------------------------------------------------
(* Connected sites *)

\* What a request asks for stays, and what has happened has happened.
LEMMA HistoryKept ==
    ASSUME VaultInv, RequestInv, [Next]_vars
    PROVE  /\ \A r \in Req : effects[r] > 0 => effects'[r] > 0
           /\ \A r \in Req : promise[r] # "none" => method'[r] = method[r]
           /\ approved \subseteq approved'
<1>0. effects \in [Req -> 0..1] /\ method \in [Req -> Method \cup {"none"}]
  BY Zenon DEF RequestInv, RequestTypes
<1>1. ASSUME NEW r \in Req, Page(r)
      PROVE  /\ UNCHANGED <<effects, approved>>
             /\ \A q \in Req : promise[q] # "none" => method'[q] = method[q]
  BY <1>0, <1>1 DEF Page, AnswerAtOnce, SendFails, AskApproval, SendDirect, OnWaiting, OnResult,
                   PageTimeout, sendToBackground
<1>2. ASSUME NEW r \in Req, Approval(r)
      PROVE  /\ effects' = effects \/ effects' = [effects EXCEPT ![r] = @ + 1]
             /\ UNCHANGED method /\ approved \subseteq approved'
  BY <1>2 DEF Approval, Rejected, ApprovalTimeout, Refuse, Approved,
              handleApproved, Continue, Connected, Execute, ExecuteFailed, Executed, Finish
<1>3. ASSUME Wallet \/ Stop \/ UNCHANGED vars PROVE UNCHANGED <<effects, method, approved>>
  BY <1>3, Zenon DEF Wallet, Stop, vars
<1>4. ASSUME NEW r \in Req, Approval(r), NEW q \in Req, effects[q] > 0 PROVE effects'[q] > 0
  BY <1>0, <1>2, <1>4
<1> QED
  BY <1>1, <1>2, <1>3, <1>4, Zenon DEF Next

\* An approved connection stays an approved connection.
LEMMA GrantedStays ==
    ASSUME VaultInv, RequestInv, [Next]_vars, NEW site, Granted(site)
    PROVE  Granted(site)'
<1>1. PICK q \in Req : OriginOf[q] = site /\ method[q] = "connect" /\ effects[q] > 0 /\ q \in approved
  BY Zenon DEF Granted
<1>2. promise[q] # "none"
  BY <1>1 DEF RequestInv, RequestTypes, RequestOK
<1>3. method'[q] = "connect" /\ effects'[q] > 0 /\ q \in approved'
  BY <1>1, <1>2, HistoryKept, Zenon
<1> QED
  BY <1>1, <1>3, Zenon DEF Granted

\* A handler gets a vault with sites that were known.
LEMMA KnownByHandler ==
    ASSUME VaultInv, NEW j \in Job, NEW h, job' = [job EXCEPT ![j] = h],
           UNCHANGED <<disk, heap>>, NEW site, Known(site)'
    PROVE  Known(site) \/ site \in h.vault.connectedSites
<1>1. job \in [Job -> Handler]
  BY Zenon DEF VaultInv
<1>2. CASE \E i \in Job : site \in job'[i].vault.connectedSites
  BY <1>1, <1>2, Zenon DEF Known
<1>3. CASE ~ \E i \in Job : site \in job'[i].vault.connectedSites
  BY <1>3, Zenon DEF Known
<1> QED
  BY <1>2, <1>3, Zenon

\* Nothing but the approval of a connection brings a new site into a vault.
LEMMA KnownByWallet ==
    ASSUME VaultInv, RequestInv, Wallet \/ Stop, NEW site, Known(site)'
    PROVE  Known(site)
<1>0. /\ Idle.vault.connectedSites = {} /\ (\A m \in Mnemonic : VaultData(m).connectedSites = {})
      /\ Task \subseteq Job /\ job \in [Job -> Handler] /\ heap \in Seq(Vault)
  BY ApprovalAssumption, Zenon DEF Idle, NoVault, VaultData, VaultInv
<1>1. ASSUME NEW t \in Task, WalletRequest(t) PROVE Known(site)
  <2>1. ASSUME NEW m \in Mnemonic, NEW p \in Password, wallet_create(t, m, p) PROVE Known(site)
    <3> DEFINE h == [Idle EXCEPT !.kind = "create", !.pc = "save", !.vault = VaultData(m), !.password = p]
    <3>1. h.vault = VaultData(m)
      BY Zenon DEF Idle
    <3>2. job' = [job EXCEPT ![t] = h] /\ UNCHANGED <<disk, heap>>
      BY <2>1, Zenon DEF wallet_create, Enter
    <3> HIDE DEF h
    <3> QED
      BY <1>0, <3>1, <3>2, KnownByHandler, Zenon
  <2>2. ASSUME NEW p \in Password, wallet_unlock(t, p) PROVE Known(site)
    <3> DEFINE h == [Idle EXCEPT !.kind = "unlock", !.pc = "load", !.vault = disk.vault, !.password = p]
    <3>1. h.vault = disk.vault
      BY Zenon DEF Idle
    <3>2. job' = [job EXCEPT ![t] = h] /\ UNCHANGED <<disk, heap>>
      BY <2>2, Zenon DEF wallet_unlock, Enter
    <3> HIDE DEF h
    <3>3. Known(site) \/ site \in h.vault.connectedSites
      BY <1>0, <3>2, KnownByHandler, Zenon
    <3> QED
      BY <3>1, <3>3, Zenon DEF Known
  <2>3. ASSUME wallet_addAccount(t) PROVE Known(site)
    <3> DEFINE h == [Idle EXCEPT !.kind = "add", !.pc = "derive", !.obj = session.obj,
                                 !.index = Len(sessionVault.accounts)]
    <3>1. h.vault = Idle.vault
      BY Zenon DEF Idle
    <3>2. job' = [job EXCEPT ![t] = h] /\ UNCHANGED <<disk, heap>>
      BY <2>3, Zenon DEF wallet_addAccount, Enter
    <3> HIDE DEF h
    <3> QED
      BY <1>0, <3>1, <3>2, KnownByHandler, Zenon
  <2> QED
    BY <1>1, <2>1, <2>2, <2>3, Zenon DEF WalletRequest
<1>2. ASSUME NEW j \in Job, OpenSession(j) PROVE Known(site)
  <2>1. heap' = Append(heap, job[j].vault) /\ job' = [job EXCEPT ![j] = Idle] /\ UNCHANGED disk
    BY <1>2, Zenon DEF OpenSession, setSession
  <2>2. job[j].vault \in Vault
    BY <1>0, Zenon DEF Handler
  <2>3. ASSUME NEW i \in 1..Len(heap'), site \in heap'[i].connectedSites PROVE Known(site)
    <3>1. heap'[i] = job[j].vault \/ (i \in 1..Len(heap) /\ heap'[i] = heap[i])
      BY <1>0, <2>1, <2>2
    <3> QED
      BY <2>3, <3>1, Zenon DEF Known
  <2>4. ASSUME NEW i \in Job, site \in job'[i].vault.connectedSites PROVE Known(site)
    BY <1>0, <2>1, <2>4, Zenon DEF Known
  <2> QED
    BY <2>1, <2>3, <2>4, Zenon DEF Known
<1>3. ASSUME NEW j \in Job, PushAccount(j) PROVE Known(site)
  <2> DEFINE o == job[j].obj
             v == heap'[o]
  <2>1. o \in 1..Len(heap)
    BY <1>3, Zenon DEF PushAccount, VaultInv, HandlerOK
  <2>2. /\ heap' = [heap EXCEPT ![o].accounts = Append(@, job[j].index)] /\ UNCHANGED disk
        /\ persistSession([j |-> j, kind |-> "add", obj |-> o], v)
    BY <1>3, Zenon DEF PushAccount
  <2>3. /\ Len(heap') = Len(heap) /\ v.connectedSites = heap[o].connectedSites
        /\ \A i \in 1..Len(heap) : heap'[i].connectedSites = heap[i].connectedSites
    BY <1>0, <2>1, <2>2 DEF Vault
  <2> HIDE DEF v, o
  <2>4. PICK h : job' = [job EXCEPT ![j] = h] /\ (h.vault = v \/ h.vault = Idle.vault)
    <3> DEFINE g == [Idle EXCEPT !.kind = "add", !.pc = "save", !.vault = v,
                                 !.password = session.password]
    <3>1. g.vault = v
      BY Zenon DEF Idle
    <3>2. job' = [job EXCEPT ![j] = g] \/ job' = [job EXCEPT ![j] = Idle]
      BY <2>2, Zenon DEF persistSession
    <3> HIDE DEF g
    <3> QED
      BY <3>1, <3>2, Zenon
  <2>5. ASSUME NEW i \in Job, site \in job'[i].vault.connectedSites PROVE Known(site)
    <3>1. CASE i = j
      BY <1>0, <2>1, <2>3, <2>4, <2>5, <3>1, Zenon DEF Known
    <3>2. CASE i # j
      BY <1>0, <2>4, <2>5, <3>2, Zenon DEF Known
    <3> QED
      BY <3>1, <3>2, Zenon
  <2>6. ASSUME NEW i \in 1..Len(heap'), site \in heap'[i].connectedSites PROVE Known(site)
    BY <2>3, <2>6, Zenon DEF Known
  <2> QED
    BY <2>2, <2>5, <2>6, Zenon DEF Known
<1>4. ASSUME NEW j \in Job, saveVault(j) PROVE Known(site)
  <2>1. /\ disk' = [vault |-> job[j].vault, password |-> job[j].password]
        /\ job' = [job EXCEPT ![j].pc = "stored"] /\ UNCHANGED heap
    BY <1>4, Zenon DEF saveVault
  <2>2. disk'.vault = job[j].vault /\ \A i \in Job : job'[i].vault = job[i].vault
    BY <1>0, <2>1, Zenon DEF Handler
  <2> QED
    BY <2>1, <2>2, Zenon DEF Known
<1>5. ASSUME NEW j \in Job, AccountAdded(j) PROVE Known(site)
  <2>1. job' = [job EXCEPT ![j] = Idle] /\ UNCHANGED <<disk, heap>>
    BY <1>5, Zenon DEF AccountAdded
  <2> QED
    BY <1>0, <2>1, KnownByHandler, Zenon
<1>6. ASSUME clearSession PROVE Known(site)
  BY <1>6, Zenon DEF clearSession, Known
<1>7. ASSUME Stop PROVE Known(site)
  BY <1>0, <1>7, Zenon DEF Stop, StopWorker, Known
<1> QED
  BY <1>1, <1>2, <1>3, <1>4, <1>5, <1>6, <1>7, Zenon DEF Wallet, Resume

LEMMA KnownByApproval ==
    ASSUME VaultInv, RequestInv, NEW r \in Req, Approval(r), NEW site, Known(site)'
    PROVE  Known(site) \/ (site = OriginOf[r] /\ Granted(site)')
<1>0. /\ r \in Job /\ job \in [Job -> Handler] /\ heap \in Seq(Vault)
      /\ Idle.vault.connectedSites = {}
  BY ApprovalAssumption, Zenon DEF VaultInv, Idle, NoVault
<1>1. CASE UNCHANGED vaultVars
  BY <1>1, Zenon DEF vaultVars, Known
<1>2. CASE Rejected(r) \/ ApprovalTimeout(r)
  BY <1>1, <1>2, Zenon DEF Rejected, ApprovalTimeout, Refuse
<1>4. ASSUME NEW h, job' = [job EXCEPT ![r] = h], UNCHANGED <<disk, heap>>,
             h.vault = Idle.vault \/ h.vault = job[r].vault
      PROVE  Known(site)
  <2>1. Known(site) \/ site \in h.vault.connectedSites
    BY <1>0, <1>4, KnownByHandler, Zenon
  <2> QED
    BY <1>0, <1>4, <2>1, Zenon DEF Known
<1>5. CASE Continue(r)
  <2>1. CASE job' = [job EXCEPT ![r] = Idle] /\ UNCHANGED <<disk, heap>>
    BY <1>4, <2>1, Zenon
  <2>2. CASE Execute(r)
    <3> DEFINE h == [job[r] EXCEPT !.pc = "executed"]
    <3>1. h.vault = job[r].vault
      BY <1>0, Zenon DEF Handler
    <3>2. job' = [job EXCEPT ![r] = h] /\ UNCHANGED <<disk, heap>>
      BY <2>2, Zenon DEF Execute
    <3> HIDE DEF h
    <3> QED
      BY <1>4, <3>1, <3>2, Zenon
  <2> QED
    BY <1>5, <2>1, <2>2, Zenon DEF Continue, Connected, ExecuteFailed, Executed, Finish
<1>6. CASE Approved(r)
  <2> DEFINE v == [sessionVault EXCEPT !.connectedSites = @ \cup {OriginOf[r]}]
  <2>1. CASE /\ isUnlocked /\ method[r] = "connect"
             /\ heap' = [heap EXCEPT ![session.obj] = v]
             /\ persistSession([j |-> r, kind |-> "connect", obj |-> session.obj], v)
             /\ effects' = [effects EXCEPT ![r] = @ + 1]
             /\ UNCHANGED disk
    <3>1. session.obj \in 1..Len(heap) /\ sessionVault \in Vault /\ sessionVault = heap[session.obj]
      BY <2>1 DEF VaultInv, sessionVault
    <3>2. v \in Vault /\ v.connectedSites = sessionVault.connectedSites \cup {OriginOf[r]}
      BY <3>1, ApprovalAssumption, Zenon DEF Vault
    <3> HIDE DEF v
    <3>3. Granted(OriginOf[r])'
      <4>1. effects[r] = 0
        BY <1>6, Zenon DEF Approved, Forget, RequestInv, RequestOK
      <4>2. effects'[r] > 0
        BY <2>1, <4>1 DEF RequestInv, RequestTypes
      <4>3. method'[r] = "connect" /\ r \in approved'
        BY <1>6, <2>1, Zenon DEF Approved
      <4> QED
        BY <4>2, <4>3, Zenon DEF Granted
    <3>4. ASSUME site \in v.connectedSites PROVE Known(site) \/ site = OriginOf[r]
      BY <3>1, <3>2, <3>4, Zenon DEF Known
    <3>5. ASSUME NEW i \in 1..Len(heap'), site \in heap'[i].connectedSites
          PROVE  Known(site) \/ site = OriginOf[r]
      <4>1. i \in 1..Len(heap) /\ (heap'[i] = v \/ heap'[i] = heap[i])
        BY <1>0, <2>1, <3>1, <3>2
      <4> QED
        BY <3>4, <3>5, <4>1, Zenon DEF Known
    <3>6. ASSUME NEW i \in Job, site \in job'[i].vault.connectedSites
          PROVE  Known(site) \/ site = OriginOf[r]
      <4> DEFINE g == [Idle EXCEPT !.kind = "connect", !.pc = "save", !.vault = v,
                                   !.password = session.password]
      <4>1. g.vault = v
        BY Zenon DEF Idle
      <4>2. job' = [job EXCEPT ![r] = g]
        BY <2>1, Zenon DEF persistSession
      <4> HIDE DEF g
      <4>3. CASE i = r
        BY <1>0, <3>4, <3>6, <4>1, <4>2, <4>3, Zenon
      <4>4. CASE i # r
        BY <1>0, <3>6, <4>2, <4>4, Zenon DEF Known
      <4> QED
        BY <4>3, <4>4, Zenon
    <3> QED
      BY <2>1, <3>3, <3>5, <3>6, Zenon DEF Known
  <2>2. CASE job' = [job EXCEPT ![r] = Working] /\ UNCHANGED <<disk, heap>>
    BY <1>4, <2>2, WorkingFacts, Zenon
  <2> QED
    BY <1>1, <1>6, <2>1, <2>2, Zenon DEF Approved, handleApproved
<1> QED
  BY <1>2, <1>5, <1>6, Zenon DEF Approval

\* A transaction gets into the worker only from a connected site.
LEMMA ActiveKept ==
    ASSUME VaultInv, RequestInv, [Next]_vars, NEW q \in Req,
           method'[q] \in {"order", "send"}, Active(q)'
    PROVE  \/ method[q] = method'[q] /\ Active(q)
           \/ isConnectedSite(OriginOf[q])
<1>0. /\ q \in Job /\ job \in [Job -> Handler] /\ RequestOK(q) /\ RequestTypes
      /\ Idle.pc = "idle"
  BY ApprovalAssumption, Zenon DEF VaultInv, RequestInv, Idle
<1>1. ASSUME NEW r \in Req, Page(r)
      PROVE  \/ method[q] = method'[q] /\ Active(q)
             \/ isConnectedSite(OriginOf[q])
  <2>1. CASE SendDirect(r, "direct")
    <3>1. /\ promise[r] = "none" /\ method' = [method EXCEPT ![r] = "direct"]
          /\ job' = [job EXCEPT ![r] = Working] /\ UNCHANGED <<pending, effects>>
      BY <2>1, Zenon DEF SendDirect, sendToBackground
    <3>2. q # r
      BY <1>0, <3>1, Zenon DEF RequestTypes
    <3>3. method'[q] = method[q] /\ job'[q] = job[q]
      BY <1>0, <3>1, <3>2, Zenon DEF RequestTypes
    <3> QED
      BY <3>1, <3>3, Zenon DEF Active
  <2>2. ASSUME NEW m, sendToBackground(r, m), UNCHANGED <<pending, job, effects>>
        PROVE  method[q] = method'[q] /\ Active(q)
    <3>1. Active(q)
      BY <2>2, Zenon DEF Active
    <3>2. promise[q] # "none"
      BY <1>0, <3>1 DEF Active, RequestOK
    <3> QED
      BY <1>0, <2>2, <3>1, <3>2, Zenon DEF sendToBackground, RequestTypes
  <2>3. ASSUME NEW m \in Method, AskApproval(r, m)
        PROVE  \/ method[q] = method'[q] /\ Active(q)
               \/ isConnectedSite(OriginOf[q])
    <3>1. CASE q = r
      <4>1. m \in {"order", "send"}
        BY <1>0, <2>3, <3>1, Zenon DEF AskApproval, sendToBackground, RequestTypes
      <4> QED
        BY <2>3, <3>1, <4>1, Zenon DEF AskApproval, MayAsk
    <3>2. CASE q # r
      <4>1. /\ pending' = pending \cup {r} /\ method' = [method EXCEPT ![r] = m]
            /\ UNCHANGED <<job, effects>>
        BY <2>3, Zenon DEF AskApproval, sendToBackground, vaultVars
      <4> QED
        BY <1>0, <3>2, <4>1, Zenon DEF Active, RequestTypes
    <3> QED
      BY <3>1, <3>2, Zenon
  <2>4. ASSUME OnWaiting(r) \/ OnResult(r) \/ PageTimeout(r)
        PROVE  method[q] = method'[q] /\ Active(q)
    BY <2>4, Zenon DEF OnWaiting, OnResult, PageTimeout, vaultVars, Active
  <2>5. \A m \in Asks[r] : m \in Method /\ (SendDirect(r, m) => m = "direct")
    BY ApprovalAssumption, Zenon DEF SendDirect
  <2>6. ASSUME NEW m, AnswerAtOnce(r, m) \/ SendFails(r, m)
        PROVE  sendToBackground(r, m) /\ UNCHANGED <<pending, job, effects>>
    BY <2>6, Zenon DEF AnswerAtOnce, SendFails, vaultVars
  <2> QED
    BY <1>1, <2>1, <2>2, <2>3, <2>4, <2>5, <2>6, Zenon DEF Page
<1>2. ASSUME NEW r \in Req, Approval(r) PROVE method[q] = method'[q] /\ Active(q)
  <2>1. method' = method
    BY <1>2, Zenon DEF Approval, Rejected, ApprovalTimeout, Refuse, Approved, Continue
  <2>2. ASSUME Refuse(r) PROVE Active(q)
    <3>1. UNCHANGED <<job, effects>> /\ (q \in pending' => q \in pending)
      BY <2>2, Zenon DEF Refuse, Forget, vaultVars
    <3> QED
      BY <3>1, Zenon DEF Active
  <2>3. ASSUME Approved(r) PROVE Active(q)
    <3>1. r \in pending /\ (q \in pending' => q \in pending) /\ handleApproved(r)
      BY <2>3, Zenon DEF Approved, Forget
    <3>2. q # r => job'[q] = job[q] /\ effects'[q] = effects[q]
      BY <1>0, <3>1, Zenon DEF handleApproved, persistSession, vaultVars, RequestTypes
    <3> QED
      BY <3>1, <3>2, Zenon DEF Active
  <2>4. ASSUME Continue(r) PROVE Active(q)
    <3>1. job[r].pc # "idle" /\ (q \in pending' => q \in pending)
      BY <2>4, Zenon DEF Continue, Connected, Execute, ExecuteFailed, Executed
    <3>2. q # r => job'[q] = job[q] /\ effects'[q] = effects[q]
      BY <1>0, <2>4, Zenon DEF Continue, Connected, Execute, ExecuteFailed, Executed, Finish, RequestTypes
    <3> QED
      BY <1>0, <3>1, <3>2, Zenon DEF Active
  <2> QED
    BY <1>2, <2>1, <2>2, <2>3, <2>4, Zenon DEF Approval, Rejected, ApprovalTimeout
<1>3. ASSUME UNCHANGED vars PROVE method[q] = method'[q] /\ Active(q)
  BY <1>3, Zenon DEF vars, vaultVars, Active
<1>4. ASSUME Wallet PROVE method[q] = method'[q] /\ Active(q)
  <2>1. UNCHANGED <<method, pending, effects>>
    BY <1>4, Zenon DEF Wallet
  <2>2. job'[q] = job[q] \/ job[q].pc = "save"
    BY <1>4, WalletRequests, Zenon
  <2> QED
    BY <1>0, <2>1, <2>2, Zenon DEF Active
<1>5. ASSUME Stop PROVE method[q] = method'[q] /\ Active(q)
  <2>1. UNCHANGED <<method, effects>> /\ job'[q] = Idle /\ pending' = {}
    BY <1>0, <1>5, Zenon DEF Stop, StopWorker
  <2> QED
    BY <2>1 DEF Active
<1> QED
  BY <1>1, <1>2, <1>3, <1>4, <1>5, Zenon DEF Next

LEMMA StepSites ==
    ASSUME VaultInv, RequestInv, SiteInv, [Next]_vars
    PROVE  SiteInv'
<1>1. ASSUME NEW site \in Origin, Known(site)' PROVE Granted(site)'
  <2>1. ASSUME Known(site) PROVE Granted(site)'
    BY <2>1, GrantedStays, Zenon DEF SiteInv
  <2>2. ASSUME NEW r \in Req, Page(r) PROVE Granted(site)'
    <3>1. CASE UNCHANGED vaultVars
      BY <1>1, <2>1, <3>1, Zenon DEF vaultVars, Known
    <3>2. CASE r \in Job /\ job' = [job EXCEPT ![r] = Working] /\ UNCHANGED <<disk, heap>>
      <4>1. Known(site) \/ site \in Working.vault.connectedSites
        BY <1>1, <3>2, KnownByHandler, Zenon
      <4>2. Idle.vault.connectedSites = {}
        BY DEF Idle, NoVault
      <4> QED
        BY <2>1, <4>1, <4>2, WorkingFacts, Zenon
    <3> QED
      BY <2>2, <3>1, <3>2, PageVault, Zenon
  <2>3. ASSUME NEW r \in Req, Approval(r) PROVE Granted(site)'
    BY <1>1, <2>1, <2>3, KnownByApproval, Zenon
  <2>4. CASE Wallet \/ Stop
    BY <1>1, <2>1, <2>4, KnownByWallet, Zenon
  <2>5. CASE UNCHANGED vars
    BY <1>1, <2>1, <2>5, Zenon DEF vars, vaultVars, Known
  <2> QED
    BY <2>2, <2>3, <2>4, <2>5, Zenon DEF Next
<1>2. ASSUME NEW q \in Req, method'[q] \in {"order", "send"}, Active(q)'
      PROVE  Granted(OriginOf[q])'
  <2>1. Granted(OriginOf[q])
    <3>1. CASE method[q] = method'[q] /\ Active(q)
      BY <1>2, <3>1, Zenon DEF SiteInv
    <3>2. CASE isConnectedSite(OriginOf[q])
      <4>1. session.obj \in 1..Len(heap) /\ OriginOf[q] \in heap[session.obj].connectedSites
        BY <3>2, Zenon DEF isConnectedSite, VaultInv, sessionVault
      <4>2. OriginOf[q] \in Origin
        BY ApprovalAssumption, Zenon
      <4> QED
        BY <4>1, <4>2, Zenon DEF SiteInv, Known
    <3> QED
      BY <1>2, <3>1, <3>2, ActiveKept, Zenon
  <2> QED
    BY <2>1, GrantedStays, Zenon
<1> QED
  BY <1>1, <1>2, Zenon DEF SiteInv

LEMMA InitSites == Init => SiteInv
<1> SUFFICES ASSUME Init PROVE SiteInv
  BY Zenon
<1>1. /\ Len(heap) = 0 /\ (\A j \in Job : job[j] = Idle) /\ Idle.vault.connectedSites = {}
      /\ (\A r \in Req : method[r] = "none")
  BY Zenon DEF Init, VaultInit, Idle, NoVault
<1>2. disk.vault.connectedSites = {}
  <2>1. CASE InitDisk = NoDisk
    BY <2>1, Zenon DEF Init, VaultInit, NoDisk, NoVault
  <2>2. CASE InitDisk = [vault |-> VaultData(InitDisk.vault.mnemonic),
                         password |-> InitDisk.password]
    <3>1. InitDisk.vault = VaultData(InitDisk.vault.mnemonic)
      BY <2>2
    <3> QED
      BY <3>1 DEF Init, VaultInit, VaultData
  <2> QED
    BY <2>1, <2>2, VaultAssumption, Zenon
<1> QED
  BY <1>1, <1>2 DEF SiteInv, Known

\* No order or garuda_send of a site takes effect unless a connection of that site
\* was approved before: every site in a vault, stored, open or being saved, was put
\* there by addConnectedSite after an approving answer, and the request is taken
\* only from a site in the open vault.
THEOREM ConnectionComesFirst == Spec => []ConnectedFirst
<1>1. Init => VaultInv /\ RequestInv /\ SiteInv
  BY VaultInitInv, RequestInit, InitSites, Zenon DEF Init
<1>2. VaultInv /\ RequestInv /\ SiteInv /\ [Next]_vars => (VaultInv /\ RequestInv /\ SiteInv)'
  BY StepVault, StepRequest, StepSites, Zenon
<1>3. VaultInv /\ RequestInv /\ SiteInv => ConnectedFirst
  BY Zenon DEF SiteInv, Active, Granted, ConnectedFirst
<1> QED
  BY <1>1, <1>2, <1>3, PTL DEF Spec

-----------------------------------------------------------------------------
(* The session and the store *)

\* Whoever is at an await of the vault is alone there.
LEMMA AloneInVault ==
    ASSUME TurnInv, ~ raced, NEW j \in Job, InVault(job[j])
    PROVE  \A i \in Job : i # j => ~ InVault(job[i])
BY Zenon DEF TurnInv

\* At most one handler is at an await of the vault after the step.
LEMMA TurnTaken ==
    ASSUME NEW j \in Job, \A i \in Job : i # j => ~ InVault(job'[i]),
           Numbered(disk'.vault), InTurn(job[j])',
           ~ InVault(job'[j]) /\ isUnlocked' => disk' = Shown'
    PROVE  TurnInv'
<1>1. \A i \in Job : i # j => InTurn(job[i])'
  BY Zenon DEF InVault, InTurn
<1>2. VaultQuiet' => ~ InVault(job'[j])
  BY Zenon DEF VaultQuiet, InVault
<1> QED
  BY <1>1, <1>2, Zenon DEF TurnInv, Numbered

\* A handler that waits somewhere else.
LEMMA NotInTurn ==
    ASSUME NEW j \in Job, ~ InVault(job'[j]) PROVE InTurn(job[j])'
BY Zenon DEF InVault, InTurn

\* A handler of the vault starts.
LEMMA TurnBegins ==
    ASSUME VaultInv, TurnInv, ~ raced, VaultQuiet, NEW j \in Job, NEW h,
           job' = [job EXCEPT ![j] = h], UNCHANGED <<disk, heap, session>>,
           InVault(h), InTurn(h)
    PROVE  TurnInv'
<1>1. job'[j] = h /\ \A i \in Job : i # j => ~ InVault(job'[i])
  BY Zenon DEF VaultInv, VaultQuiet, InVault
<1>2. InTurn(job[j])'
  BY <1>1, Zenon DEF InTurn, Shown, isUnlocked, sessionVault
<1> QED
  BY <1>1, <1>2, TurnTaken, Zenon DEF TurnInv

LEMMA RequestTurn ==
    ASSUME VaultInv, TurnInv, NEW j \in Job, WalletRequest(j)
    PROVE  TurnInv'
<1> SUFFICES ASSUME ~ raced' PROVE TurnInv'
  BY Zenon DEF TurnInv
<1>1. ~ raced /\ VaultQuiet
  BY Zenon DEF WalletRequest, wallet_create, wallet_unlock, wallet_addAccount, Enter, VaultQuiet
<1>2. ASSUME NEW m \in Mnemonic, NEW p \in Password, wallet_create(j, m, p) PROVE TurnInv'
  <2> DEFINE h == [Idle EXCEPT !.kind = "create", !.pc = "save", !.vault = VaultData(m), !.password = p]
  <2>1. h.kind = "create" /\ h.pc = "save" /\ h.vault = VaultData(m)
    BY Zenon DEF Idle
  <2>2. Numbered(VaultData(m))
    BY DEF Numbered, VaultData
  <2>3. job' = [job EXCEPT ![j] = h] /\ UNCHANGED <<disk, heap, session>>
    BY <1>2, Zenon DEF wallet_create, Enter
  <2> HIDE DEF h
  <2>4. InVault(h) /\ InTurn(h)
    BY <2>1, <2>2, Zenon DEF InVault, InTurn
  <2> QED
    BY <1>1, <2>3, <2>4, TurnBegins, Zenon
<1>3. ASSUME NEW p \in Password, wallet_unlock(j, p) PROVE TurnInv'
  <2> DEFINE h == [Idle EXCEPT !.kind = "unlock", !.pc = "load", !.vault = disk.vault, !.password = p]
  <2>1. h.kind = "unlock" /\ h.pc = "load" /\ h.vault = disk.vault /\ h.password = p
    BY Zenon DEF Idle
  <2>2. disk = [vault |-> disk.vault, password |-> p]
    BY <1>3, Zenon DEF wallet_unlock, VaultInv
  <2>3. job' = [job EXCEPT ![j] = h] /\ UNCHANGED <<disk, heap, session>>
    BY <1>3, Zenon DEF wallet_unlock, Enter
  <2> HIDE DEF h
  <2>4. InVault(h) /\ InTurn(h)
    BY <2>1, <2>2, Zenon DEF InVault, InTurn
  <2> QED
    BY <1>1, <2>3, <2>4, TurnBegins, Zenon
<1>4. ASSUME wallet_addAccount(j) PROVE TurnInv'
  <2> DEFINE h == [Idle EXCEPT !.kind = "add", !.pc = "derive", !.obj = session.obj,
                               !.index = Len(sessionVault.accounts)]
  <2>1. h.kind = "add" /\ h.pc = "derive" /\ h.obj = session.obj /\ h.index = Len(sessionVault.accounts)
    BY Zenon DEF Idle
  <2>2. disk = Shown
    BY <1>1, <1>4, Zenon DEF wallet_addAccount, TurnInv
  <2>3. job' = [job EXCEPT ![j] = h] /\ UNCHANGED <<disk, heap, session>>
    BY <1>4, Zenon DEF wallet_addAccount, Enter
  <2> HIDE DEF h
  <2>4. InVault(h) /\ InTurn(h)
    BY <2>1, <2>2, Zenon DEF InVault, InTurn
  <2> QED
    BY <1>1, <2>3, <2>4, TurnBegins, Zenon
<1> QED
  BY <1>2, <1>3, <1>4, Zenon DEF WalletRequest

\* A vault object of the session is changed and is going to be saved.
LEMMA TurnPersists ==
    ASSUME VaultInv, TurnInv, ~ raced, NEW j \in Job, \A i \in Job : i # j => ~ InVault(job[i]),
           NEW o \in 1..Len(heap), NEW v \in Vault, NEW k \in {"add", "connect"},
           heap' = [heap EXCEPT ![o] = v],
           persistSession([j |-> j, kind |-> k, obj |-> o], v),
           UNCHANGED disk, isUnlocked => Numbered(v)
    PROVE  TurnInv'
<1> DEFINE saving == [Idle EXCEPT !.kind = k, !.pc = "save", !.vault = v,
                                  !.password = session.password]
<1>0. heap \in Seq(Vault) /\ job \in [Job -> Handler] /\ Numbered(disk'.vault)
      /\ session \in [password : PasswordOrNull, obj : Nat]
  BY Zenon DEF VaultInv, TurnInv
<1>1. CASE isUnlocked
  <2>1. /\ saving.kind = k /\ saving.pc = "save" /\ saving.vault = v
        /\ saving.password = session.password
    BY Zenon DEF Idle
  <2>2. job' = [job EXCEPT ![j] = saving] /\ session' = [session EXCEPT !.obj = o]
    BY <1>1, Zenon DEF persistSession
  <2> HIDE DEF saving
  <2>3. job'[j] = saving /\ \A i \in Job : i # j => ~ InVault(job'[i])
    BY <1>0, <2>2, Zenon
  <2>4. Shown' = [vault |-> v, password |-> session.password]
    BY <1>0, <2>2 DEF Shown, sessionVault
  <2>5. InTurn(job[j])' /\ InVault(job'[j])
    BY <1>1, <2>1, <2>3, <2>4, Zenon DEF InTurn, InVault, Numbered
  <2> QED
    BY <1>0, <2>3, <2>5, TurnTaken, Zenon
<1>2. CASE ~ isUnlocked
  <2>1. job' = [job EXCEPT ![j] = Idle] /\ session' = session /\ ~ InVault(Idle)
    BY <1>2, Zenon DEF persistSession, InVault, Idle
  <2>2. \A i \in Job : ~ InVault(job'[i])
    BY <1>0, <2>1, Zenon
  <2>3. ~ isUnlocked'
    BY <1>2, <2>1, Zenon DEF isUnlocked
  <2> QED
    BY <1>0, <2>2, <2>3, NotInTurn, TurnTaken, Zenon
<1> QED
  BY <1>1, <1>2, Zenon

\* The last await of a handler is over.
LEMMA TurnEnds ==
    ASSUME VaultInv, TurnInv, ~ raced, NEW j \in Job, job[j].pc = "stored", job[j].kind # "create",
           job' = [job EXCEPT ![j] = Idle], UNCHANGED <<disk, heap, session>>
    PROVE  TurnInv'
<1>1. ~ InVault(Idle) /\ InVault(job[j])
  BY Zenon DEF InVault, Idle
<1>2. \A i \in Job : ~ InVault(job'[i])
  BY <1>1, AloneInVault, Zenon DEF VaultInv
<1>3. isUnlocked' => disk' = Shown'
  <2>1. isUnlocked => disk = Shown
    BY Zenon DEF TurnInv, InTurn
  <2> QED
    BY <2>1, Zenon DEF isUnlocked, Shown, sessionVault
<1>4. Numbered(disk'.vault)
  BY Zenon DEF TurnInv
<1> QED
  BY <1>2, <1>3, <1>4, NotInTurn, TurnTaken, Zenon

LEMMA ResumeTurn ==
    ASSUME VaultInv, TurnInv, NEW j \in Job, Resume(j)
    PROVE  TurnInv'
<1> SUFFICES ASSUME ~ raced' PROVE TurnInv'
  BY Zenon DEF TurnInv
<1>1. ~ raced
  BY Zenon DEF Resume, OpenSession, PushAccount, saveVault, AccountAdded
<1>2. /\ job[j] \in Handler /\ job \in [Job -> Handler] /\ heap \in Seq(Vault)
      /\ HandlerOK(job[j], Len(heap)) /\ InTurn(job[j]) /\ Numbered(disk.vault)
  BY <1>1, Zenon DEF VaultInv, TurnInv
<1>3. InVault(job[j])
  BY Zenon DEF Resume, OpenSession, PushAccount, saveVault, AccountAdded, InVault
<1>4. \A i \in Job : i # j => ~ InVault(job[i])
  BY <1>1, <1>3, AloneInVault, Zenon
<1>5. ~ InVault(Idle)
  BY Zenon DEF InVault, Idle
<1>6. CASE OpenSession(j)
  <2>1. /\ heap' = Append(heap, job[j].vault) /\ job' = [job EXCEPT ![j] = Idle] /\ UNCHANGED disk
        /\ session' = [password |-> job[j].password, obj |-> Len(heap) + 1]
    BY <1>6, Zenon DEF OpenSession, setSession
  <2>2. disk = [vault |-> job[j].vault, password |-> job[j].password]
    BY <1>2, <1>6, Zenon DEF OpenSession, InTurn
  <2>3. job[j].vault \in Vault
    BY <1>2, Zenon DEF Handler
  <2>4. Shown' = [vault |-> job[j].vault, password |-> job[j].password]
    BY <1>2, <2>1, <2>3 DEF Shown, sessionVault
  <2>5. \A i \in Job : ~ InVault(job'[i])
    BY <1>2, <1>4, <1>5, <2>1, Zenon
  <2>6. InTurn(job[j])'
    BY <2>5, NotInTurn, Zenon
  <2>7. Numbered(disk'.vault) /\ disk' = Shown'
    BY <1>2, <2>1, <2>2, <2>4, Zenon
  <2> QED
    BY <2>5, <2>6, <2>7, TurnTaken, Zenon
<1>7. CASE PushAccount(j)
  <2> DEFINE o == job[j].obj
             a == Append(heap[o].accounts, job[j].index)
             v == [heap[o] EXCEPT !.accounts = a]
  <2>1. o \in 1..Len(heap) /\ job[j].index \in Nat /\ heap[o] \in Vault
    BY <1>2, <1>7 DEF PushAccount, HandlerOK, Handler
  <2>2. heap[o].accounts \in Seq(Nat)
    BY <2>1, Zenon DEF Vault
  <2>3. a \in Seq(Nat) /\ Len(a) = Len(heap[o].accounts) + 1 /\ a[Len(a)] = job[j].index
        /\ \A i \in 1..Len(heap[o].accounts) : a[i] = heap[o].accounts[i]
    <3>1. ASSUME NEW s \in Seq(Nat), NEW n \in Nat
          PROVE  /\ Append(s, n) \in Seq(Nat) /\ Len(Append(s, n)) = Len(s) + 1
                 /\ Append(s, n)[Len(s) + 1] = n
                 /\ \A i \in 1..Len(s) : Append(s, n)[i] = s[i]
      OBVIOUS
    <3> DEFINE s == heap[o].accounts
    <3>2. s \in Seq(Nat) /\ a = Append(s, job[j].index)
      BY <2>2, Zenon
    <3> HIDE DEF s, a
    <3>3. /\ a \in Seq(Nat) /\ Len(a) = Len(s) + 1 /\ a[Len(s) + 1] = job[j].index
          /\ \A i \in 1..Len(s) : a[i] = s[i]
      BY <2>1, <3>1, <3>2, Zenon
    <3> QED
      BY <3>3, Zenon DEF s
  <2>4. heap' = [heap EXCEPT ![o] = v]
    BY <1>7, Zenon DEF PushAccount
  <2> HIDE DEF a
  <2>5. v \in Vault /\ v.accounts = a
    BY <2>1, <2>3, Zenon DEF Vault
  <2> HIDE DEF v
  <2>6. heap'[o] = v
    BY <1>2, <2>1, <2>4
  <2>7. persistSession([j |-> j, kind |-> "add", obj |-> o], v) /\ UNCHANGED disk
    BY <1>7, <2>6, Zenon DEF PushAccount
  <2>8. isUnlocked => Numbered(v)
    <3> SUFFICES ASSUME isUnlocked, NEW i \in 1..Len(a) PROVE a[i] = i - 1
      BY <2>5, Zenon DEF Numbered
    <3>1. session.obj = o /\ disk = Shown /\ job[j].index = Len(sessionVault.accounts)
      BY <1>2, <1>7, Zenon DEF PushAccount, InTurn
    <3>2. disk.vault = heap[o] /\ job[j].index = Len(heap[o].accounts)
      BY <3>1, Zenon DEF Shown, sessionVault
    <3>3. \A n \in 1..Len(heap[o].accounts) : heap[o].accounts[n] = n - 1
      BY <1>2, <3>2, Zenon DEF Numbered
    <3>4. i \in 1..Len(heap[o].accounts) \/ i = Len(a)
      BY <2>2, <2>3
    <3>5. CASE i \in 1..Len(heap[o].accounts)
      BY <2>3, <3>3, <3>5, Zenon
    <3>6. CASE i = Len(a)
      BY <2>2, <2>3, <3>2, <3>6
    <3> QED
      BY <3>4, <3>5, <3>6, Zenon
  <2> HIDE DEF o
  <2> QED
    BY <1>1, <1>4, <2>1, <2>4, <2>5, <2>7, <2>8, TurnPersists, Zenon
<1>8. CASE saveVault(j)
  <2> DEFINE h == [job[j] EXCEPT !.pc = "stored"]
  <2>1. /\ job[j].pc = "save" /\ job' = [job EXCEPT ![j] = h] /\ UNCHANGED <<heap, session>>
        /\ disk' = [vault |-> job[j].vault, password |-> job[j].password]
    BY <1>8, Zenon DEF saveVault
  <2>2. /\ h.pc = "stored" /\ h.vault = job[j].vault /\ h.password = job[j].password
        /\ h.kind = job[j].kind
    BY <1>2, Zenon DEF Handler
  <2> HIDE DEF h
  <2>3. job'[j] = h /\ \A i \in Job : i # j => ~ InVault(job'[i])
    BY <1>2, <1>4, <2>1, Zenon
  <2>4. Numbered(job[j].vault) /\ Shown' = Shown /\ isUnlocked' = isUnlocked
        /\ (isUnlocked /\ job[j].kind # "create" =>
               Shown = [vault |-> job[j].vault, password |-> job[j].password])
    BY <1>2, <2>1, Zenon DEF InTurn, Shown, sessionVault, isUnlocked
  <2>5. InTurn(job[j])' /\ InVault(job'[j]) /\ Numbered(disk'.vault)
    <3>1. InVault(job'[j]) /\ Numbered(disk'.vault)
      BY <2>1, <2>2, <2>3, <2>4, Zenon DEF InVault
    <3>2. InTurn(job[j])'
      BY <2>1, <2>2, <2>3, <2>4, Zenon DEF InTurn, Numbered
    <3> QED
      BY <3>1, <3>2, Zenon
  <2> QED
    BY <2>3, <2>5, TurnTaken, Zenon
<1>9. CASE AccountAdded(j)
  BY <1>1, <1>9, TurnEnds, Zenon DEF AccountAdded
<1> QED
  BY <1>6, <1>7, <1>8, <1>9, Zenon DEF Resume

LEMMA LockTurn ==
    ASSUME VaultInv, TurnInv, clearSession \/ StopWorker
    PROVE  TurnInv'
<1> SUFFICES ASSUME ~ raced' PROVE TurnInv'
  BY Zenon DEF TurnInv
<1>1. /\ ~ raced /\ session' = Locked /\ UNCHANGED <<disk, heap>>
      /\ job' = job \/ job' = [j \in Job |-> Idle]
  BY DEF clearSession, StopWorker
<1>2. ~ isUnlocked' /\ Numbered(disk'.vault)
  BY <1>1, Zenon DEF isUnlocked, Locked, TurnInv
<1>3. CASE job' = job
  <2>1. \A j \in Job : InTurn(job[j])'
    BY <1>1, <1>2, <1>3, Zenon DEF TurnInv, InTurn
  <2>2. \A i, j \in Job : InVault(job'[i]) /\ InVault(job'[j]) => i = j
    BY <1>1, <1>3, Zenon DEF TurnInv
  <2> QED
    BY <1>2, <2>1, <2>2, Zenon DEF TurnInv, Numbered
<1>4. CASE job' = [j \in Job |-> Idle]
  <2>1. \A j \in Job : ~ InVault(job'[j])
    BY <1>4, Zenon DEF InVault, Idle
  <2> QED
    BY <1>2, <2>1, NotInTurn, Zenon DEF TurnInv, Numbered
<1> QED
  BY <1>1, <1>3, <1>4, Zenon

\* The handler of a request goes from one await outside the vault to another.
LEMMA TurnElsewhere ==
    ASSUME VaultInv, TurnInv, NEW j \in Job, NEW h, job' = [job EXCEPT ![j] = h],
           ~ InVault(job[j]), ~ InVault(h), UNCHANGED <<disk, heap, session, raced>>
    PROVE  TurnInv'
<1> SUFFICES ASSUME ~ raced' PROVE TurnInv'
  BY Zenon DEF TurnInv
<1>1. ~ raced /\ Numbered(disk'.vault) /\ \A i \in Job : InTurn(job[i])
  BY Zenon DEF TurnInv
<1>2. \A i \in Job : (InVault(job'[i]) <=> InVault(job[i])) /\ (InVault(job[i]) => job'[i] = job[i])
  BY Zenon DEF VaultInv
<1>3. isUnlocked' = isUnlocked /\ Shown' = Shown
  BY Zenon DEF isUnlocked, Shown, sessionVault
<1>4. ASSUME NEW i \in Job PROVE InTurn(job[i])'
  <2>1. CASE InVault(job[i])
    <3>1. job'[i] = job[i] /\ InTurn(job[i])
      BY <1>1, <1>2, <2>1, Zenon
    <3> QED
      BY <3>1, Zenon DEF InTurn, Numbered, Shown, sessionVault, isUnlocked
  <2>2. CASE ~ InVault(job[i])
    BY <1>2, <2>2, NotInTurn, Zenon
  <2> QED
    BY <2>1, <2>2, Zenon
<1>5. VaultQuiet' <=> VaultQuiet
  BY <1>2, Zenon DEF VaultQuiet, InVault
<1>6. VaultQuiet' /\ isUnlocked' => disk' = Shown'
  BY <1>1, <1>3, <1>5, Zenon DEF TurnInv
<1> QED
  BY <1>1, <1>2, <1>4, <1>6, Zenon DEF TurnInv, Numbered

LEMMA ApprovalTurn ==
    ASSUME VaultInv, RequestInv, TurnInv, NEW r \in Req, Approved(r)
    PROVE  TurnInv'
<1>0. /\ r \in Job /\ OriginOf[r] \in Origin /\ job[r] = Idle /\ handleApproved(r)
      /\ ~ InVault(Idle)
  BY ApprovalAssumption, Zenon DEF Approved, Forget, RequestInv, RequestOK, InVault, Idle
<1> DEFINE v == [sessionVault EXCEPT !.connectedSites = @ \cup {OriginOf[r]}]
<1>1. CASE UNCHANGED vaultVars
  BY <1>1, Zenon DEF vaultVars, TurnInv, InTurn, Shown, sessionVault, isUnlocked, VaultQuiet, InVault, Numbered
<1>2. ASSUME isUnlocked, heap' = [heap EXCEPT ![session.obj] = v],
             raced' = (raced \/ ~ VaultQuiet),
             persistSession([j |-> r, kind |-> "connect", obj |-> session.obj], v),
             UNCHANGED disk
      PROVE  TurnInv'
  <2> SUFFICES ASSUME ~ raced' PROVE TurnInv'
    BY Zenon DEF TurnInv
  <2>1. ~ raced /\ VaultQuiet
    BY <1>2, Zenon
  <2>2. session.obj \in 1..Len(heap) /\ sessionVault \in Vault
    BY <1>2 DEF VaultInv, sessionVault
  <2>3. v \in Vault /\ v.accounts = sessionVault.accounts
    BY <1>0, <2>2, Zenon DEF Vault
  <2>4. Numbered(v)
    <3>1. Numbered(disk.vault) /\ disk = Shown
      BY <1>2, <2>1, Zenon DEF TurnInv
    <3>2. disk.vault = sessionVault
      BY <3>1, Zenon DEF Shown
    <3> QED
      BY <2>3, <3>1, <3>2, Zenon DEF Numbered
  <2>5. \A i \in Job : i # r => ~ InVault(job[i])
    BY <2>1, Zenon DEF VaultQuiet, InVault
  <2> HIDE DEF v
  <2> QED
    BY <1>0, <1>2, <2>1, <2>2, <2>3, <2>4, <2>5, TurnPersists, Zenon
<1>3. ASSUME job' = [job EXCEPT ![r] = Working], UNCHANGED <<disk, heap, session, raced>>
      PROVE  TurnInv'
  BY <1>0, <1>3, WorkingFacts, TurnElsewhere, Zenon
<1> QED
  BY <1>0, <1>1, <1>2, <1>3, Zenon DEF handleApproved

LEMMA ContinueTurn ==
    ASSUME VaultInv, RequestInv, TurnInv, NEW r \in Req, Continue(r)
    PROVE  TurnInv'
<1>0. r \in Job /\ job[r] \in Handler /\ ~ InVault(Idle)
  BY ApprovalAssumption, Zenon DEF VaultInv, InVault, Idle
<1>1. CASE Connected(r)
  <2> SUFFICES ASSUME ~ raced' PROVE TurnInv'
    BY Zenon DEF TurnInv
  <2> QED
    BY <1>0, <1>1, TurnEnds, Zenon DEF Connected, Finish
<1>2. ASSUME NEW how, Finish(r, how), job[r].pc \in {"prepare", "executed"} PROVE TurnInv'
  BY <1>0, <1>2, TurnElsewhere, Zenon DEF Finish, InVault
<1>3. CASE Execute(r)
  <2> DEFINE h == [job[r] EXCEPT !.pc = "executed"]
  <2>1. /\ ~ InVault(h) /\ ~ InVault(job[r]) /\ job' = [job EXCEPT ![r] = h]
        /\ UNCHANGED <<disk, heap, session, raced>>
    BY <1>0, <1>3, Zenon DEF Execute, InVault, Handler
  <2> HIDE DEF h
  <2> QED
    BY <1>0, <2>1, TurnElsewhere, Zenon
<1> QED
  BY <1>1, <1>2, <1>3, Zenon DEF Continue, ExecuteFailed, Executed

LEMMA StepTurn ==
    ASSUME VaultInv, RequestInv, TurnInv, [Next]_vars
    PROVE  TurnInv'
<1>1. CASE UNCHANGED vaultVars
  BY <1>1, Zenon DEF vaultVars, TurnInv, InTurn, Shown, sessionVault, isUnlocked, VaultQuiet, InVault, Numbered
<1>2. ASSUME NEW r \in Req, Page(r) PROVE TurnInv'
  <2>1. promise[r] = "none" => job[r] = Idle
    BY Zenon DEF RequestInv, RequestOK
  <2>2. ASSUME r \in Job, promise[r] = "none", job' = [job EXCEPT ![r] = Working],
               UNCHANGED <<disk, heap, session, raced>>
        PROVE  TurnInv'
    BY <2>1, <2>2, WorkingFacts, TurnElsewhere, Zenon
  <2> QED
    BY <1>1, <1>2, <2>2, PageVault, Zenon
<1>3. ASSUME NEW r \in Req, Approval(r) PROVE TurnInv'
  <2>1. CASE Rejected(r) \/ ApprovalTimeout(r)
    BY <1>1, <2>1, Zenon DEF Rejected, ApprovalTimeout, Refuse
  <2> QED
    BY <1>3, <2>1, ApprovalTurn, ContinueTurn, Zenon DEF Approval
<1>4. ASSUME UNCHANGED vars PROVE UNCHANGED vaultVars
  BY <1>4, Zenon DEF vars
<1>5. ASSUME Wallet \/ Stop PROVE TurnInv'
  BY <1>5, RequestTurn, ResumeTurn, LockTurn, ApprovalAssumption, Zenon DEF Wallet, Stop
<1> QED
  BY <1>1, <1>2, <1>3, <1>4, <1>5, Zenon DEF Next

LEMMA InitTurn == Init => TurnInv
<1> SUFFICES ASSUME Init PROVE TurnInv
  BY Zenon
<1>1. ~ isUnlocked /\ \A j \in Job : job[j] = Idle
  BY Zenon DEF Init, VaultInit, isUnlocked, Locked
<1>2. \A j \in Job : ~ InVault(job[j]) /\ InTurn(job[j])
  BY <1>1 DEF InVault, InTurn, Idle
<1>3. Numbered(disk.vault)
  <2>1. CASE InitDisk = NoDisk
    BY <2>1 DEF Init, VaultInit, NoDisk, NoVault, Numbered
  <2>2. CASE InitDisk = [vault |-> VaultData(InitDisk.vault.mnemonic),
                         password |-> InitDisk.password]
    <3>1. disk.vault = VaultData(InitDisk.vault.mnemonic)
      BY <2>2 DEF Init, VaultInit
    <3>2. disk.vault.accounts = <<0>>
      BY <3>1 DEF VaultData
    <3> QED
      BY <3>2 DEF Numbered
  <2> QED
    BY <2>1, <2>2, VaultAssumption, Zenon
<1> QED
  BY <1>1, <1>2, <1>3, Zenon DEF TurnInv

\* As long as the vault handlers do not overlap, the stored vault numbers its
\* accounts by their place and, once they are done, is the vault of the session
\* (persistSession, saveVault), wherever the wallet is locked or the worker is
\* stopped between two awaits.
THEOREM SessionIsStored == Spec => []SessionStored
<1>1. Init => VaultInv /\ RequestInv /\ TurnInv
  BY VaultInitInv, RequestInit, InitTurn, Zenon DEF Init
<1>2. VaultInv /\ RequestInv /\ TurnInv /\ [Next]_vars => (VaultInv /\ RequestInv /\ TurnInv)'
  BY StepVault, StepRequest, StepTurn, Zenon
<1>3. VaultInv /\ RequestInv /\ TurnInv => SessionStored
  <2> SUFFICES ASSUME VaultInv, TurnInv, ~ raced
               PROVE  /\ \A i \in DOMAIN disk.vault.accounts : disk.vault.accounts[i] = i - 1
                      /\ VaultQuiet /\ isUnlocked =>
                            disk = [vault |-> sessionVault, password |-> session.password]
    BY Zenon DEF SessionStored
  <2>1. disk.vault.accounts \in Seq(Nat)
    BY Zenon DEF VaultInv, Vault
  <2>2. \A i \in DOMAIN disk.vault.accounts : disk.vault.accounts[i] = i - 1
    <3>1. Numbered(disk.vault) /\ DOMAIN disk.vault.accounts = 1..Len(disk.vault.accounts)
      BY <2>1 DEF TurnInv
    <3> QED
      BY <3>1, Zenon DEF Numbered
  <2>3. VaultQuiet /\ isUnlocked => disk = Shown
    BY Zenon DEF TurnInv
  <2> QED
    BY <2>2, <2>3, Zenon DEF Shown
<1> QED
  BY <1>1, <1>2, <1>3, PTL DEF Spec
=============================================================================
