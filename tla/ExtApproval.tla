---------------------------- MODULE ExtApproval ----------------------------
(***************************************************************************)
(* How a web page asks the extension for something: the provider in the     *)
(* page (inpage/index.ts), the content script (content/index.ts) and the    *)
(* service worker (background/index.ts), with the vault of ExtVault.  The   *)
(* worker keeps the requests that need an approval until an answer or a     *)
(* timer comes.  It does not look at who sends a message, so an answer, or  *)
(* any other request, may come from the popup or through a content script.  *)
(* The answers of the worker reach the page in any order; timers, answers,  *)
(* a lock of the wallet and a stop of the worker come at any time.          *)
(***************************************************************************)
EXTENDS ExtVault

CONSTANTS
    Req,       \* requests of pages, also the handlers that execute them
    OriginOf,  \* the site a request comes from
    Asks,      \* the methods a request may ask for
    Task       \* handlers of the wallet_* requests that change the vault

\* garuda_requestAccounts, garuda_signMessage, garuda_placeOrder,
\* garuda_sendTransaction or garuda_sendToken; and, without an approval,
\* wallet_sendNative or wallet_sendToken.
NeedsApproval == {"connect", "sign", "order", "send"}
Method == NeedsApproval \cup {"direct"}

ASSUME ApprovalAssumption ==
    /\ Job = Req \cup Task /\ Req \cap Task = {}
    /\ OriginOf \in [Req -> Origin]
    /\ Asks \in [Req -> SUBSET Method]

VARIABLES
    method,      \* request -> what it asks for
    promise,     \* request -> how the promise of the page stands
    content,     \* request -> what the content script knows of it
    result,      \* request -> the answer of the worker on its way to the tab
    pending,     \* pendingRequests of the worker
    approved,    \* history: requests for which an approving answer was taken
    refused,     \* history: requests the worker rejected or timed out
    effects      \* history: request -> how often it took effect

vars == <<vaultVars, method, promise, content, result, pending, approved, refused, effects>>

Init ==
    /\ VaultInit
    /\ method = [r \in Req |-> "none"]
    /\ promise = [r \in Req |-> "none"]
    /\ content = [r \in Req |-> "none"]
    /\ result = [r \in Req |-> "none"]
    /\ pending = {}
    /\ approved = {} /\ refused = {}
    /\ effects = [r \in Req |-> 0]
-----------------------------------------------------------------------------
(* A request of the page, and what the worker's handler does with it.  The    *)
(* handler runs to its return without an await.                              *)

\* sendToBackground; the content script passes the request on.
sendToBackground(r, m) ==
    /\ promise[r] = "none"
    /\ method' = [method EXCEPT ![r] = m]

AlreadyConnected(r, m) == m = "connect" /\ isConnectedSite(OriginOf[r])

\* Mutant of MayAsk: the connection of the site is not checked.
MayAskUnconnected(r, m) == m = "connect" \/ isUnlocked

\* The checks before an approval is asked for, or wallet_send* goes on.
MayAsk(r, m) ==
    CASE m = "connect" -> TRUE
      [] m \in {"sign", "direct"} -> isUnlocked
      [] m \in {"order", "send"} -> isUnlocked /\ isConnectedSite(OriginOf[r])

\* A connected site gets its accounts at once.  "Wallet terkunci", "Site tidak
\* terhubung" and "Parameter tidak valid" are errors.
AnswerAtOnce(r, m) ==
    /\ sendToBackground(r, m)
    /\ \/ AlreadyConnected(r, m) /\ promise' = [promise EXCEPT ![r] = "ok"]
       \/ (~ MayAsk(r, m) \/ m = "send") /\ promise' = [promise EXCEPT ![r] = "error"]
    /\ UNCHANGED <<vaultVars, content, result, pending, approved, refused, effects>>

\* The context of the extension is invalid or the worker does not answer.
SendFails(r, m) ==
    /\ sendToBackground(r, m)
    /\ promise' = [promise EXCEPT ![r] = "error"]
    /\ UNCHANGED <<vaultVars, content, result, pending, approved, refused, effects>>

\* The request is kept and { waiting: true } goes back to the content script.
AskApproval(r, m) ==
    /\ sendToBackground(r, m)
    /\ m \in NeedsApproval
    /\ MayAsk(r, m) /\ ~ AlreadyConnected(r, m)
    /\ promise' = [promise EXCEPT ![r] = "pending"]
    /\ content' = [content EXCEPT ![r] = "told"]
    /\ pending' = pending \cup {r}
    /\ UNCHANGED <<vaultVars, result, approved, refused, effects>>

\* The work of a handler that signs, and sends what it signed.
Working == [Idle EXCEPT !.kind = "execute", !.pc = "prepare"]

\* wallet_sendNative and wallet_sendToken with an open wallet: the handler goes on
\* while the callback of the content script waits for its answer.
SendDirect(r, m) ==
    /\ sendToBackground(r, m)
    /\ m = "direct"
    /\ MayAsk(r, m)
    /\ promise' = [promise EXCEPT ![r] = "pending"]
    /\ content' = [content EXCEPT ![r] = "waiting"]
    /\ job' = [job EXCEPT ![r] = Working]
    /\ UNCHANGED <<disk, heap, session, stops, raced, result, pending, approved, refused,
                   effects>>

\* The content script hears that it has to wait.
OnWaiting(r) ==
    /\ content[r] = "told"
    /\ content' = [content EXCEPT ![r] = "waiting"]
    /\ UNCHANGED <<vaultVars, method, promise, result, pending, approved, refused, effects>>

\* The listener for GARUDA_APPROVAL_RESULT, and the callback: a result the content script does not
\* wait for is dropped, another one settles the promise if it is still open.
OnResult(r) ==
    /\ result[r] # "none"
    /\ result' = [result EXCEPT ![r] = "none"]
    /\ content' = IF content[r] = "waiting" THEN [content EXCEPT ![r] = "none"] ELSE content
    /\ promise' = IF content[r] = "waiting" /\ promise[r] = "pending"
                  THEN [promise EXCEPT ![r] = result[r]] ELSE promise
    /\ UNCHANGED <<vaultVars, method, pending, approved, refused, effects>>

\* The timer of sendToBackground.
PageTimeout(r) ==
    /\ promise[r] = "pending"
    /\ promise' = [promise EXCEPT ![r] = "error"]
    /\ UNCHANGED <<vaultVars, method, content, result, pending, approved, refused, effects>>
-----------------------------------------------------------------------------
(* approval_response, from whoever sends it and as often as it is sent: what  *)
(* counts is that the request is still pending.                              *)

\* The request is deleted from the map.
Forget(r) == r \in pending /\ pending' = pending \ {r}

sendResultToTab(r, how) == result' = [result EXCEPT ![r] = how]

\* Mutant of Refuse: the request is not deleted.
RefuseKept(r) ==
    /\ r \in pending
    /\ refused' = refused \cup {r}
    /\ sendResultToTab(r, "error")
    /\ UNCHANGED <<vaultVars, method, promise, content, pending, approved, effects>>

\* The request is refused: "Ditolak pengguna", "Request timeout".
Refuse(r) ==
    /\ Forget(r)
    /\ refused' = refused \cup {r}
    /\ sendResultToTab(r, "error")
    /\ UNCHANGED <<vaultVars, method, promise, content, approved, effects>>

Rejected(r) == Refuse(r)

\* The timer of showApprovalPopup.
ApprovalTimeout(r) == Refuse(r)

\* handleApproved up to the first await: an error for a locked wallet;
\* addConnectedSite and persistSession for garuda_requestAccounts.
handleApproved(r) ==
    LET vault == [sessionVault EXCEPT !.connectedSites = @ \cup {OriginOf[r]}]
    IN  \/ /\ ~ isUnlocked
           /\ refused' = refused \cup {r}
           /\ sendResultToTab(r, "error")
           /\ UNCHANGED <<vaultVars, effects>>
        \/ /\ isUnlocked /\ method[r] = "connect"
           /\ heap' = [heap EXCEPT ![session.obj] = vault]
           /\ raced' = (raced \/ ~ VaultQuiet)
           /\ persistSession([j |-> r, kind |-> "connect", obj |-> session.obj], vault)
           /\ effects' = [effects EXCEPT ![r] = @ + 1]
           /\ UNCHANGED <<disk, stops, refused, result>>
        \/ /\ isUnlocked /\ method[r] # "connect"
           /\ job' = [job EXCEPT ![r] = Working]
           /\ UNCHANGED <<disk, heap, session, stops, raced, effects, refused, result>>

\* Mutant of Approved: the request is deleted when it is done, not before.
ApprovedKept(r) ==
    /\ r \in pending
    /\ approved' = approved \cup {r}
    /\ handleApproved(r)
    /\ UNCHANGED <<method, promise, content, pending>>

Approved(r) ==
    /\ Forget(r)
    /\ approved' = approved \cup {r}
    /\ handleApproved(r)
    /\ UNCHANGED <<method, promise, content>>
-----------------------------------------------------------------------------
(* handleApproved after its first await, and the handlers of wallet_send*. *)

Finish(r, how) ==
    /\ job' = [job EXCEPT ![r] = Idle]
    /\ sendResultToTab(r, how)
    /\ UNCHANGED <<disk, heap, session, stops, raced, effects>>

Connected(r) == job[r].kind = "connect" /\ job[r].pc = "stored" /\ Finish(r, "ok")

\* The node takes the transaction, or the signature is made.
Execute(r) ==
    /\ job[r].pc = "prepare"
    /\ job' = [job EXCEPT ![r].pc = "executed"]
    /\ effects' = [effects EXCEPT ![r] = @ + 1]
    /\ UNCHANGED <<disk, heap, session, stops, raced, result>>

\* Mutant of ExecuteFailed: what the node answers is taken for success.
ExecuteFailedOk(r) ==
    /\ job[r].pc = "prepare"
    /\ Finish(r, "ok")

\* A fetch fails, there is no UTXO or not enough, or the node refuses: the error
\* goes to the page, but placeOrder and wallet_send* resolve with what the node
\* answered.
ExecuteFailed(r) ==
    /\ job[r].pc = "prepare"
    /\ \/ Finish(r, "error")
       \/ method[r] \in {"order", "direct"} /\ Finish(r, "ok")

\* The answer arrives, or is lost after the node took the transaction.
Executed(r) ==
    /\ job[r].pc = "executed"
    /\ \/ Finish(r, "ok")
       \/ method[r] # "sign" /\ Finish(r, "error")

Continue(r) ==
    /\ Connected(r) \/ Execute(r) \/ ExecuteFailed(r) \/ Executed(r)
    /\ UNCHANGED <<method, promise, content, pending, approved, refused>>
-----------------------------------------------------------------------------
\* The worker's handlers of the wallet_* requests that change the vault.
Wallet ==
    /\ \/ \E t \in Task : WalletRequest(t)
       \/ \E j \in Job : Resume(j)
       \/ clearSession
    /\ UNCHANGED <<method, promise, content, result, pending, approved, refused, effects>>

\* The map of the worker and its timers are gone; a callback that still waits is
\* told that the worker did not answer.
Stop ==
    /\ StopWorker
    /\ pending' = {}
    /\ result' = [r \in Req |-> IF method[r] = "direct" /\ job[r] # Idle THEN "error"
                                ELSE result[r]]
    /\ UNCHANGED <<method, promise, content, approved, refused, effects>>

Page(r) ==
    \/ \E m \in Asks[r] :
          AnswerAtOnce(r, m) \/ SendFails(r, m) \/ AskApproval(r, m) \/ SendDirect(r, m)
    \/ OnWaiting(r) \/ OnResult(r) \/ PageTimeout(r)

Approval(r) ==
    Rejected(r) \/ ApprovalTimeout(r) \/ Approved(r) \/ Continue(r)

Next == (\E r \in Req : Page(r) \/ Approval(r)) \/ Wallet \/ Stop

Spec == Init /\ [][Next]_vars
-----------------------------------------------------------------------------
\* A request takes effect (a site is connected, a message signed, a transaction
\* broadcast) at most once; and, unless it is a wallet_send*, only when an
\* approving answer to that very request was taken while it was pending, however
\* often and from wherever answers come, and whatever is locked, timed out or
\* stopped meanwhile.  The worker does not check that an answer is a click in the
\* popup, so nothing is said about clicks.
OnlyApprovedOnce ==
    \A r \in Req :
        /\ effects[r] <= 1
        /\ method[r] # "direct" /\ (effects[r] = 1 \/ job[r] # Idle) => r \in approved

\* A request the worker refused, because the answer was no, none came in time or
\* the wallet was locked, is not executed later.
RefusedNeverRuns == \A r \in refused : effects[r] = 0 /\ job[r] = Idle

\* No garuda_placeOrder, garuda_sendTransaction or garuda_sendToken of a site takes
\* effect unless a connection of that site was approved before, in this session or
\* an earlier one, and went through every vault that was stored and loaded since.
\* A wallet_send* needs no connection, and garuda_signMessage neither.
ConnectedFirst ==
    \A r \in Req : effects[r] > 0 /\ method[r] \in {"order", "send"} =>
        \E q \in Req : /\ OriginOf[q] = OriginOf[r]
                       /\ method[q] = "connect" /\ effects[q] > 0 /\ q \in approved

\* A promise that resolves tells the truth: the signature was made or the
\* transaction taken.
ResolvedMeansDone ==
    \A r \in Req : promise[r] = "ok" /\ method[r] \in {"sign", "send"} => effects[r] = 1
=============================================================================
