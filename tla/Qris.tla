-------------------------------- MODULE Qris --------------------------------
(***************************************************************************)
(* QRIS deposits of the API (handleQRIS* in api/main.go).  A deposit is     *)
(* pending until GRD were sent for it, by the goroutine that confirms it    *)
(* after a while or by the administrator.  Both hold the lock of the        *)
(* deposits over two calls of the node, one that pays and one that          *)
(* generates a block; the status handler reads a deposit without the lock   *)
(* and takes it only to mark the deposit expired.  A payment that fails,    *)
(* for instance by a timeout, may still be executed.                        *)
(***************************************************************************)
EXTENDS GrdChain

CONSTANTS
    Deposit,
    AddressOf, AmountOf,   \* what a deposit is created for
    Poller,                \* goroutines in handleQRISStatus
    MaxTries               \* bound on confirmations by the administrator

VARIABLES
    status,     \* deposit -> its Status
    overdue,    \* deposits whose ExpiresAt has passed
    auto,       \* deposit -> where its goroutine is
    sender,     \* who holds the lock to pay for what, and whether that is done
    poller,     \* goroutine -> the deposit it is going to mark expired, if any
    paid,       \* deposit -> payments made by the node
    inFlight,   \* deposit -> failed calls the node may still execute
    gaveUp,     \* history: deposit -> calls that failed
    polled,     \* history: deposits found pending and overdue while being paid
    tries       \* confirmations by the administrator

ASSUME QrisAssumption ==
    /\ "none" \notin Deposit
    /\ AddressOf \in [Deposit -> Address] /\ AmountOf \in [Deposit -> Nat]

qrisVars == <<status, overdue, auto, sender, poller, paid, inFlight, gaveUp, polled, tries>>

None == "none"
Nobody == [dep |-> None, by |-> None, sent |-> FALSE]

QrisInit ==
    /\ status = [d \in Deposit |-> None]
    /\ overdue = {}
    /\ auto = [d \in Deposit |-> None]
    /\ sender = Nobody
    /\ poller = [p \in Poller |-> None]
    /\ paid = [d \in Deposit |-> 0]
    /\ inFlight = [d \in Deposit |-> 0]
    /\ gaveUp = [d \in Deposit |-> 0]
    /\ polled = {}
    /\ tries = 0

LockFree == sender = Nobody

handleQRISCreate(d) ==
    /\ status[d] = None /\ LockFree
    /\ status' = [status EXCEPT ![d] = "pending"]
    /\ auto' = [auto EXCEPT ![d] = "sleeping"]
    /\ UNCHANGED <<overdue, sender, poller, paid, inFlight, gaveUp, polled, tries, chainVars>>

\* Thirty minutes pass.
Overdue(d) ==
    /\ status[d] # None /\ d \notin overdue
    /\ overdue' = overdue \cup {d}
    /\ UNCHANGED <<status, auto, sender, poller, paid, inFlight, gaveUp, polled, tries, chainVars>>

\* Mutant of MaySend: the status is not looked at.
MaySendAny(d) == LockFree /\ status[d] # None

MaySend(d) == LockFree /\ status[d] = "pending"

\* sendtoaddress is called with the lock held.
Send(d, by) ==
    /\ sender' = [dep |-> d, by |-> by, sent |-> FALSE]
    /\ polled' = polled \cup {e \in {d} : \E p \in Poller : poller[p] = e}

\* Mutant of AutoConfirm: the goroutine does not wait for the lock.
AutoConfirmTry(d) ==
    /\ auto[d] = "sleeping"
    /\ IF MaySend(d)
       THEN Send(d, "auto") /\ auto' = [auto EXCEPT ![d] = "sending"]
       ELSE auto' = [auto EXCEPT ![d] = "done"] /\ UNCHANGED <<sender, polled>>
    /\ UNCHANGED <<status, overdue, poller, paid, inFlight, gaveUp, tries, chainVars>>

\* The goroutine of a deposit wakes up and gets the lock.
AutoConfirm(d) ==
    /\ auto[d] = "sleeping" /\ LockFree
    /\ IF MaySend(d)
       THEN Send(d, "auto") /\ auto' = [auto EXCEPT ![d] = "sending"]
       ELSE auto' = [auto EXCEPT ![d] = "done"] /\ UNCHANGED <<sender, polled>>
    /\ UNCHANGED <<status, overdue, poller, paid, inFlight, gaveUp, tries, chainVars>>

handleQRISConfirm(d) ==
    /\ tries < MaxTries
    /\ tries' = tries + 1
    /\ MaySend(d)
    /\ Send(d, "admin")
    /\ UNCHANGED <<status, overdue, auto, poller, paid, inFlight, gaveUp, chainVars>>

\* The lock is given back; the goroutine of the deposit is done with its call.
Unlock ==
    /\ sender' = Nobody
    /\ auto' = IF sender.by = "auto" THEN [auto EXCEPT ![sender.dep] = "done"] ELSE auto

\* The node pays.
SendOk ==
    /\ sender # Nobody /\ ~ sender.sent
    /\ paid' = [paid EXCEPT ![sender.dep] = @ + 1]
    /\ Pay(AddressOf[sender.dep], AmountOf[sender.dep])
    /\ sender' = [sender EXCEPT !.sent = TRUE]
    /\ UNCHANGED <<status, overdue, auto, poller, inFlight, gaveUp, polled, tries>>

\* The node generates a block, or fails to, and the deposit is confirmed.
Confirm ==
    /\ sender # Nobody /\ sender.sent
    /\ Generate(AddressOf[sender.dep]) \/ UNCHANGED chainVars
    /\ status' = [status EXCEPT ![sender.dep] = "confirmed"]
    /\ Unlock
    /\ UNCHANGED <<overdue, poller, paid, inFlight, gaveUp, polled, tries>>

\* Mutant of SendFails: the deposit counts as confirmed.
SendFailsConfirmed ==
    /\ sender # Nobody /\ ~ sender.sent
    /\ gaveUp' = [gaveUp EXCEPT ![sender.dep] = @ + 1]
    /\ inFlight' = [inFlight EXCEPT ![sender.dep] = @ + 1]
    /\ status' = [status EXCEPT ![sender.dep] = "confirmed"]
    /\ Unlock
    /\ UNCHANGED <<overdue, poller, paid, polled, tries, chainVars>>

\* The call fails and the deposit stays pending: the node refused, or it did not
\* answer in time.
SendFails ==
    /\ sender # Nobody /\ ~ sender.sent
    /\ gaveUp' = [gaveUp EXCEPT ![sender.dep] = @ + 1]
    /\ \/ UNCHANGED inFlight
       \/ inFlight' = [inFlight EXCEPT ![sender.dep] = @ + 1]
    /\ Unlock
    /\ UNCHANGED <<status, overdue, poller, paid, polled, tries, chainVars>>

\* The node pays for a call the API has given up on.
PaidLate(d) ==
    /\ inFlight[d] > 0
    /\ inFlight' = [inFlight EXCEPT ![d] = @ - 1]
    /\ paid' = [paid EXCEPT ![d] = @ + 1]
    /\ Pay(AddressOf[d], AmountOf[d])
    /\ UNCHANGED <<status, overdue, auto, sender, poller, gaveUp, polled, tries>>

\* handleQRISStatus, without the lock: the deposit is pending and overdue.
handleQRISStatus(p, d) ==
    /\ poller[p] = None
    /\ status[d] = "pending" /\ d \in overdue
    /\ poller' = [poller EXCEPT ![p] = d]
    /\ polled' = polled \cup ({d} \cap {sender.dep})
    /\ UNCHANGED <<status, overdue, auto, sender, paid, inFlight, gaveUp, tries, chainVars>>

\* It gets the lock and marks the deposit, whatever became of it.
Expire(p) ==
    /\ poller[p] # None /\ LockFree
    /\ status' = [status EXCEPT ![poller[p]] = "expired"]
    /\ poller' = [poller EXCEPT ![p] = None]
    /\ UNCHANGED <<overdue, auto, sender, paid, inFlight, gaveUp, polled, tries, chainVars>>

QrisNext ==
    \/ \E d \in Deposit :
          \/ handleQRISCreate(d) \/ Overdue(d) \/ AutoConfirm(d) \/ handleQRISConfirm(d)
          \/ PaidLate(d) \/ \E p \in Poller : handleQRISStatus(p, d)
    \/ SendOk \/ SendFails \/ Confirm
    \/ \E p \in Poller : Expire(p)
-----------------------------------------------------------------------------
\* A deposit is paid once, whoever confirms it and whatever the pollers do, and
\* beyond that at most once for each call of the node that failed.
PaidOnce == \A d \in Deposit : paid[d] <= 1 + gaveUp[d]

\* What the status of a deposit says about money is right: a confirmed deposit
\* was paid; one that is pending was not, unless whoever paid it still holds the
\* lock to say so, and one that is expired was not, as long as no call of the
\* node failed and no status request met the payment half way.
StatusTrue ==
    \A d \in Deposit :
        /\ status[d] = "confirmed" => paid[d] > 0
        /\ status[d] = "pending" /\ paid[d] > 0 =>
              gaveUp[d] > 0 \/ d \in polled \/ (sender.dep = d /\ sender.sent)
        /\ status[d] = "expired" /\ paid[d] > 0 => gaveUp[d] > 0 \/ d \in polled

\* A deposit does not stay pending unless the call of its goroutine failed: the
\* lock that is held over calls of the node always becomes free again.
DepositSettles ==
    \A d \in Deposit : status[d] = "pending" ~> status[d] # "pending" \/ gaveUp[d] > 0
=============================================================================
