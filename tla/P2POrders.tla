----------------------------- MODULE P2POrders -----------------------------
(***************************************************************************)
(* P2P orders of the mobile app: the list of orders in AsyncStorage         *)
(* (mobile/utils/p2p-storage.ts), the order screen that creates them and    *)
(* the chat screen that moves them on.  JavaScript runs on one thread, but  *)
(* every access to the list is an await: a task reads the whole list, and   *)
(* writes the whole list when it goes on.  The chat works on a copy of the  *)
(* order it loaded, a dialog on the copy of the moment it was opened.       *)
(***************************************************************************)
EXTENDS Integers

CONSTANTS
    Order,       \* positive numbers: an id is the time of its creation
    Holder,      \* orders whose asset the user of the app holds (myRole is seller)
    Task,        \* numbers for the asynchronous functions in flight
    MaxClicks,   \* bound on what the user does
    MaxFaults,   \* bound on reads of the storage that fail
    MaxTime      \* bound on the clock, in units of AUTO_RELEASE_MS

NoId == 0

None == "none"

ASSUME OrderAssumption == Order \subseteq Nat \ {NoId}

VARIABLES
    orders,      \* the list under ORDERS_KEY: order -> its record, for those in it
    chat,        \* the chat screen: its order and the copy it shows
    timer,       \* the countdown of the chat is running
    dialog,      \* an open dialog and the copy its button works with
    task,        \* task -> what it does and has read
    now, clicks,
    faults,      \* history: reads of the storage that failed
    outdated,    \* history: orders written over by a task that did not know what it overwrote
    crossed      \* history: orders whose chat was opened while a task was at work on them

vars == <<orders, chat, timer, dialog, task, now, clicks, faults, outdated, crossed>>

\* A P2POrder; a message is the number of the click it comes from, 0 for those of an
\* automatic release.
NoOrder == [status |-> None, autoReleaseAt |-> 0, messages |-> {}]
NoChat == [order |-> NoId, copy |-> NoOrder]
NoDialog == [button |-> None, order |-> NoId, copy |-> NoOrder, click |-> 0]
NoOrders == [o \in {} |-> NoOrder]
Idle == [kind |-> None, pc |-> None, order |-> NoId, basis |-> NoOrder, update |-> NoOrder,
         list |-> NoOrders, mounted |-> FALSE]

Init ==
    /\ orders = NoOrders
    /\ chat = NoChat /\ timer = FALSE
    /\ dialog = NoDialog
    /\ task = [t \in Task |-> Idle]
    /\ now = 1 /\ clicks = 0
    /\ faults = 0 /\ outdated = {} /\ crossed = {}

Find(list, o) == IF o \in DOMAIN list THEN list[o] ELSE NoOrder
-----------------------------------------------------------------------------
(* Asynchronous functions *)

Click == clicks < MaxClicks /\ clicks' = clicks + 1

\* The first free number is taken: numbers only tell tasks apart.
Begin(t, rec) ==
    /\ task[t] = Idle /\ \A u \in Task : u < t => task[u] # Idle
    /\ task' = [task EXCEPT ![t] = rec]

\* A call of createOrder, or of addMessages with a record made from basis.
Submit(t, kind, o, basis, update, id) ==
    Begin(t, [Idle EXCEPT !.kind = kind, !.pc = "read", !.order = o,
                          !.mounted = (o = chat.order), !.basis = basis,
                          !.update = [update EXCEPT !.messages = update.messages \cup {id}]])

\* A call of loadOrder, or of processAutoReleases alone (o = NoId).
Load(t, o) ==
    Begin(t, [Idle EXCEPT !.kind = "load", !.pc = "read", !.order = o, !.mounted = TRUE])

\* getAllOrders; a read that fails gives an empty list.
getAllOrders(t) ==
    /\ task[t].pc = "read"
    /\ \/ task' = [task EXCEPT ![t].pc = "write", ![t].list = orders] /\ UNCHANGED faults
       \/ /\ faults < MaxFaults /\ faults' = faults + 1
          /\ task' = [task EXCEPT ![t].pc = "write", ![t].list = NoOrders]
    /\ UNCHANGED <<orders, chat, timer, dialog, now, clicks, outdated, crossed>>

\* saveAllOrders(list), by a task that takes the stored orders to be as Known says.
saveAllOrders(list, Known(_)) ==
    /\ orders' = list
    /\ outdated' = outdated \cup {o \in Order :
                      Find(list, o) # Find(orders, o) /\ Known(o) # Find(orders, o)}

\* createOrder and updateOrder, after they have read the list.
updateOrder(t) ==
    LET o == task[t].order
        list == task[t].list
        Known(p) == IF p = o THEN task[t].basis ELSE Find(list, p)
    IN  /\ task[t].pc = "write" /\ task[t].kind # "load"
        /\ saveAllOrders([p \in DOMAIN list \cup {o} |->
                            IF p = o THEN task[t].update ELSE list[p]], Known)
        /\ task' = [task EXCEPT ![t].pc = "show", ![t].list = NoOrders, ![t].basis = NoOrder]
        /\ UNCHANGED <<chat, timer, dialog, now, clicks, faults, crossed>>

Due(rec) == rec.status = "dibayar" /\ rec.autoReleaseAt # 0 /\ rec.autoReleaseAt <= now

\* processAutoReleases, after it has read the list.
processAutoReleases(t) ==
    LET list == task[t].list
        Known(o) == Find(list, o)
    IN  /\ task[t].pc = "write" /\ task[t].kind = "load"
        /\ IF \E o \in DOMAIN list : Due(list[o])
           THEN saveAllOrders([o \in DOMAIN list |-> IF Due(list[o])
                   THEN [list[o] EXCEPT !.status = "auto_lepas", !.messages = @ \cup {0}]
                   ELSE list[o]], Known)
           ELSE UNCHANGED <<orders, outdated>>
        /\ task' = [task EXCEPT ![t] = IF task[t].order = NoId THEN Idle
                                       ELSE [task[t] EXCEPT !.pc = "get", !.list = NoOrders]]
        /\ UNCHANGED <<chat, timer, dialog, now, clicks, faults, crossed>>

\* getOrderById in loadOrder; a read that fails gives null.
getOrderById(t) ==
    /\ task[t].pc = "get"
    /\ \/ /\ task' = [task EXCEPT ![t].pc = "show", ![t].update = Find(orders, task[t].order)]
          /\ UNCHANGED faults
       \/ /\ faults < MaxFaults /\ faults' = faults + 1
          /\ task' = [task EXCEPT ![t] = Idle]
    /\ UNCHANGED <<orders, chat, timer, dialog, now, clicks, outdated, crossed>>

\* Mutant of Restart: the countdown goes on as it was.
RestartNever(old, new) == timer

\* The effect of the countdown runs again when the status or the deadline changes.
Restart(old, new) ==
    IF old.status = new.status /\ old.autoReleaseAt = new.autoReleaseAt
    THEN timer ELSE new.status = "dibayar"

\* setOrder at the end of loadOrder and of saveAndSet, while the chat is mounted.
setOrder(t) ==
    LET shown == task[t].mounted /\ task[t].update # NoOrder
    IN  /\ task[t].pc = "show" /\ task[t].kind \in {"load", "update"}
        /\ task' = [task EXCEPT ![t] = Idle]
        /\ chat' = IF shown THEN [chat EXCEPT !.copy = task[t].update] ELSE chat
        /\ timer' = IF shown THEN Restart(chat.copy, task[t].update) ELSE timer
        /\ UNCHANGED <<orders, dialog, now, clicks, faults, outdated, crossed>>

\* The tasks of a chat that is left go on, without a screen.
Unmount(tasks) == [t \in Task |-> [tasks[t] EXCEPT !.mounted = FALSE]]

\* The end of handlePasangOrder: the chat of the new order is pushed and loads it.
PushChat(t) ==
    /\ task[t].pc = "show" /\ task[t].kind = "create"
    /\ chat' = [order |-> task[t].order, copy |-> NoOrder] /\ timer' = FALSE
    /\ task' = [Unmount(task) EXCEPT ![t] = [Idle EXCEPT !.kind = "load", !.pc = "read",
                                               !.order = task[t].order, !.mounted = TRUE]]
    /\ UNCHANGED <<orders, dialog, now, clicks, faults, outdated, crossed>>

\* The end of a cancellation: router.back(); a dialog stays on top.
GoBack(t) ==
    /\ task[t].pc = "show" /\ task[t].kind = "cancel"
    /\ chat' = NoChat /\ timer' = FALSE
    /\ task' = [Unmount(task) EXCEPT ![t] = Idle]
    /\ UNCHANGED <<orders, dialog, now, clicks, faults, outdated, crossed>>

Run(t) ==
    \/ getAllOrders(t) \/ updateOrder(t) \/ processAutoReleases(t) \/ getOrderById(t)
    \/ setOrder(t) \/ PushChat(t) \/ GoBack(t)
-----------------------------------------------------------------------------
(* The user and the clock *)

Taken == DOMAIN orders \cup outdated \cup {task[t].order : t \in Task}

\* handlePasangOrder gives the order the next id.
handlePasangOrder(t, o) ==
    /\ chat = NoChat /\ dialog = NoDialog /\ Click
    /\ o \notin Taken /\ \A p \in Order : p < o => p \in Taken
    /\ Submit(t, "create", o, NoOrder, [NoOrder EXCEPT !.status = "menunggu"], clicks')
    /\ UNCHANGED <<orders, chat, timer, dialog, now, faults, outdated, crossed>>

OpenChat(t, o) ==
    /\ chat = NoChat /\ dialog = NoDialog /\ o \in DOMAIN orders
    /\ Click
    /\ chat' = [order |-> o, copy |-> NoOrder]
    /\ Load(t, o)
    /\ crossed' = crossed \cup {p \in {o} : \E u \in Task : task[u].order = p}
    /\ UNCHANGED <<orders, timer, dialog, now, faults, outdated>>

CloseChat ==
    /\ chat # NoChat /\ dialog = NoDialog
    /\ chat' = NoChat /\ timer' = FALSE
    /\ task' = Unmount(task)
    /\ UNCHANGED <<orders, dialog, now, clicks, faults, outdated, crossed>>

\* The P2P tab gets the focus.
FocusTab(t) ==
    /\ chat = NoChat
    /\ Click
    /\ Load(t, NoId)
    /\ UNCHANGED <<orders, chat, timer, dialog, now, faults, outdated, crossed>>

\* A button of the chat that acts at once.
Act(t, update) ==
    /\ chat.copy # NoOrder /\ dialog = NoDialog
    /\ Click
    /\ Submit(t, "update", chat.order, chat.copy, update, clicks')
    /\ UNCHANGED <<orders, chat, timer, dialog, now, faults, outdated, crossed>>

sendMessage(t) == Act(t, chat.copy)

\* handleSudahBayar and handleKonfirmasiSudahBayarIDR, the buttons of the two roles.
handleSudahBayar(t) ==
    /\ chat.copy.status = "menunggu"
    /\ Act(t, [chat.copy EXCEPT !.status = "dibayar", !.autoReleaseAt = now + 1])

OpenDialog(button) ==
    /\ dialog = NoDialog /\ Click
    /\ dialog' = [button |-> button, order |-> chat.order, copy |-> chat.copy,
                  click |-> clicks']
    /\ UNCHANGED <<orders, chat, timer, task, now, faults, outdated, crossed>>

\* The button is shown to the holder of the asset while the copy says "dibayar".
handleLepasAset ==
    /\ chat.order \in Holder /\ chat.copy.status = "dibayar"
    /\ OpenDialog("selesai")

\* Mutant of handleCancel: an order that is paid may be cancelled.
handleCancelPaid == chat.copy.status \in {"menunggu", "dibayar"} /\ OpenDialog("dibatalkan")

handleCancel == chat.copy.status = "menunggu" /\ OpenDialog("dibatalkan")

\* The dialog is confirmed.
onPress(t) ==
    /\ dialog # NoDialog
    /\ dialog' = NoDialog
    /\ Submit(t, IF dialog.button = "dibatalkan" THEN "cancel" ELSE "update", dialog.order,
              dialog.copy, [dialog.copy EXCEPT !.status = dialog.button], dialog.click)
    /\ UNCHANGED <<orders, chat, timer, now, clicks, faults, outdated, crossed>>

Dismiss ==
    /\ dialog # NoDialog
    /\ dialog' = NoDialog
    /\ UNCHANGED <<orders, chat, timer, task, now, clicks, faults, outdated, crossed>>

\* The countdown of the chat has reached zero.
Countdown(t) ==
    /\ timer /\ chat.copy.autoReleaseAt <= now
    /\ timer' = FALSE
    /\ Load(t, chat.order)
    /\ UNCHANGED <<orders, chat, dialog, now, clicks, faults, outdated, crossed>>

Tick ==
    /\ now < MaxTime
    /\ now' = now + 1
    /\ UNCHANGED <<orders, chat, timer, dialog, task, clicks, faults, outdated, crossed>>

User(t) ==
    \/ \E o \in Order : handlePasangOrder(t, o) \/ OpenChat(t, o)
    \/ FocusTab(t) \/ sendMessage(t) \/ handleSudahBayar(t) \/ onPress(t)

Next ==
    \/ \E t \in Task : Run(t) \/ User(t) \/ Countdown(t)
    \/ CloseChat \/ handleLepasAset \/ handleCancel \/ Dismiss \/ Tick

\* The event loop goes on with what is in flight and the interval fires; the user
\* owes nothing.
Fairness ==
    /\ \A t \in Task : WF_vars(Run(t))
    /\ WF_vars(\E t \in Task : Countdown(t))

Spec == Init /\ [][Next]_vars /\ Fairness
-----------------------------------------------------------------------------
Status == {"menunggu", "dibayar", "selesai", "auto_lepas", "dibatalkan"}

\* The life of an order: it waits, is paid and is then released, or it is cancelled
\* while it waits; it keeps its messages.
Follows(old, new) ==
    \/ old = new
    \/ /\ <<old.status, new.status>> \in
             {<<s, s>> : s \in Status} \cup
             {<<None, "menunggu">>, <<"menunggu", "dibayar">>, <<"menunggu", "dibatalkan">>,
              <<"dibayar", "selesai">>, <<"dibayar", "auto_lepas">>}
       /\ old.messages \subseteq new.messages

\* The stored order moves only along the life of an order: no order vanishes, none
\* is released before it is paid or after it is cancelled, none is released twice,
\* no message gets lost.  Exempt is a write that overwrites what its task never saw:
\* the storage has no compare-and-set, and updateOrder and processAutoReleases do
\* not look again.
OrderProgress ==
    [][\A o \in Order : o \notin outdated' =>
          Follows(Find(orders, o), Find(orders', o))]_vars

Troubled(o) == o \in outdated \cup crossed \/ faults > 0

\* An open chat comes to show the status the order is stored with, which decides
\* what the user may do next, and an order whose 24 hours are over is released by
\* then; unless a read of the storage failed, the order was overwritten unseen or
\* its chat was opened on top of unfinished work.
ChatCatchesUp ==
    \A o \in Order : (chat.order = o) ~>
        \/ chat.order # o
        \/ chat.copy.status = Find(orders, o).status /\ ~Due(Find(orders, o))
        \/ Troubled(o)
=============================================================================
