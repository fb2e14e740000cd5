---------------------------- MODULE MobileProofs ----------------------------
(***************************************************************************)
(* The mobile app, for any number of orders, tasks, accounts and kills.      *)
(*                                                                         *)
(* P2P orders: a stored order moves only along its life.  A task writes a   *)
(* record that was made from a copy (basis), and the whole list as it has   *)
(* read it; what has to be invariant is that the record is a legal          *)
(* successor of its copy, from the click to the write, also by way of a     *)
(* dialog.                                                                 *)
(*                                                                         *)
(* The wallet: whatever write the app is killed after, it finds a wallet    *)
(* that is complete or none, and a password that works.  What has to be     *)
(* invariant is the store between any two writes, together with the writes  *)
(* that the running operation has still to make.                            *)
(***************************************************************************)
EXTENDS P2POrders, MobileWallet, FiniteSetTheorems, TLAPS
-----------------------------------------------------------------------------
(* The P2P orders *)

Rec == [status : Status, autoReleaseAt : Int, messages : SUBSET Int]
Copy == Rec \cup {NoOrder}
Lists == UNION {[D -> Rec] : D \in SUBSET Int}

TaskRec ==
    [kind : {None, "load", "create", "update", "cancel"},
     pc : {None, "read", "write", "get", "show"},
     order : Int, basis : Copy, update : Copy, list : Lists, mounted : BOOLEAN]

\* What a task is going to store follows what it was made from.
Planned(r) ==
    r.kind # "load" /\ r.pc \in {"read", "write"} =>
        r.update \in Rec /\ Follows(r.basis, r.update)

\* The button of a dialog fits the copy it works with.
DialogFits ==
    \/ dialog = NoDialog
    \/ /\ dialog \in [button : {"selesai", "dibatalkan"}, order : Int, copy : Rec, click : Int]
       /\ dialog.button = "selesai" => dialog.copy.status = "dibayar"
       /\ dialog.button = "dibatalkan" => dialog.copy.status = "menunggu"

OrderInv ==
    /\ orders \in Lists
    /\ chat \in [order : Int, copy : Copy]
    /\ DialogFits
    /\ task \in [Task -> TaskRec]
    /\ \A t \in Task : Planned(task[t])
    /\ now \in Int /\ clicks \in Int

LEMMA IdleFacts ==
    /\ NoOrder \in Copy /\ NoOrder \notin Rec
    /\ NoOrders \in Lists
    /\ Idle \in TaskRec /\ Idle.pc = None /\ Planned(Idle)
<1>1. NoOrder \in Copy /\ NoOrder \notin Rec
  BY Zenon DEF Copy, Rec, NoOrder, Status, None
<1>2. NoOrders \in Lists
  <2>1. NoOrders \in [{} -> Rec] /\ {} \in SUBSET Int
    BY Zenon DEF NoOrders
  <2>2. QED
    BY <2>1, Zenon DEF Lists
<1>3. Idle \in TaskRec
  <2>1. FALSE \in BOOLEAN
    BY Zenon
  <2>2. QED
    BY <1>1, <1>2, <2>1 DEF Idle, TaskRec, NoId
<1>4. Idle.pc = None /\ Planned(Idle)
  BY Zenon DEF Idle, Planned, None
<1>5. QED
  BY <1>1, <1>2, <1>3, <1>4, Zenon

LEMMA FindFacts ==
    ASSUME NEW list \in Lists, NEW o
    PROVE  /\ Find(list, o) \in Copy
           /\ o \in DOMAIN list => list[o] \in Rec
           /\ DOMAIN list \subseteq Int
<1>1. PICK D \in SUBSET Int : list \in [D -> Rec]
  BY Zenon DEF Lists
<1>2. QED
  BY <1>1, IdleFacts, Zenon DEF Find, Copy

\* A function on numbers with values in Rec is a list.
LEMMA ListIntro ==
    ASSUME NEW D \in SUBSET Int, NEW f \in [D -> Rec]
    PROVE  f \in Lists
BY Zenon DEF Lists

\* A change of the status along the life of an order.
Moves(s, u) ==
    <<s, u>> \in {<<v, v>> : v \in Status} \cup
        {<<None, "menunggu">>, <<"menunggu", "dibayar">>, <<"menunggu", "dibatalkan">>,
         <<"dibayar", "selesai">>, <<"dibayar", "auto_lepas">>}

\* A record with its status moved on and one more message follows the one it was made from.
LEMMA FollowFacts ==
    ASSUME NEW old \in Copy, NEW r \in Rec, NEW id \in Int, Moves(old.status, r.status),
           old.messages = r.messages
    PROVE  LET new == [r EXCEPT !.messages = @ \cup {id}]
           IN  new \in Rec /\ Follows(old, new)
<1> DEFINE new == [r EXCEPT !.messages = @ \cup {id}]
<1>1. r.messages \in SUBSET Int /\ r.messages \cup {id} \in SUBSET Int
  BY Zenon DEF Rec
<1>2. new \in Rec
  BY <1>1, Zenon DEF Rec
<1>3. new.status = r.status /\ new.messages = r.messages \cup {id}
  BY Zenon DEF Rec
<1> HIDE DEF new
<1>4. Follows(old, new)
  BY <1>3, Zenon DEF Follows, Moves
<1>5. QED
  BY <1>2, <1>4, Zenon DEF new

-----------------------------------------------------------------------------
\* Replacing one task by a planned record keeps the tasks as they should be.
LEMMA TaskStep ==
    ASSUME OrderInv, NEW t \in Task, NEW r \in TaskRec, Planned(r),
           task' = [task EXCEPT ![t] = r]
    PROVE  task' \in [Task -> TaskRec] /\ \A u \in Task : Planned(task'[u])
BY Zenon DEF OrderInv

\* A click that submits a change of an order.
LEMMA SubmitStep ==
    ASSUME OrderInv, NEW t \in Task, NEW kind \in {"create", "update", "cancel"}, NEW o \in Int,
           NEW basis \in Copy, NEW update, NEW id \in Int,
           [update EXCEPT !.messages = @ \cup {id}] \in Rec,
           Follows(basis, [update EXCEPT !.messages = @ \cup {id}]),
           Submit(t, kind, o, basis, update, id)
    PROVE  task' \in [Task -> TaskRec] /\ \A u \in Task : Planned(task'[u])
<1> DEFINE new == [update EXCEPT !.messages = @ \cup {id}]
<1> DEFINE m == (o = chat.order)
<1> DEFINE r == [Idle EXCEPT !.kind = kind, !.pc = "read", !.order = o, !.mounted = m,
                             !.basis = basis, !.update = new]
<1>1. m \in BOOLEAN
  BY Zenon
<1>2. task' = [task EXCEPT ![t] = r]
  BY Zenon DEF Submit, Begin
<1>3. new \in Rec /\ Follows(basis, new)
  BY Zenon
<1> HIDE DEF m, new
<1>4. r \in TaskRec
  BY <1>1, <1>3, IdleFacts, Zenon DEF TaskRec, Copy
<1>5. r.update = new /\ r.basis = basis
  BY Zenon DEF Idle
<1>6. Planned(r)
  BY <1>3, <1>5, Zenon DEF Planned
<1> HIDE DEF r
<1>7. QED
  BY <1>2, <1>4, <1>6, TaskStep, Zenon

\* A task that loads has nothing to store.
LEMMA LoadStep ==
    ASSUME OrderInv, NEW t \in Task, NEW o \in Int, Load(t, o)
    PROVE  task' \in [Task -> TaskRec] /\ \A u \in Task : Planned(task'[u])
<1> DEFINE r == [Idle EXCEPT !.kind = "load", !.pc = "read", !.order = o, !.mounted = TRUE]
<1>1. TRUE \in BOOLEAN
  BY Zenon
<1>2. task' = [task EXCEPT ![t] = r]
  BY Zenon DEF Load, Begin
<1>3. r \in TaskRec
  BY <1>1, IdleFacts, Zenon DEF TaskRec
<1>4. Planned(r)
  BY Zenon DEF Planned, Idle
<1> HIDE DEF r
<1>5. QED
  BY <1>2, <1>3, <1>4, TaskStep, Zenon

\* A chat that is left takes no task with it.
LEMMA UnmountStep ==
    ASSUME OrderInv
    PROVE  Unmount(task) \in [Task -> TaskRec] /\ \A u \in Task : Planned(Unmount(task)[u])
<1>1. FALSE \in BOOLEAN
  BY Zenon
<1>2. ASSUME NEW u \in Task
      PROVE  [task[u] EXCEPT !.mounted = FALSE] \in TaskRec
             /\ Planned([task[u] EXCEPT !.mounted = FALSE])
  <2>1. task[u] \in TaskRec /\ Planned(task[u])
    BY <1>2, Zenon DEF OrderInv
  <2>2. [task[u] EXCEPT !.mounted = FALSE] \in TaskRec
    BY <1>1, <2>1, Zenon DEF TaskRec
  <2>3. QED
    BY <2>1, <2>2, Zenon DEF Planned, TaskRec
<1>3. QED
  BY <1>2, Zenon DEF Unmount

-----------------------------------------------------------------------------
(* The asynchronous functions *)

LEMMA ReadStep ==
    ASSUME OrderInv, NEW t \in Task, getAllOrders(t) \/ getOrderById(t)
    PROVE  OrderInv'
<1>1. task[t] \in TaskRec /\ Planned(task[t]) /\ orders \in Lists
  BY Zenon DEF OrderInv
<1>2. ASSUME NEW list \in {orders, NoOrders}, getAllOrders(t),
             task' = [task EXCEPT ![t].pc = "write", ![t].list = list]
      PROVE  task' \in [Task -> TaskRec] /\ \A u \in Task : Planned(task'[u])
  <2> DEFINE r == [task[t] EXCEPT !.pc = "write", !.list = list]
  <2>1. r \in TaskRec
    BY <1>1, <1>2, IdleFacts, Zenon DEF TaskRec
  <2>2. Planned(r)
    BY <1>1, <1>2, Zenon DEF Planned, TaskRec, getAllOrders
  <2>3. task' = [task EXCEPT ![t] = r]
    BY <1>2, Zenon DEF OrderInv
  <2> HIDE DEF r
  <2>4. QED
    BY <2>1, <2>2, <2>3, TaskStep, Zenon
<1>3. CASE getAllOrders(t)
  <2>1. task' \in [Task -> TaskRec] /\ \A u \in Task : Planned(task'[u])
    BY <1>2, <1>3, Zenon DEF getAllOrders
  <2>2. QED
    BY <1>3, <2>1, Zenon DEF OrderInv, getAllOrders, DialogFits
<1>4. CASE getOrderById(t)
  <2> DEFINE r == [task[t] EXCEPT !.pc = "show", !.update = Find(orders, task[t].order)]
  <2>1. r \in TaskRec /\ Planned(r)
    BY <1>1, FindFacts, Zenon DEF TaskRec, Planned
  <2>2. task' = [task EXCEPT ![t] = r] \/ task' = [task EXCEPT ![t] = Idle]
    BY <1>4, Zenon DEF getOrderById, OrderInv
  <2> HIDE DEF r
  <2>3. task' \in [Task -> TaskRec] /\ \A u \in Task : Planned(task'[u])
    BY <2>1, <2>2, TaskStep, IdleFacts, Zenon
  <2>4. QED
    BY <1>4, <2>3, Zenon DEF OrderInv, getOrderById, DialogFits
<1>5. QED
  BY <1>3, <1>4, Zenon

\* The stored orders move along their life in this step.
MovesOn ==
    \A o \in Order : o \notin outdated' => Follows(Find(orders, o), Find(orders', o))

\* What updateOrder stores, and why it is a successor of what was stored.
LEMMA UpdateStep ==
    ASSUME OrderInv, NEW t \in Task, updateOrder(t)
    PROVE  OrderInv' /\ MovesOn
<1> DEFINE o == task[t].order
           list == task[t].list
           new == [p \in DOMAIN list \cup {o} |-> IF p = o THEN task[t].update ELSE list[p]]
<1>1. /\ task[t] \in TaskRec /\ Planned(task[t])
      /\ task[t].pc = "write" /\ task[t].kind # "load"
  BY Zenon DEF OrderInv, updateOrder
<1>2. o \in Int /\ list \in Lists /\ task[t].update \in Rec
      /\ Follows(task[t].basis, task[t].update)
  BY <1>1, Zenon DEF TaskRec, Planned
<1>3. /\ orders' = new
      /\ \A p \in Order : p \notin outdated' =>
            \/ Find(new, p) = Find(orders, p)
            \/ (IF p = o THEN task[t].basis ELSE Find(list, p)) = Find(orders, p)
  BY Zenon DEF updateOrder, saveAllOrders
<1>4. new \in Lists
  <2>1. DOMAIN list \cup {o} \in SUBSET Int
    BY <1>2, FindFacts, Zenon
  <2>2. new \in [DOMAIN list \cup {o} -> Rec]
    BY <1>2, FindFacts, Zenon
  <2>3. QED
    BY <2>1, <2>2, ListIntro, Zenon
<1>5. ASSUME NEW p \in Order, p \notin outdated'
      PROVE  Follows(Find(orders, p), Find(orders', p))
  <2>1. CASE Find(new, p) = Find(orders, p)
    BY <1>3, <2>1, Zenon DEF Follows
  <2>2. CASE p = o /\ task[t].basis = Find(orders, p)
    <3>1. Find(new, p) = task[t].update
      BY <2>2, Zenon DEF Find
    <3>2. QED
      BY <1>2, <1>3, <2>2, <3>1, Zenon
  <2>3. CASE p # o /\ Find(list, p) = Find(orders, p)
    <3>1. Find(new, p) = Find(list, p)
      BY <2>3, Zenon DEF Find
    <3>2. QED
      BY <1>3, <2>3, <3>1, Zenon DEF Follows
  <2>4. QED
    BY <1>3, <1>5, <2>1, <2>2, <2>3, Zenon
<1>6. task' \in [Task -> TaskRec] /\ \A u \in Task : Planned(task'[u])
  <2> DEFINE r == [task[t] EXCEPT !.pc = "show", !.list = NoOrders, !.basis = NoOrder]
  <2>1. r \in TaskRec /\ Planned(r)
    BY <1>1, IdleFacts, Zenon DEF TaskRec, Planned
  <2>2. task' = [task EXCEPT ![t] = r]
    BY Zenon DEF updateOrder, OrderInv
  <2> HIDE DEF r
  <2>3. QED
    BY <2>1, <2>2, TaskStep, Zenon
<1>7. QED
  BY <1>3, <1>4, <1>5, <1>6, Zenon DEF OrderInv, updateOrder, DialogFits, MovesOn

\* What processAutoReleases stores: an order that is due is released, and no other
\* one is changed but for what the task never saw.
LEMMA ReleaseStep ==
    ASSUME OrderInv, NEW t \in Task, processAutoReleases(t)
    PROVE  OrderInv' /\ MovesOn
<1> DEFINE list == task[t].list
           Released(r) == [r EXCEPT !.status = "auto_lepas", !.messages = @ \cup {0}]
           new == [p \in DOMAIN list |-> IF Due(list[p]) THEN Released(list[p]) ELSE list[p]]
<1>1. task[t] \in TaskRec /\ Planned(task[t]) /\ list \in Lists
  BY Zenon DEF OrderInv, TaskRec
<1>2. \/ UNCHANGED <<orders, outdated>>
      \/ /\ orders' = new
         /\ \A p \in Order : p \notin outdated' =>
               Find(new, p) = Find(orders, p) \/ Find(list, p) = Find(orders, p)
  BY Zenon DEF processAutoReleases, saveAllOrders
<1>3. ASSUME NEW r \in Rec, Due(r) PROVE Released(r) \in Rec /\ Follows(r, Released(r))
  <2>1. /\ r.status = "dibayar" /\ "auto_lepas" \in Status
        /\ r.messages \in SUBSET Int /\ r.messages \cup {0} \in SUBSET Int
    BY <1>3 DEF Due, Rec, Status
  <2>2. Released(r) \in Rec
    BY <2>1, Zenon DEF Rec
  <2>3. Released(r).status = "auto_lepas" /\ r.messages \subseteq Released(r).messages
    BY <2>1, Zenon DEF Rec
  <2> HIDE DEF Released
  <2>4. QED
    BY <2>1, <2>2, <2>3, Zenon DEF Follows
<1>4. new \in Lists
  <2>1. DOMAIN list \in SUBSET Int
    BY <1>1, FindFacts, Zenon
  <2>2. new \in [DOMAIN list -> Rec]
    BY <1>1, <1>3, FindFacts, Zenon
  <2>3. QED
    BY <2>1, <2>2, ListIntro, Zenon
<1>5. ASSUME NEW p \in Order, p \notin outdated'
      PROVE  Follows(Find(orders, p), Find(orders', p))
  <2>1. CASE orders' = orders \/ Find(orders', p) = Find(orders, p)
    BY <2>1, Zenon DEF Follows
  <2>2. CASE orders' = new /\ Find(list, p) = Find(orders, p)
    <3>1. CASE p \in DOMAIN list /\ Due(list[p])
      <4>1. Find(new, p) = Released(list[p]) /\ Find(list, p) = list[p] /\ list[p] \in Rec
        BY <1>1, <3>1, FindFacts, Zenon DEF Find
      <4>2. QED
        BY <1>3, <2>2, <3>1, <4>1, Zenon
    <3>2. CASE ~ (p \in DOMAIN list /\ Due(list[p]))
      <4>1. Find(new, p) = Find(list, p)
        BY <3>2, Zenon DEF Find
      <4>2. QED
        BY <2>2, <4>1, Zenon DEF Follows
    <3>3. QED
      BY <3>1, <3>2, Zenon
  <2>3. QED
    BY <1>2, <1>5, <2>1, <2>2, Zenon
<1>6. task' \in [Task -> TaskRec] /\ \A u \in Task : Planned(task'[u])
  <2> DEFINE r == IF task[t].order = NoId THEN Idle
                  ELSE [task[t] EXCEPT !.pc = "get", !.list = NoOrders]
  <2>1. r \in TaskRec /\ Planned(r)
    BY <1>1, IdleFacts, Zenon DEF TaskRec, Planned
  <2>2. task' = [task EXCEPT ![t] = r]
    BY Zenon DEF processAutoReleases, OrderInv
  <2> HIDE DEF r
  <2>3. QED
    BY <2>1, <2>2, TaskStep, Zenon
<1>7. orders' \in Lists
  BY <1>2, <1>4, Zenon DEF OrderInv
<1>8. QED
  BY <1>5, <1>6, <1>7, Zenon DEF OrderInv, processAutoReleases, DialogFits, MovesOn

\* The steps that end a task and change a screen.
LEMMA ScreenStep ==
    ASSUME OrderInv, NEW t \in Task, setOrder(t) \/ PushChat(t) \/ GoBack(t)
    PROVE  OrderInv'
<1>1. task[t] \in TaskRec /\ Planned(task[t]) /\ chat \in [order : Int, copy : Copy]
  BY Zenon DEF OrderInv
<1>2. NoChat \in [order : Int, copy : Copy]
  BY IdleFacts DEF NoChat, NoId
<1>3. CASE setOrder(t)
  <2>1. chat' \in [order : Int, copy : Copy]
    BY <1>1, <1>3, Zenon DEF setOrder, TaskRec
  <2>2. task' \in [Task -> TaskRec] /\ \A u \in Task : Planned(task'[u])
    BY <1>3, TaskStep, IdleFacts, Zenon DEF setOrder
  <2>3. QED
    BY <1>3, <2>1, <2>2, Zenon DEF OrderInv, setOrder, DialogFits
<1>4. CASE PushChat(t)
  <2> DEFINE r == [Idle EXCEPT !.kind = "load", !.pc = "read", !.order = task[t].order,
                               !.mounted = TRUE]
  <2>1. TRUE \in BOOLEAN
    BY Zenon
  <2>2. r \in TaskRec
    BY <1>1, <2>1, IdleFacts, Zenon DEF TaskRec
  <2>3. Planned(r)
    BY Zenon DEF Planned, Idle
  <2>4. task' = [Unmount(task) EXCEPT ![t] = r]
    BY <1>4, Zenon DEF PushChat
  <2> HIDE DEF r
  <2>5. task' \in [Task -> TaskRec] /\ \A u \in Task : Planned(task'[u])
    BY <2>2, <2>3, <2>4, UnmountStep, Zenon
  <2>6. chat' \in [order : Int, copy : Copy]
    BY <1>1, <1>4, IdleFacts, Zenon DEF PushChat, TaskRec
  <2>7. QED
    BY <1>4, <2>5, <2>6, Zenon DEF OrderInv, PushChat, DialogFits
<1>5. CASE GoBack(t)
  <2>1. task' \in [Task -> TaskRec] /\ \A u \in Task : Planned(task'[u])
    BY <1>5, UnmountStep, IdleFacts, Zenon DEF GoBack
  <2>2. QED
    BY <1>2, <1>5, <2>1, Zenon DEF OrderInv, GoBack, DialogFits
<1>6. QED
  BY <1>3, <1>4, <1>5, Zenon

-----------------------------------------------------------------------------
(* The user and the clock *)

\* A button of the chat, for a record that moves on from the copy of the chat.
LEMMA ActStep ==
    ASSUME OrderInv, NEW t \in Task, NEW update,
           chat.copy \in Rec =>
             /\ update \in Rec /\ Moves(chat.copy.status, update.status)
             /\ chat.copy.messages = update.messages,
           Act(t, update)
    PROVE  OrderInv'
<1> DEFINE new == [update EXCEPT !.messages = @ \cup {clicks'}]
<1>1. chat.copy \in Rec /\ chat.copy \in Copy /\ chat.order \in Int /\ clicks' \in Int
  BY DEF OrderInv, Act, Click, Copy
<1>2. new \in Rec /\ Follows(chat.copy, new)
  BY <1>1, FollowFacts, Zenon
<1>3. Submit(t, "update", chat.order, chat.copy, update, clicks')
  BY Zenon DEF Act
<1>4. task' \in [Task -> TaskRec] /\ \A u \in Task : Planned(task'[u])
  BY <1>1, <1>2, <1>3, SubmitStep, Zenon
<1>5. QED
  BY <1>1, <1>4, Zenon DEF OrderInv, Act, DialogFits

LEMMA CreateStep ==
    ASSUME OrderInv, NEW t \in Task, NEW o \in Order, handlePasangOrder(t, o)
    PROVE  OrderInv'
<1> DEFINE update == [NoOrder EXCEPT !.status = "menunggu"]
           new == [update EXCEPT !.messages = @ \cup {clicks'}]
<1>1. clicks' \in Int /\ o \in Int
  BY OrderAssumption DEF OrderInv, handlePasangOrder, Click
<1>2. Submit(t, "create", o, NoOrder, update, clicks')
  BY Zenon DEF handlePasangOrder
<1>3. update \in Rec
  BY DEF Rec, Status, NoOrder
<1>4. Moves(NoOrder.status, update.status) /\ NoOrder.messages = update.messages
  BY Zenon DEF Moves, NoOrder
<1> HIDE DEF update
<1>5. new \in Rec /\ Follows(NoOrder, new)
  BY <1>1, <1>3, <1>4, FollowFacts, IdleFacts, Zenon
<1>6. task' \in [Task -> TaskRec] /\ \A u \in Task : Planned(task'[u])
  BY <1>1, <1>2, <1>5, SubmitStep, IdleFacts, Zenon
<1>7. QED
  BY <1>1, <1>6, Zenon DEF OrderInv, handlePasangOrder, DialogFits

LEMMA DialogStep ==
    ASSUME OrderInv, handleLepasAset \/ handleCancel
    PROVE  OrderInv'
<1>1. /\ chat.copy \in Rec /\ chat.order \in Int /\ clicks' \in Int
      /\ dialog' = [button |-> dialog'.button, order |-> chat.order, copy |-> chat.copy,
                    click |-> clicks']
  BY DEF OrderInv, handleLepasAset, handleCancel, OpenDialog, Click, Copy, NoOrder, None
<1>2. \/ dialog'.button = "selesai" /\ chat.copy.status = "dibayar"
      \/ dialog'.button = "dibatalkan" /\ chat.copy.status = "menunggu"
  BY DEF handleLepasAset, handleCancel, OpenDialog
<1>3. DialogFits'
  BY <1>1, <1>2 DEF DialogFits
<1>4. UNCHANGED <<orders, chat, task, now>>
  BY Zenon DEF handleLepasAset, handleCancel, OpenDialog
<1>5. QED
  BY <1>1, <1>3, <1>4, Zenon DEF OrderInv

\* What the confirmed dialog submits follows the copy the dialog was opened with.
LEMMA PressStep ==
    ASSUME OrderInv, NEW t \in Task, onPress(t)
    PROVE  OrderInv'
<1> DEFINE copy == dialog.copy
           s == dialog.button
           update == [copy EXCEPT !.status = s]
           new == [update EXCEPT !.messages = @ \cup {dialog.click}]
           kind == IF s = "dibatalkan" THEN "cancel" ELSE "update"
<1>1. /\ copy \in Rec /\ dialog.order \in Int /\ dialog.click \in Int
      /\ s \in {"selesai", "dibatalkan"}
      /\ s = "selesai" => copy.status = "dibayar"
      /\ s = "dibatalkan" => copy.status = "menunggu"
  BY Zenon DEF OrderInv, DialogFits, onPress
<1>2. kind \in {"create", "update", "cancel"} /\ copy \in Copy
  BY <1>1, Zenon DEF Copy
<1>3. Submit(t, kind, dialog.order, copy, update, dialog.click)
  BY Zenon DEF onPress
<1> HIDE DEF kind, copy, s
<1>4. s \in Status /\ Moves(copy.status, s)
  BY <1>1, Zenon DEF Status, Moves
<1>5. update \in Rec /\ update.status = s /\ update.messages = copy.messages
  BY <1>1, <1>4, Zenon DEF Rec
<1> HIDE DEF update
<1>6. new \in Rec /\ Follows(copy, new)
  BY <1>1, <1>2, <1>4, <1>5, FollowFacts, Zenon
<1>7. task' \in [Task -> TaskRec] /\ \A u \in Task : Planned(task'[u])
  BY <1>1, <1>2, <1>3, <1>6, SubmitStep, Zenon
<1>8. QED
  BY <1>7, Zenon DEF OrderInv, onPress, DialogFits

LEMMA LookStep ==
    ASSUME OrderInv, NEW t \in Task,
           (\E o \in Order : OpenChat(t, o)) \/ FocusTab(t) \/ Countdown(t)
    PROVE  OrderInv'
<1>1. CASE \E o \in Order : OpenChat(t, o)
  <2>1. PICK o \in Order : OpenChat(t, o)
    BY <1>1, Zenon
  <2>2. o \in Int
    BY OrderAssumption
  <2>3. task' \in [Task -> TaskRec] /\ \A u \in Task : Planned(task'[u])
    BY <2>1, <2>2, LoadStep, Zenon DEF OpenChat
  <2>4. chat' \in [order : Int, copy : Copy] /\ clicks' \in Int
    BY <2>1, <2>2, IdleFacts DEF OpenChat, Click, OrderInv
  <2>5. UNCHANGED <<orders, dialog, now>>
    BY <2>1, Zenon DEF OpenChat
  <2>6. QED
    BY <2>3, <2>4, <2>5, Zenon DEF OrderInv, DialogFits
<1>2. CASE FocusTab(t)
  <2>1. task' \in [Task -> TaskRec] /\ \A u \in Task : Planned(task'[u])
    BY <1>2, LoadStep DEF FocusTab, NoId
  <2>2. clicks' \in Int
    BY <1>2 DEF FocusTab, Click, OrderInv
  <2>3. QED
    BY <1>2, <2>1, <2>2, Zenon DEF OrderInv, FocusTab, DialogFits
<1>3. CASE Countdown(t)
  <2>1. task' \in [Task -> TaskRec] /\ \A u \in Task : Planned(task'[u])
    BY <1>3, LoadStep, Zenon DEF Countdown, OrderInv
  <2>2. QED
    BY <1>3, <2>1, Zenon DEF OrderInv, Countdown, DialogFits
<1>4. QED
  BY <1>1, <1>2, <1>3, Zenon
-----------------------------------------------------------------------------
LEMMA OrderInitial == Init => OrderInv
<1> SUFFICES ASSUME Init PROVE OrderInv
  BY Zenon
<1>1. orders \in Lists /\ task \in [Task -> TaskRec] /\ \A t \in Task : Planned(task[t])
  BY IdleFacts, Zenon DEF Init
<1>2. chat \in [order : Int, copy : Copy]
  BY IdleFacts DEF Init, NoChat, NoId
<1>3. QED
  BY <1>1, <1>2 DEF OrderInv, Init, DialogFits

\* One step: the tasks stay planned and the stored orders move along their life.
LEMMA OrderStep ==
    ASSUME OrderInv, Next
    PROVE  OrderInv' /\ MovesOn
<1>1. ASSUME UNCHANGED orders PROVE MovesOn
  BY <1>1, Zenon DEF Follows, MovesOn
<1>2. ASSUME NEW t \in Task, Run(t) PROVE OrderInv' /\ MovesOn
  <2>1. CASE updateOrder(t)
    BY <2>1, UpdateStep, Zenon
  <2>2. CASE processAutoReleases(t)
    BY <2>2, ReleaseStep, Zenon
  <2>3. CASE getAllOrders(t) \/ getOrderById(t)
    BY <1>1, <2>3, ReadStep, Zenon DEF getAllOrders, getOrderById
  <2>4. CASE setOrder(t) \/ PushChat(t) \/ GoBack(t)
    BY <1>1, <2>4, ScreenStep, Zenon DEF setOrder, PushChat, GoBack
  <2>5. QED
    BY <1>2, <2>1, <2>2, <2>3, <2>4, Zenon DEF Run
<1>3. ASSUME NEW t \in Task, User(t) \/ Countdown(t) PROVE OrderInv' /\ MovesOn
  <2>1. UNCHANGED orders
    BY <1>3 DEF User, Countdown, handlePasangOrder, OpenChat, FocusTab, sendMessage,
                handleSudahBayar, Act, onPress
  <2>2. CASE \E o \in Order : handlePasangOrder(t, o)
    BY <1>1, <2>1, <2>2, CreateStep, Zenon
  <2>3. CASE (\E o \in Order : OpenChat(t, o)) \/ FocusTab(t) \/ Countdown(t)
    BY <1>1, <2>1, <2>3, LookStep, Zenon
  <2>4. CASE sendMessage(t)
    <3>1. chat.copy \in Rec => Moves(chat.copy.status, chat.copy.status)
      BY Zenon DEF Rec, Moves
    <3>2. Act(t, chat.copy)
      BY <2>4, Zenon DEF sendMessage
    <3>3. OrderInv'
      BY <3>1, <3>2, ActStep, Zenon
    <3>4. QED
      BY <1>1, <2>1, <3>3, Zenon
  <2>5. CASE handleSudahBayar(t)
    <3> DEFINE update == [chat.copy EXCEPT !.status = "dibayar", !.autoReleaseAt = now + 1]
    <3>1. "dibayar" \in Status /\ now + 1 \in Int /\ chat.copy.status = "menunggu"
      BY <2>5 DEF Status, OrderInv, handleSudahBayar
    <3>2. chat.copy \in Rec =>
            /\ update \in Rec /\ update.status = "dibayar"
            /\ update.messages = chat.copy.messages
      BY <3>1, Zenon DEF Rec
    <3>3. Act(t, update)
      BY <2>5, Zenon DEF handleSudahBayar
    <3>4. Moves("menunggu", "dibayar")
      BY Zenon DEF Moves
    <3> HIDE DEF update
    <3>5. OrderInv'
      BY <3>1, <3>2, <3>3, <3>4, ActStep, Zenon
    <3>6. QED
      BY <1>1, <2>1, <3>5, Zenon
  <2>6. CASE onPress(t)
    BY <1>1, <2>1, <2>6, PressStep, Zenon
  <2>7. QED
    BY <1>3, <2>2, <2>3, <2>4, <2>5, <2>6, Zenon DEF User
<1>4. CASE handleLepasAset \/ handleCancel
  BY <1>1, <1>4, DialogStep, Zenon DEF handleLepasAset, handleCancel, OpenDialog
<1>5. CASE CloseChat
  <2>1. NoChat \in [order : Int, copy : Copy]
    BY IdleFacts DEF NoChat, NoId
  <2>2. OrderInv'
    BY <1>5, <2>1, UnmountStep, Zenon DEF OrderInv, CloseChat, DialogFits
  <2>3. QED
    BY <1>1, <1>5, <2>2, Zenon DEF CloseChat
<1>6. CASE Dismiss \/ Tick
  <2>1. OrderInv'
    BY <1>6 DEF OrderInv, Dismiss, Tick, DialogFits
  <2>2. QED
    BY <1>1, <1>6, <2>1, Zenon DEF Dismiss, Tick
<1>7. QED
  BY <1>2, <1>3, <1>4, <1>5, <1>6, Zenon DEF Next

\* A stored order moves only along its life (OrderProgress), for any set of orders, any
\* number of tasks in flight and any number of failing reads: createOrder, updateOrder
\* and processAutoReleases store a successor of what is stored, unless they write over
\* what their task never saw.
THEOREM OrdersMoveOn == Spec => OrderProgress
<1>1. Init => OrderInv
  BY OrderInitial, Zenon
<1>2. OrderInv /\ [Next]_vars => OrderInv'
  <2>1. CASE Next
    BY <2>1, OrderStep, Zenon
  <2>2. CASE UNCHANGED vars
    BY <2>2, Zenon DEF vars, OrderInv, DialogFits
  <2>3. QED
    BY <2>1, <2>2, Zenon
<1>3. OrderInv /\ [Next]_vars => [MovesOn]_vars
  BY OrderStep, Zenon
<1>4. QED
  BY <1>1, <1>2, <1>3, PTL DEF Spec, OrderProgress, MovesOn
-----------------------------------------------------------------------------
(* The wallet: what holds between any two writes to the secure store *)

Id == ({"account"} \X Nat) \cup ({"key", "phrase"} \X Imported)
Account == [id : Id, key : Mnemonic \cup {Null}]

\* No account is listed twice, as long as none was created after a removal, and
\* the indices are below the length, as long as none was removed.
Distinct(l) == \A i, j \in 1..Len(l) : l[i].id = l[j].id => i = j
Numbered(l) == \A i \in 1..Len(l) : l[i].id[1] = "account" => l[i].id[2] < Len(l)
GoodList(l) ==
    /\ l \in Seq(Account)
    /\ ~ renumbered => Distinct(l)
    /\ ~ removed => Numbered(l)

\* The accounts of phrase m.
Whole(l, m) ==
    /\ \A i \in 1..Len(l) : l[i].key \in {m, Null}
    /\ renumbered \/ l # <<>>

\* The accounts whose imported key is not stored are at most n.
Missing(l, imported) ==
    {id \in {l[i].id : i \in 1..Len(l)} : id[1] = "key" /\ id \notin imported}
Lost(l, imported, n) ==
    IsFiniteSet(Missing(l, imported)) /\ Cardinality(Missing(l, imported)) <= n

\* The store, whatever is still to be written.
StoreInv ==
    /\ DOMAIN store = {"mnemonic", "accounts", "active", "exists", "salt", "hash", "imported"}
    /\ store.mnemonic \in Mnemonic \cup {Null}
    /\ store.exists \in BOOLEAN
    /\ store.salt \in Nat /\ store.hash \in Nat
    /\ GoodList(store.accounts)
    /\ loadWallet => Whole(store.accounts, store.mnemonic)
    /\ PasswordWorks
    /\ ~ store.exists => store.hash = 0

\* The writes of the operations.
SavePhrase(m) == Put("mnemonic", m)
SaveFirst(m) == Put("accounts", <<Derived(m, 0)>>)
SaveActive(id) == Put("active", id)
SaveExists == Put("exists", TRUE)
SaveSalt == Put("salt", salts)
SaveHash == Put("hash", salts)

\* saveWallet, with a password or without one.
Saving(m) ==
    LET id == Derived(m, 0).id
    IN  \/ /\ writes = <<SavePhrase(m), SaveFirst(m), SaveActive(id), SaveExists>>
           /\ next = "password"
        \/ /\ writes = <<SavePhrase(m), SaveFirst(m), SaveActive(id), SaveExists, SaveSalt, SaveHash>>
           /\ next = "home"
        \/ /\ writes = <<SaveFirst(m), SaveActive(id), SaveExists>>
           /\ next = "password" /\ store.mnemonic = m
        \/ /\ writes = <<SaveFirst(m), SaveActive(id), SaveExists, SaveSalt, SaveHash>>
           /\ next = "home" /\ store.mnemonic = m
        \/ /\ writes = <<SaveActive(id), SaveExists>>
           /\ next = "password" /\ store.mnemonic = m /\ store.accounts = <<Derived(m, 0)>>
        \/ /\ writes = <<SaveActive(id), SaveExists, SaveSalt, SaveHash>>
           /\ next = "home" /\ store.mnemonic = m /\ store.accounts = <<Derived(m, 0)>>
        \/ /\ writes = <<SaveExists>>
           /\ next = "password" /\ store.mnemonic = m /\ store.accounts = <<Derived(m, 0)>>
        \/ /\ writes = <<SaveExists, SaveSalt, SaveHash>>
           /\ next = "home" /\ store.mnemonic = m /\ store.accounts = <<Derived(m, 0)>>

\* savePasswordHash
SettingPassword ==
    \/ writes = <<SaveSalt, SaveHash>>
    \/ writes = <<SaveHash>> /\ store.salt = salts

\* clearWallet
Clearing ==
    \/ writes = clearWallet
    \/ /\ store.mnemonic = Null
       /\ \/ writes = <<Put("accounts", <<>>), Put("hash", 0), Put("salt", 0),
                        Put("exists", FALSE), Put("active", Null)>>
          \/ writes = <<Put("hash", 0), Put("salt", 0), Put("exists", FALSE), Put("active", Null)>>
          \/ /\ store.hash = 0
             /\ \/ writes = <<Put("salt", 0), Put("exists", FALSE), Put("active", Null)>>
                \/ writes = <<Put("exists", FALSE), Put("active", Null)>>
                \/ writes = <<Put("active", Null)>>

\* A new list of accounts, then the key of the new one, then the active one.
NewList(l) == GoodList(l) /\ (loadWallet => Whole(l, store.mnemonic))
Editing(a, id, l) ==
    LET S == store.imported \cup {id}
    IN  \/ writes = <<SaveActive(a)>> /\ Lost(store.accounts, store.imported, kills)
        \/ writes = <<Put("imported", S), SaveActive(a)>> /\ Lost(store.accounts, S, kills)
        \/ /\ Lost(store.accounts, store.imported, kills) /\ NewList(l)
           /\ \/ /\ writes \in {<<Put("accounts", l)>>, <<Put("accounts", l), SaveActive(a)>>}
                 /\ Lost(l, store.imported, kills)
              \/ /\ writes = <<Put("accounts", l), Put("imported", S), SaveActive(a)>>
                 /\ Lost(l, S, kills)

Pending ==
    \/ /\ Lost(store.accounts, store.imported, kills)
       /\ \/ /\ writes = <<>>
             /\ screen = "password" => store.hash = 0
             /\ screen \in {"password", "unlock"} => store.exists = TRUE
          \/ /\ store.exists = FALSE /\ store.hash = 0
             /\ \E m \in Mnemonic : Saving(m)
          \/ SettingPassword /\ store.exists = TRUE /\ store.hash = 0 /\ next = "home"
          \/ Clearing /\ next = "welcome"
    \/ next = "home" /\ \E a, id \in Id, l \in Seq(Account) : Editing(a, id, l)

WalletInv == StoreInv /\ Pending /\ salts \in Nat /\ kills \in Nat

\* What may be written next.
MayWrite(k, v) ==
    \/ k = "mnemonic" /\ (v = Null \/ (v \in Mnemonic /\ store.exists = FALSE))
    \/ k = "accounts" /\ NewList(v)
    \/ k = "active"
    \/ k = "exists" /\ v = FALSE /\ store.hash = 0
    \/ k = "exists" /\ v = TRUE /\ Whole(store.accounts, store.mnemonic)
    \/ k = "salt" /\ v \in Nat /\ store.hash = 0
    \/ k = "hash" /\ v = 0
    \/ k = "hash" /\ v \in Nat /\ v = store.salt /\ store.exists = TRUE
    \/ k = "imported"

Keys == {"mnemonic", "accounts", "active", "exists", "salt", "hash", "imported"}

\* A write changes one key.
LEMMA KeyWritten ==
    ASSUME StoreInv, Write, NEW k \in Keys, NEW v, Head(writes) = Put(k, v)
    PROVE  /\ DOMAIN store = Keys /\ DOMAIN store' = Keys /\ store'[k] = v
           /\ \A f \in Keys : f # k => store'[f] = store[f]
<1>1. Head(writes).key = k /\ Head(writes).value = v
  BY DEF Put
<1>2. DOMAIN store = Keys
  BY Zenon DEF StoreInv, Keys
<1> QED BY <1>1, <1>2, Zenon DEF Write

LEMMA StoreWritten ==
    ASSUME StoreInv, Write, NEW k, NEW v, Head(writes) = Put(k, v), MayWrite(k, v)
    PROVE  StoreInv'
<1>a. k \in Keys
  BY Zenon DEF MayWrite, Keys
<1>0. /\ DOMAIN store' = DOMAIN store /\ store'[k] = v
      /\ \A f \in DOMAIN store : f # k => store'[f] = store[f]
      /\ DOMAIN store = {"mnemonic", "accounts", "active", "exists", "salt", "hash", "imported"}
  BY <1>a, KeyWritten DEF Keys
<1>1. \A l, m : (GoodList(l)' <=> GoodList(l)) /\ (Whole(l, m)' <=> Whole(l, m))
  BY Zenon DEF GoodList, Whole, Write
<1>2. CASE k = "mnemonic" /\ (v = Null \/ (v \in Mnemonic /\ store.exists = FALSE))
  BY <1>0, <1>1, <1>2, Zenon DEF StoreInv, loadWallet, PasswordWorks, hasPassword
<1>3. CASE k = "accounts" /\ NewList(v)
  BY <1>0, <1>1, <1>3, Zenon DEF StoreInv, loadWallet, PasswordWorks, hasPassword, NewList
<1>4. CASE k \in {"active", "imported"}
  BY <1>0, <1>1, <1>4, Zenon DEF StoreInv, loadWallet, PasswordWorks, hasPassword
<1>5. CASE k = "exists" /\ v = FALSE /\ store.hash = 0
  BY <1>0, <1>1, <1>5, Zenon DEF StoreInv, loadWallet, PasswordWorks, hasPassword
<1>6. CASE k = "exists" /\ v = TRUE /\ Whole(store.accounts, store.mnemonic)
  BY <1>0, <1>1, <1>6, Zenon DEF StoreInv, loadWallet, PasswordWorks, hasPassword
<1>7. CASE k = "salt" /\ v \in Nat /\ store.hash = 0
  BY <1>0, <1>1, <1>7, Zenon DEF StoreInv, loadWallet, PasswordWorks, hasPassword
<1>8. CASE k = "hash" /\ v = 0
  BY <1>0, <1>1, <1>8 DEF StoreInv, loadWallet, PasswordWorks, hasPassword
<1>9. CASE k = "hash" /\ v \in Nat /\ v = store.salt /\ store.exists = TRUE
  BY <1>0, <1>1, <1>9, Zenon DEF StoreInv, loadWallet, PasswordWorks, hasPassword
<1> QED
  BY <1>2, <1>3, <1>4, <1>5, <1>6, <1>7, <1>8, <1>9, Zenon DEF MayWrite

\* The first account of a wallet.
LEMMA FirstAccount ==
    ASSUME NEW m \in Mnemonic
    PROVE  /\ <<Derived(m, 0)>> \in Seq(Account) /\ GoodList(<<Derived(m, 0)>>)
           /\ Whole(<<Derived(m, 0)>>, m) /\ Derived(m, 0).id \in Id
           /\ \A S : Missing(<<Derived(m, 0)>>, S) = {}
<1> DEFINE l == <<Derived(m, 0)>>
<1>1. Derived(m, 0).id = <<"account", 0>> /\ Derived(m, 0).key = m /\ Derived(m, 0) \in Account
  BY Zenon DEF Derived, Account, Id
<1>2. Len(l) = 1 /\ l[1] = Derived(m, 0) /\ l \in Seq(Account) /\ l # <<>>
  BY <1>1
<1> HIDE DEF l
<1>3. \A i \in 1..Len(l) : l[i].id = <<"account", 0>> /\ l[i].key = m /\ i = 1
  BY <1>1, <1>2
<1>4. GoodList(l) /\ Whole(l, m)
  BY <1>2, <1>3 DEF GoodList, Distinct, Numbered, Whole
<1>5. \A S : Missing(l, S) = {}
  BY <1>3 DEF Missing
<1> QED BY <1>1, <1>2, <1>4, <1>5 DEF l, Id

LEMMA NoAccount ==
    GoodList(<<>>) /\ \A S : Missing(<<>>, S) = {}
BY DEF GoodList, Distinct, Numbered, Missing

LEMMA NothingLost ==
    ASSUME NEW l, NEW S, Missing(l, S) = {}, NEW n \in Nat
    PROVE  Lost(l, S, n)
BY FS_EmptySet DEF Lost

\* One write of saveWallet.
LEMMA SavingWrite ==
    ASSUME WalletInv, Write, NEW m \in Mnemonic, Saving(m), store.exists = FALSE, store.hash = 0,
           Lost(store.accounts, store.imported, kills)
    PROVE  WalletInv'
<1> DEFINE id == Derived(m, 0).id
           l == <<Derived(m, 0)>>
<1>0. /\ UNCHANGED <<next, salts, kills, removed, renumbered>>
      /\ store' = [store EXCEPT ![Head(writes).key] = Head(writes).value]
      /\ writes' = Tail(writes)
      /\ screen' = IF Len(writes) = 1 THEN next ELSE screen
  BY Zenon DEF Write
<1>1. GoodList(l) /\ Whole(l, m) /\ id \in Id /\ \A S : Lost(l, S, kills)
  BY FirstAccount, NothingLost, Zenon DEF WalletInv
<1>2. StoreInv /\ salts \in Nat /\ kills \in Nat /\ ~ loadWallet
  BY Zenon DEF WalletInv, loadWallet
<1> HIDE DEF l
<1>3. CASE \/ writes = <<SavePhrase(m), SaveFirst(m), SaveActive(id), SaveExists>> /\ next = "password"
           \/ /\ writes = <<SavePhrase(m), SaveFirst(m), SaveActive(id), SaveExists, SaveSalt, SaveHash>>
              /\ next = "home"
  <2>1. Head(writes) = Put("mnemonic", m)
    BY <1>3 DEF SavePhrase
  <2>2. MayWrite("mnemonic", m)
    BY Zenon DEF MayWrite
  <2>3. StoreInv'
    BY <1>2, <2>1, <2>2, StoreWritten, Zenon
  <2>4. /\ store'.mnemonic = m /\ store'.accounts = store.accounts /\ store'.imported = store.imported
        /\ store'.exists = store.exists /\ store'.hash = store.hash
    BY <1>2, <2>1, KeyWritten, Zenon DEF Keys
  <2>5. \/ writes' = <<SaveFirst(m), SaveActive(id), SaveExists>> /\ next' = "password"
        \/ writes' = <<SaveFirst(m), SaveActive(id), SaveExists, SaveSalt, SaveHash>> /\ next' = "home"
    <3>1. CASE writes = <<SavePhrase(m), SaveFirst(m), SaveActive(id), SaveExists>> /\ next = "password"
      <4>1. writes' = <<SaveFirst(m), SaveActive(id), SaveExists>>
        BY <1>0, <3>1
      <4> QED BY <1>0, <3>1, <4>1, Zenon
    <3>2. CASE /\ writes = <<SavePhrase(m), SaveFirst(m), SaveActive(id), SaveExists, SaveSalt, SaveHash>>
               /\ next = "home"
      <4>1. writes' = <<SaveFirst(m), SaveActive(id), SaveExists, SaveSalt, SaveHash>>
        BY <1>0, <3>2
      <4> QED BY <1>0, <3>2, <4>1, Zenon
    <3> QED BY <1>3, <3>1, <3>2, Zenon
  <2>6. Saving(m)'
    BY <1>0, <2>4, <2>5, Zenon DEF Saving, SaveFirst, SaveActive, SaveExists, SaveSalt, SaveHash
  <2>7. Lost(store.accounts, store.imported, kills)'
    BY <1>0, <2>4, Zenon
  <2> QED
    BY <1>0, <1>2, <2>3, <2>4, <2>6, <2>7, Zenon DEF WalletInv, Pending

<1>4. CASE /\ store.mnemonic = m
           /\ \/ writes = <<SaveFirst(m), SaveActive(id), SaveExists>> /\ next = "password"
              \/ writes = <<SaveFirst(m), SaveActive(id), SaveExists, SaveSalt, SaveHash>> /\ next = "home"
  <2>1. Head(writes) = Put("accounts", l)
    BY <1>4 DEF SaveFirst, l
  <2>2. MayWrite("accounts", l)
    BY <1>1, <1>2, Zenon DEF MayWrite, NewList
  <2>3. StoreInv'
    BY <1>2, <2>1, <2>2, StoreWritten, Zenon
  <2>4. /\ store'.mnemonic = m /\ store'.accounts = l
        /\ store'.exists = store.exists /\ store'.hash = store.hash
    BY <1>2, <1>4, <2>1, KeyWritten, Zenon DEF Keys
  <2>5. \/ writes' = <<SaveActive(id), SaveExists>> /\ next' = "password"
        \/ writes' = <<SaveActive(id), SaveExists, SaveSalt, SaveHash>> /\ next' = "home"
    <3>1. CASE writes = <<SaveFirst(m), SaveActive(id), SaveExists>> /\ next = "password"
      <4>1. writes' = <<SaveActive(id), SaveExists>>
        BY <1>0, <3>1
      <4> QED BY <1>0, <3>1, <4>1, Zenon
    <3>2. CASE /\ writes = <<SaveFirst(m), SaveActive(id), SaveExists, SaveSalt, SaveHash>>
               /\ next = "home"
      <4>1. writes' = <<SaveActive(id), SaveExists, SaveSalt, SaveHash>>
        BY <1>0, <3>2
      <4> QED BY <1>0, <3>2, <4>1, Zenon
    <3> QED BY <1>4, <3>1, <3>2, Zenon
  <2>6. Saving(m)'
    BY <1>0, <2>4, <2>5, Zenon DEF Saving, SaveFirst, SaveActive, SaveExists, SaveSalt, SaveHash, l
  <2>7. Lost(store.accounts, store.imported, kills)'
    BY <1>0, <1>1, <2>4, Zenon
  <2> QED
    BY <1>0, <1>2, <2>3, <2>4, <2>6, <2>7, Zenon DEF WalletInv, Pending
<1>5. CASE /\ store.mnemonic = m /\ store.accounts = l
           /\ \/ writes = <<SaveActive(id), SaveExists>> /\ next = "password"
              \/ writes = <<SaveActive(id), SaveExists, SaveSalt, SaveHash>> /\ next = "home"
  <2>1. Head(writes) = Put("active", id)
    BY <1>5 DEF SaveActive
  <2>2. MayWrite("active", id)
    BY Zenon DEF MayWrite
  <2>3. StoreInv'
    BY <1>2, <2>1, <2>2, StoreWritten, Zenon
  <2>4. /\ store'.mnemonic = m /\ store'.accounts = l /\ store'.imported = store.imported
        /\ store'.exists = store.exists /\ store'.hash = store.hash
    BY <1>2, <1>5, <2>1, KeyWritten, Zenon DEF Keys
  <2>5. \/ writes' = <<SaveExists>> /\ next' = "password"
        \/ writes' = <<SaveExists, SaveSalt, SaveHash>> /\ next' = "home"
    <3>1. CASE writes = <<SaveActive(id), SaveExists>> /\ next = "password"
      <4>1. writes' = <<SaveExists>>
        BY <1>0, <3>1
      <4> QED BY <1>0, <3>1, <4>1, Zenon
    <3>2. CASE /\ writes = <<SaveActive(id), SaveExists, SaveSalt, SaveHash>>
               /\ next = "home"
      <4>1. writes' = <<SaveExists, SaveSalt, SaveHash>>
        BY <1>0, <3>2
      <4> QED BY <1>0, <3>2, <4>1, Zenon
    <3> QED BY <1>5, <3>1, <3>2, Zenon
  <2>6. Saving(m)'
    BY <1>0, <2>4, <2>5, Zenon DEF Saving, SaveFirst, SaveActive, SaveExists, SaveSalt, SaveHash, l
  <2>7. Lost(store.accounts, store.imported, kills)'
    BY <1>0, <1>5, <2>4, Zenon
  <2> QED
    BY <1>0, <1>2, <2>3, <2>4, <2>6, <2>7, Zenon DEF WalletInv, Pending
<1>6. CASE /\ store.mnemonic = m /\ store.accounts = l
           /\ \/ writes = <<SaveExists>> /\ next = "password"
              \/ writes = <<SaveExists, SaveSalt, SaveHash>> /\ next = "home"
  <2>0. Head(writes) = SaveExists
    BY <1>6
  <2>1. Head(writes) = Put("exists", TRUE)
    BY <2>0, Zenon DEF SaveExists
  <2>2. MayWrite("exists", TRUE)
    BY <1>1, <1>6, Zenon DEF MayWrite
  <2>3. StoreInv'
    BY <1>2, <2>1, <2>2, StoreWritten, Zenon
  <2>4. /\ store'.accounts = l /\ store'.imported = store.imported
        /\ store'.exists = TRUE /\ store'.hash = store.hash
    BY <1>2, <1>6, <2>1, KeyWritten, Zenon DEF Keys
  <2>5. Lost(store.accounts, store.imported, kills)'
    BY <1>0, <1>6, <2>4, Zenon
  <2>6. CASE writes = <<SaveExists>> /\ next = "password"
    <3>1. writes' = <<>>
      BY <1>0, <2>6
    <3> QED
      BY <1>0, <1>2, <2>3, <2>4, <2>5, <3>1, Zenon DEF WalletInv, Pending
  <2>7. CASE writes = <<SaveExists, SaveSalt, SaveHash>> /\ next = "home"
    <3>1. writes' = <<SaveSalt, SaveHash>> /\ next' = "home"
      BY <1>0, <2>7
    <3>2. SettingPassword'
      BY <1>0, <3>1, Zenon DEF SettingPassword, SaveSalt, SaveHash
    <3> QED
      BY <1>0, <1>2, <2>3, <2>4, <2>5, <3>1, <3>2, Zenon DEF WalletInv, Pending
  <2> QED BY <1>6, <2>6, <2>7, Zenon
<1> QED
  BY <1>3, <1>4, <1>5, <1>6, Zenon DEF Saving, l

\* One write of savePasswordHash.
LEMMA PasswordWrite ==
    ASSUME WalletInv, Write, SettingPassword, store.exists = TRUE, store.hash = 0, next = "home",
           Lost(store.accounts, store.imported, kills)
    PROVE  WalletInv'
<1>0. /\ UNCHANGED <<next, salts, kills>> /\ writes' = Tail(writes)
      /\ screen' = IF Len(writes) = 1 THEN next ELSE screen
  BY Zenon DEF Write
<1>1. StoreInv /\ salts \in Nat /\ kills \in Nat
  BY Zenon DEF WalletInv
<1>2. CASE writes = <<SaveSalt, SaveHash>>
  <2>1. Head(writes) = Put("salt", salts) /\ writes' = <<SaveHash>>
    BY <1>0, <1>2 DEF SaveSalt
  <2>2. StoreInv'
    BY <1>1, <2>1, StoreWritten, Zenon DEF MayWrite
  <2>3. /\ store'.salt = salts /\ store'.hash = store.hash /\ store'.exists = store.exists
        /\ store'.accounts = store.accounts /\ store'.imported = store.imported
    BY <1>1, <2>1, KeyWritten, Zenon DEF Keys
  <2>4. SettingPassword'
    BY <1>0, <2>1, <2>3, Zenon DEF SettingPassword, SaveHash
  <2> QED
    BY <1>0, <1>1, <2>2, <2>3, <2>4, Zenon DEF WalletInv, Pending
<1>3. CASE writes = <<SaveHash>> /\ store.salt = salts
  <2>1. Head(writes) = Put("hash", salts) /\ writes' = <<>> /\ screen' = "home"
    BY <1>0, <1>3 DEF SaveHash
  <2>2. MayWrite("hash", salts)
    BY <1>1, <1>3, Zenon DEF MayWrite
  <2>3. StoreInv'
    BY <1>1, <2>1, <2>2, StoreWritten, Zenon
  <2>4. store'.accounts = store.accounts /\ store'.imported = store.imported
    BY <1>1, <2>1, KeyWritten, Zenon DEF Keys
  <2> QED
    BY <1>0, <1>1, <2>1, <2>3, <2>4, Zenon DEF WalletInv, Pending
<1> QED BY <1>2, <1>3, Zenon DEF SettingPassword

\* One write of clearWallet.
LEMMA ClearingWrite ==
    ASSUME WalletInv, Write, Clearing, next = "welcome",
           Lost(store.accounts, store.imported, kills)
    PROVE  WalletInv'
<1> DEFINE A == Put("accounts", <<>>)
           H == Put("hash", 0)
           S == Put("salt", 0)
           E == Put("exists", FALSE)
           V == Put("active", Null)
<1>0. /\ UNCHANGED <<next, salts, kills>> /\ writes' = Tail(writes)
      /\ screen' = IF Len(writes) = 1 THEN next ELSE screen
  BY Zenon DEF Write
<1>1. StoreInv /\ salts \in Nat /\ kills \in Nat
  BY Zenon DEF WalletInv
<1>2. CASE writes = clearWallet
  <2>1. writes = <<Put("mnemonic", Null), A, H, S, E, V>>
    BY <1>2, Zenon DEF clearWallet
  <2> HIDE DEF A, H, S, E, V
  <2>2. Head(writes) = Put("mnemonic", Null) /\ writes' = <<A, H, S, E, V>>
    BY <1>0, <2>1
  <2>a. MayWrite("mnemonic", Null)
    BY Zenon DEF MayWrite
  <2>3. StoreInv'
    BY <1>1, <2>a, <2>2, StoreWritten, Zenon
  <2>4. store'.mnemonic = Null /\ store'.accounts = store.accounts /\ store'.imported = store.imported
    BY <1>1, <2>2, KeyWritten, Zenon DEF Keys
  <2>5. Clearing'
    BY <2>2, <2>4, Zenon DEF Clearing, A, H, S, E, V
  <2> QED
    BY <1>0, <1>1, <2>3, <2>4, <2>5, Zenon DEF WalletInv, Pending
<1>3. CASE store.mnemonic = Null /\ writes = <<A, H, S, E, V>>
  <2> HIDE DEF H, S, E, V
  <2>1. Head(writes) = Put("accounts", <<>>) /\ writes' = <<H, S, E, V>>
    BY <1>0, <1>3
  <2>2. MayWrite("accounts", <<>>)
    BY <1>3, NoAccount, Zenon DEF MayWrite, NewList, loadWallet
  <2>3. StoreInv'
    BY <1>1, <2>1, <2>2, StoreWritten, Zenon
  <2>4. store'.mnemonic = Null /\ store'.accounts = <<>>
    BY <1>1, <1>3, <2>1, KeyWritten, Zenon DEF Keys
  <2>5. Clearing'
    BY <2>1, <2>4, Zenon DEF Clearing, H, S, E, V
  <2>6. Lost(store'.accounts, store'.imported, kills')
    BY <1>0, <1>1, <2>4, NoAccount, NothingLost, Zenon
  <2> QED
    BY <1>0, <1>1, <2>3, <2>4, <2>5, <2>6, Zenon DEF WalletInv, Pending
<1>4. CASE store.mnemonic = Null /\ writes = <<H, S, E, V>>
  <2> HIDE DEF S, E, V
  <2>1. Head(writes) = Put("hash", 0) /\ writes' = <<S, E, V>>
    BY <1>0, <1>4
  <2>2. StoreInv'
    BY <1>1, <2>1, StoreWritten, Zenon DEF MayWrite
  <2>3. /\ store'.mnemonic = Null /\ store'.hash = 0
        /\ store'.accounts = store.accounts /\ store'.imported = store.imported
    BY <1>1, <1>4, <2>1, KeyWritten, Zenon DEF Keys
  <2>4. Clearing'
    BY <2>1, <2>3, Zenon DEF Clearing, S, E, V
  <2> QED
    BY <1>0, <1>1, <2>2, <2>3, <2>4, Zenon DEF WalletInv, Pending
<1>5. CASE store.mnemonic = Null /\ store.hash = 0 /\ writes = <<S, E, V>>
  <2> HIDE DEF E, V
  <2>1. Head(writes) = Put("salt", 0) /\ writes' = <<E, V>>
    BY <1>0, <1>5
  <2>a. MayWrite("salt", 0)
    BY <1>5, Zenon DEF MayWrite
  <2>2. StoreInv'
    BY <1>1, <2>1, <2>a, StoreWritten, Zenon
  <2>3. /\ store'.mnemonic = Null /\ store'.hash = 0
        /\ store'.accounts = store.accounts /\ store'.imported = store.imported
    BY <1>1, <1>5, <2>1, KeyWritten, Zenon DEF Keys
  <2>4. Clearing'
    BY <2>1, <2>3, Zenon DEF Clearing, E, V
  <2> QED
    BY <1>0, <1>1, <2>2, <2>3, <2>4, Zenon DEF WalletInv, Pending
<1>6. CASE store.mnemonic = Null /\ store.hash = 0 /\ writes = <<E, V>>
  <2> HIDE DEF V
  <2>1. Head(writes) = Put("exists", FALSE) /\ writes' = <<V>>
    BY <1>0, <1>6
  <2>2. MayWrite("exists", FALSE)
    BY <1>6, Zenon DEF MayWrite
  <2>3. StoreInv'
    BY <1>1, <2>1, <2>2, StoreWritten, Zenon
  <2>4. /\ store'.mnemonic = Null /\ store'.hash = 0
        /\ store'.accounts = store.accounts /\ store'.imported = store.imported
    BY <1>1, <1>6, <2>1, KeyWritten, Zenon DEF Keys
  <2>5. Clearing'
    BY <2>1, <2>4, Zenon DEF Clearing, V
  <2> QED
    BY <1>0, <1>1, <2>3, <2>4, <2>5, Zenon DEF WalletInv, Pending
<1>7. CASE writes = <<V>>
  <2>1. Head(writes) = Put("active", Null) /\ writes' = <<>> /\ screen' = "welcome"
    BY <1>0, <1>7
  <2>2. StoreInv'
    BY <1>1, <2>1, StoreWritten, Zenon DEF MayWrite
  <2>3. store'.accounts = store.accounts /\ store'.imported = store.imported
    BY <1>1, <2>1, KeyWritten, Zenon DEF Keys
  <2> QED
    BY <1>0, <1>1, <2>1, <2>2, <2>3, Zenon DEF WalletInv, Pending
<1> QED BY <1>2, <1>3, <1>4, <1>5, <1>6, <1>7, Zenon DEF Clearing

\* A stored key more, an account less: no more keys are missing.
LEMMA FewerLost ==
    ASSUME NEW l, NEW S, NEW k, NEW T, NEW n \in Nat, Lost(l, S, n), Missing(k, T) \subseteq Missing(l, S)
    PROVE  Lost(k, T, n)
<1>1. IsFiniteSet(Missing(k, T)) /\ Cardinality(Missing(k, T)) <= Cardinality(Missing(l, S))
  BY FS_Subset, Zenon DEF Lost
<1>2. Cardinality(Missing(k, T)) \in Nat /\ Cardinality(Missing(l, S)) \in Nat
  BY <1>1, FS_CardinalityType, Zenon DEF Lost
<1> QED BY <1>1, <1>2 DEF Lost

\* A key that is not stored is one more that is missing.
LEMMA OneMoreLost ==
    ASSUME NEW l, NEW S, NEW id, NEW n \in Nat, Lost(l, S \cup {id}, n)
    PROVE  Lost(l, S, n + 1)
<1> DEFINE M == Missing(l, S \cup {id})
<1>1. Missing(l, S) \subseteq M \cup {id}
  BY Zenon DEF Missing
<1>2. IsFiniteSet(M) /\ Cardinality(M) <= n /\ Cardinality(M) \in Nat
  BY FS_CardinalityType, Zenon DEF Lost
<1> HIDE DEF M
<1>a. /\ IsFiniteSet(M \cup {id})
      /\ Cardinality(M \cup {id}) = IF id \in M THEN Cardinality(M) ELSE Cardinality(M) + 1
  BY <1>2, FS_AddElement, Zenon
<1>3. IsFiniteSet(M \cup {id}) /\ Cardinality(M \cup {id}) <= n + 1 /\ Cardinality(M \cup {id}) \in Nat
  BY <1>2, <1>a
<1>4. IsFiniteSet(Missing(l, S)) /\ Cardinality(Missing(l, S)) <= Cardinality(M \cup {id})
  BY <1>1, <1>3, FS_Subset, Zenon
<1>5. Cardinality(Missing(l, S)) \in Nat
  BY <1>4, FS_CardinalityType, Zenon
<1> QED BY <1>3, <1>4, <1>5 DEF Lost

\* One write of an operation on the list of accounts.
LEMMA EditingWrite ==
    ASSUME WalletInv, Write, NEW a \in Id, NEW id \in Id, NEW l \in Seq(Account), Editing(a, id, l),
           next = "home"
    PROVE  WalletInv'
<1> DEFINE S == store.imported \cup {id}
           V == SaveActive(a)
<1>0. /\ UNCHANGED <<next, salts, kills>> /\ writes' = Tail(writes)
      /\ screen' = IF Len(writes) = 1 THEN next ELSE screen
  BY Zenon DEF Write
<1>1. StoreInv /\ salts \in Nat /\ kills \in Nat
  BY Zenon DEF WalletInv
<1>2. ASSUME Editing(a, id, l)', StoreInv' PROVE WalletInv'
  BY <1>0, <1>1, <1>2, Zenon DEF WalletInv, Pending
<1>3. ASSUME StoreInv', writes' = <<>>, screen' = "home",
             Lost(store'.accounts, store'.imported, kills')
      PROVE  WalletInv'
  BY <1>0, <1>1, <1>3, Zenon DEF WalletInv, Pending
<1> HIDE DEF S, V
<1>4. CASE writes = <<V>> /\ Lost(store.accounts, store.imported, kills)
  <2>1. Head(writes) = Put("active", a) /\ writes' = <<>> /\ screen' = "home"
    BY <1>0, <1>4 DEF V, SaveActive
  <2>2. MayWrite("active", a)
    BY Zenon DEF MayWrite
  <2>3. store'.accounts = store.accounts /\ store'.imported = store.imported
    BY <1>1, <2>1, KeyWritten, Zenon DEF Keys
  <2> QED BY <1>0, <1>1, <1>3, <1>4, <2>1, <2>2, <2>3, StoreWritten, Zenon
<1>5. CASE writes = <<Put("imported", S), V>> /\ Lost(store.accounts, S, kills)
  <2>1. Head(writes) = Put("imported", S) /\ writes' = <<V>>
    BY <1>0, <1>5
  <2>2. MayWrite("imported", S)
    BY Zenon DEF MayWrite
  <2>3. store'.accounts = store.accounts /\ store'.imported = S
    BY <1>1, <2>1, KeyWritten, Zenon DEF Keys
  <2>4. Editing(a, id, l)'
    BY <1>0, <1>5, <2>1, <2>3, Zenon DEF Editing, V, SaveActive
  <2> QED BY <1>1, <1>2, <2>1, <2>2, <2>4, StoreWritten, Zenon
<1>6. CASE /\ Lost(store.accounts, store.imported, kills) /\ NewList(l)
           /\ writes = <<Put("accounts", l)>> /\ Lost(l, store.imported, kills)
  <2>1. Head(writes) = Put("accounts", l) /\ writes' = <<>> /\ screen' = "home"
    BY <1>0, <1>6
  <2>2. MayWrite("accounts", l)
    BY <1>6, Zenon DEF MayWrite
  <2>3. store'.accounts = l /\ store'.imported = store.imported
    BY <1>1, <2>1, KeyWritten, Zenon DEF Keys
  <2> QED BY <1>0, <1>1, <1>3, <1>6, <2>1, <2>2, <2>3, StoreWritten, Zenon
<1>7. CASE /\ Lost(store.accounts, store.imported, kills) /\ NewList(l)
           /\ writes = <<Put("accounts", l), V>> /\ Lost(l, store.imported, kills)
  <2>1. Head(writes) = Put("accounts", l) /\ writes' = <<V>>
    BY <1>0, <1>7
  <2>2. MayWrite("accounts", l)
    BY <1>7, Zenon DEF MayWrite
  <2>3. store'.accounts = l /\ store'.imported = store.imported
    BY <1>1, <2>1, KeyWritten, Zenon DEF Keys
  <2>4. Editing(a, id, l)'
    BY <1>0, <1>7, <2>1, <2>3, Zenon DEF Editing, V, SaveActive
  <2> QED BY <1>1, <1>2, <2>1, <2>2, <2>4, StoreWritten, Zenon
<1>8. CASE /\ Lost(store.accounts, store.imported, kills) /\ NewList(l)
           /\ writes = <<Put("accounts", l), Put("imported", S), V>> /\ Lost(l, S, kills)
  <2>1. Head(writes) = Put("accounts", l) /\ writes' = <<Put("imported", S), V>>
    BY <1>0, <1>8
  <2>2. MayWrite("accounts", l)
    BY <1>8, Zenon DEF MayWrite
  <2>3. store'.accounts = l /\ store'.imported = store.imported
    BY <1>1, <2>1, KeyWritten, Zenon DEF Keys
  <2>4. Editing(a, id, l)'
    BY <1>0, <1>8, <2>1, <2>3, Zenon DEF Editing, S, V, SaveActive
  <2> QED BY <1>1, <1>2, <2>1, <2>2, <2>4, StoreWritten, Zenon
<1> QED BY <1>4, <1>5, <1>6, <1>7, <1>8, Zenon DEF Editing, S, V

\* A write, whatever the operation.
LEMMA WriteKeeps ==
    ASSUME WalletInv, Write
    PROVE  WalletInv'
<1>1. CASE writes = <<>>
  BY <1>1, Zenon DEF Write
<1>2. CASE /\ Lost(store.accounts, store.imported, kills)
           /\ store.exists = FALSE /\ store.hash = 0 /\ \E m \in Mnemonic : Saving(m)
  BY <1>2, SavingWrite, Zenon
<1>3. CASE /\ Lost(store.accounts, store.imported, kills)
           /\ SettingPassword /\ store.exists = TRUE /\ store.hash = 0 /\ next = "home"
  BY <1>3, PasswordWrite, Zenon
<1>4. CASE Lost(store.accounts, store.imported, kills) /\ Clearing /\ next = "welcome"
  BY <1>4, ClearingWrite, Zenon
<1>5. CASE next = "home" /\ \E a, id \in Id, l \in Seq(Account) : Editing(a, id, l)
  BY <1>5, EditingWrite, Zenon
<1> QED BY <1>1, <1>2, <1>3, <1>4, <1>5, Zenon DEF WalletInv, Pending
-----------------------------------------------------------------------------
(* The screens start an operation *)

LEMMA RestFacts ==
    ASSUME WalletInv, writes = <<>>
    PROVE  /\ StoreInv /\ Lost(store.accounts, store.imported, kills)
           /\ screen = "password" => store.hash = 0
           /\ screen \in {"password", "unlock"} => store.exists = TRUE
<1>1. /\ \A m : ~ Saving(m)
      /\ ~ SettingPassword /\ ~ Clearing /\ \A a, id, l : ~ Editing(a, id, l)
  BY Zenon DEF Saving, SettingPassword, Clearing, clearWallet, Editing
<1> QED BY <1>1, Zenon DEF WalletInv, Pending

\* What the histories add does not disturb the store.
LEMMA SameStore ==
    ASSUME StoreInv, store' = store, renumbered => renumbered', removed => removed'
    PROVE  StoreInv'
BY Zenon DEF StoreInv, GoodList, Whole, loadWallet, PasswordWorks, hasPassword

\* The end of a kill, of a switch and of whatever starts with an empty list of writes.
LEMMA AtRest ==
    ASSUME StoreInv', salts' \in Nat, kills' \in Nat, writes' = <<>>,
           Lost(store'.accounts, store'.imported, kills'),
           screen' = "password" => store'.hash = 0,
           screen' \in {"password", "unlock"} => store'.exists = TRUE
    PROVE  WalletInv'
BY Zenon DEF WalletInv, Pending

\* Sequences with the same elements.
LEMMA SameSequence ==
    ASSUME NEW S, NEW u \in Seq(S), NEW v \in Seq(S), Len(v) = Len(u), \A i \in 1..Len(u) : v[i] = u[i]
    PROVE  v = u
OBVIOUS

\* Two sequences one after the other.
LEMMA Join ==
    ASSUME NEW S, NEW s \in Seq(S), NEW t \in Seq(S), NEW u \in Seq(S), Len(u) = Len(s) + Len(t),
           \A i \in 1..Len(s) : u[i] = s[i], \A i \in 1..Len(t) : u[Len(s) + i] = t[i]
    PROVE  s \o t = u
<1>1. s \o t \in Seq(S) /\ Len(s \o t) = Len(u)
  OBVIOUS
<1>2. ASSUME NEW i \in 1..Len(u) PROVE (s \o t)[i] = u[i]
  <2>0. Len(s) \in Nat /\ Len(t) \in Nat /\ i \in Int
    OBVIOUS
  <2>1. CASE i <= Len(s)
    BY <2>0, <2>1
  <2>2. CASE i > Len(s)
    <3>1. i - Len(s) \in 1..Len(t) /\ Len(s) + (i - Len(s)) = i
      BY <2>0, <2>2
    <3>2. (s \o t)[i] = t[i - Len(s)]
      BY <2>0, <2>2
    <3> QED BY <3>1, <3>2, Zenon
  <2> QED BY <2>0, <2>1, <2>2
<1> DEFINE v == s \o t
<1>3. v \in Seq(S) /\ Len(v) = Len(u) /\ \A i \in 1..Len(u) : v[i] = u[i]
  BY <1>1, <1>2, Zenon
<1> HIDE DEF v
<1>4. v = u
  BY <1>3, SameSequence, Zenon
<1> QED BY <1>4, Zenon DEF v

LEMMA JoinOne ==
    ASSUME NEW a, NEW b
    PROVE  <<a>> \o <<b>> = <<a, b>>
<1> DEFINE S == {a, b}
           s == <<a>>
           t == <<b>>
           u == <<a, b>>
<1>1. s \in Seq(S) /\ t \in Seq(S) /\ u \in Seq(S) /\ Len(s) = 1 /\ Len(t) = 1 /\ Len(u) = 2
  OBVIOUS
<1>2. s[1] = a /\ t[1] = b /\ u[1] = a /\ u[2] = b
  BY Zenon
<1> HIDE DEF S, s, t, u
<1>3. Len(u) = Len(s) + Len(t) /\ (\A i \in 1..Len(s) : u[i] = s[i]) /\ \A i \in 1..Len(t) : u[Len(s) + i] = t[i]
  BY <1>1, <1>2
<1>4. s \o t = u
  BY <1>1, <1>3, Join, Zenon
<1> QED BY <1>4, Zenon DEF s, t, u

LEMMA JoinTwo ==
    ASSUME NEW a, NEW b, NEW c
    PROVE  <<a, b>> \o <<c>> = <<a, b, c>>
<1> DEFINE S == {a, b, c}
           s == <<a, b>>
           t == <<c>>
           u == <<a, b, c>>
<1>1. s \in Seq(S) /\ t \in Seq(S) /\ u \in Seq(S) /\ Len(s) = 2 /\ Len(t) = 1 /\ Len(u) = 3
  OBVIOUS
<1>2. s[1] = a /\ s[2] = b /\ t[1] = c /\ u[1] = a /\ u[2] = b /\ u[3] = c
  BY Zenon
<1> HIDE DEF S, s, t, u
<1>3. Len(u) = Len(s) + Len(t) /\ (\A i \in 1..Len(s) : u[i] = s[i]) /\ \A i \in 1..Len(t) : u[Len(s) + i] = t[i]
  BY <1>1, <1>2
<1>4. s \o t = u
  BY <1>1, <1>3, Join, Zenon
<1> QED BY <1>4, Zenon DEF s, t, u

LEMMA JoinFour ==
    ASSUME NEW a, NEW b, NEW c, NEW d, NEW e, NEW f
    PROVE  <<a, b, c, d>> \o <<e, f>> = <<a, b, c, d, e, f>>
<1> DEFINE S == {a, b, c, d, e, f}
           s == <<a, b, c, d>>
           t == <<e, f>>
           u == <<a, b, c, d, e, f>>
<1>1. s \in Seq(S) /\ t \in Seq(S) /\ u \in Seq(S) /\ Len(s) = 4 /\ Len(t) = 2 /\ Len(u) = 6
  OBVIOUS
<1>2. /\ s[1] = a /\ s[2] = b /\ s[3] = c /\ s[4] = d /\ t[1] = e /\ t[2] = f
      /\ u[1] = a /\ u[2] = b /\ u[3] = c /\ u[4] = d /\ u[5] = e /\ u[6] = f
  BY Zenon
<1> HIDE DEF S, s, t, u
<1>3. Len(u) = Len(s) + Len(t) /\ (\A i \in 1..Len(s) : u[i] = s[i]) /\ \A i \in 1..Len(t) : u[Len(s) + i] = t[i]
  BY <1>1, <1>2
<1>4. s \o t = u
  BY <1>1, <1>3, Join, Zenon
<1> QED BY <1>4, Zenon DEF s, t, u

\* The list with one account more.
LEMMA Appended ==
    ASSUME NEW l \in Seq(Account), NEW acc \in Account
    PROVE  LET r == Append(l, acc)
           IN  /\ r \in Seq(Account) /\ r # <<>>
               /\ (Distinct(l) /\ acc.id \notin {l[i].id : i \in 1..Len(l)}) => Distinct(r)
               /\ (Numbered(l) /\ (acc.id[1] = "account" => acc.id[2] = Len(l))) => Numbered(r)
               /\ \A m : (acc.key \in {m, Null} /\ \A i \in 1..Len(l) : l[i].key \in {m, Null})
                             => \A i \in 1..Len(r) : r[i].key \in {m, Null}
               /\ \A S : Missing(r, S \cup {acc.id}) \subseteq Missing(l, S)
               /\ acc.id[1] # "key" => \A S : Missing(r, S) \subseteq Missing(l, S)
<1> DEFINE r == Append(l, acc)
           n == Len(l)
<1>1. /\ r \in Seq(Account) /\ Len(r) = n + 1 /\ r[n + 1] = acc /\ n \in Nat
      /\ \A i \in 1..n : r[i] = l[i]
  OBVIOUS
<1> HIDE DEF r
<1>2. r # <<>>
  BY <1>1
<1>3. \A i \in 1..Len(r) : i \in 1..n \/ i = n + 1
  BY <1>1
<1>4. ASSUME Distinct(l), acc.id \notin {l[i].id : i \in 1..n} PROVE Distinct(r)
  BY <1>1, <1>3, <1>4 DEF Distinct
<1>5. ASSUME Numbered(l), acc.id[1] = "account" => acc.id[2] = n PROVE Numbered(r)
  <2> SUFFICES ASSUME NEW i \in 1..Len(r), r[i].id[1] = "account" PROVE r[i].id[2] < n + 1
    BY <1>1, Zenon DEF Numbered
  <2>1. CASE i \in 1..n
    <3>1. l[i] \in Account /\ l[i].id[1] = "account"
      BY <1>1, <2>1
    <3>2. l[i].id[2] \in Nat /\ l[i].id[2] < n
      BY <1>5, <2>1, <3>1, Zenon DEF Account, Id, Numbered
    <3> QED BY <1>1, <2>1, <3>2
  <2>2. CASE i = n + 1
    BY <1>1, <1>5, <2>2
  <2> QED BY <1>3, <2>1, <2>2, Zenon
<1>6. ASSUME NEW m, acc.key \in {m, Null}, \A i \in 1..n : l[i].key \in {m, Null}
      PROVE  \A i \in 1..Len(r) : r[i].key \in {m, Null}
  BY <1>1, <1>3, <1>6, Zenon
<1>7. {r[i].id : i \in 1..Len(r)} \subseteq {l[i].id : i \in 1..n} \cup {acc.id}
  BY <1>1, <1>3, Zenon
<1>8. \A S : Missing(r, S \cup {acc.id}) \subseteq Missing(l, S)
  BY <1>7, Zenon DEF Missing
<1>9. ASSUME acc.id[1] # "key" PROVE \A S : Missing(r, S) \subseteq Missing(l, S)
  BY <1>7, <1>9, Zenon DEF Missing
<1> QED BY <1>1, <1>2, <1>4, <1>5, <1>6, <1>8, <1>9 DEF r

\* The list without an account.
LEMMA Filtered ==
    ASSUME NEW l \in Seq(Account), NEW id, NEW r \in Without(l, id)
    PROVE  /\ r \in Seq(Account)
           /\ Distinct(l) => Distinct(r)
           /\ (Distinct(l) /\ Len(l) > 1) => r # <<>>
           /\ \A m : (\A i \in 1..Len(l) : l[i].key \in {m, Null})
                         => \A i \in 1..Len(r) : r[i].key \in {m, Null}
           /\ \A S : Missing(r, S) \subseteq Missing(l, S)
<1> DEFINE kept == {i \in 1..Len(l) : l[i].id # id}
           n == Cardinality(kept)
<1>0. DOMAIN l = 1..Len(l) /\ Len(l) \in Nat
  OBVIOUS
<1>1. IsFiniteSet(kept) /\ n \in Nat
  <2>1. IsFiniteSet(1..Len(l)) /\ kept \subseteq 1..Len(l)
    BY <1>0, FS_Interval
  <2>2. IsFiniteSet(kept)
    BY <2>1, FS_Subset, Zenon
  <2> QED BY <2>2, FS_CardinalityType, Zenon
<1>2. PICK f \in [1..n -> kept] :
        /\ \A i, j \in 1..n : i < j => f[i] < f[j]
        /\ r = [i \in 1..n |-> l[f[i]]]
  <2>1. PICK f \in {g \in [1..n -> kept] : \A i, j \in DOMAIN g : i < j => g[i] < g[j]} :
          r = [i \in DOMAIN f |-> l[f[i]]]
    BY <1>0, Zenon DEF Without
  <2> QED BY <2>1, Zenon
<1> HIDE DEF n
<1>3. \A i \in 1..n : f[i] \in 1..Len(l) /\ r[i] = l[f[i]] /\ r[i] \in Account
  BY <1>0, <1>2
<1>4. r \in Seq(Account) /\ Len(r) = n
  BY <1>1, <1>2, <1>3
<1>5. ASSUME Distinct(l) PROVE Distinct(r)
  <2> SUFFICES ASSUME NEW i \in 1..n, NEW j \in 1..n, r[i].id = r[j].id PROVE i = j
    BY <1>4, Zenon DEF Distinct
  <2>1. f[i] = f[j] /\ f[i] \in Int
    BY <1>3, <1>5 DEF Distinct
  <2>2. ~ (i < j) /\ ~ (j < i)
    BY <1>2, <2>1
  <2> QED BY <1>1, <2>2
<1>6. ASSUME Distinct(l), Len(l) > 1 PROVE r # <<>>
  <2>1. 1 \in 1..Len(l) /\ 2 \in 1..Len(l)
    BY <1>0, <1>6
  <2>2. l[1].id # l[2].id
    BY <1>6, <2>1 DEF Distinct
  <2>3. kept # {}
    BY <2>1, <2>2, Zenon
  <2>4. n # 0
    BY <1>1, <2>3, FS_EmptySet, Zenon DEF n
  <2> QED BY <1>4, <2>4
<1>7. ASSUME NEW m, \A i \in 1..Len(l) : l[i].key \in {m, Null}
      PROVE  \A i \in 1..Len(r) : r[i].key \in {m, Null}
  BY <1>3, <1>4, <1>7, Zenon
<1>8. \A S : Missing(r, S) \subseteq Missing(l, S)
  BY <1>3, <1>4 DEF Missing
<1> QED BY <1>4, <1>5, <1>6, <1>7, <1>8, Zenon

\* A step of a screen that starts an operation.
LEMMA Started ==
    ASSUME WalletInv, NEW from, NEW ops, NEW to, Start(from, ops, to),
           renumbered => renumbered', removed => removed', salts' \in Nat
    PROVE  /\ StoreInv' /\ salts' \in Nat /\ kills' \in Nat /\ screen = from /\ writes = <<>>
           /\ writes' = ops /\ next' = to /\ UNCHANGED <<store, screen, kills>>
           /\ Lost(store'.accounts, store'.imported, kills')
<1>1. /\ writes' = ops /\ next' = to /\ UNCHANGED <<store, screen, kills>>
      /\ writes = <<>> /\ screen = from
  BY Zenon DEF Start
<1>2. StoreInv' /\ kills' \in Nat
  BY <1>1, SameStore, Zenon DEF WalletInv
<1>3. Lost(store.accounts, store.imported, kills)
  BY <1>1, RestFacts, Zenon
<1> QED BY <1>1, <1>2, <1>3, Zenon

\* dompet-siap and impor-dompet
LEMMA NewWallet ==
    ASSUME WalletInv, NEW m \in Mnemonic, handleOpen(m) \/ handleImport(m)
    PROVE  WalletInv'
<1>0. salts \in Nat /\ StoreInv
  BY Zenon DEF WalletInv
<1>1. store.exists = FALSE /\ store.hash = 0
  BY <1>0, Zenon DEF StoreInv, handleOpen, handleImport, hasWallet
<1>2. CASE handleOpen(m)
  <2>1. Start("welcome", saveWallet(m) \o savePasswordHash, "home")
        /\ salts' = salts + 1 /\ UNCHANGED <<removed, renumbered>>
    BY <1>2, Zenon DEF handleOpen
  <2>2. /\ StoreInv' /\ salts' \in Nat /\ kills' \in Nat /\ store' = store
        /\ writes' = saveWallet(m) \o savePasswordHash /\ next' = "home"
        /\ Lost(store'.accounts, store'.imported, kills')
    <3>1. salts' \in Nat /\ renumbered' = renumbered /\ removed' = removed
      BY <1>0, <2>1
    <3>2. PICK ops : ops = saveWallet(m) \o savePasswordHash
      BY Zenon
    <3>3. Start("welcome", ops, "home")
      BY <2>1, <3>2, Zenon
    <3>4. /\ StoreInv' /\ kills' \in Nat /\ store' = store /\ writes' = ops /\ next' = "home"
          /\ Lost(store'.accounts, store'.imported, kills')
      BY <3>1, <3>3, Started, Zenon
    <3> QED BY <3>1, <3>2, <3>4, Zenon
  <2>3. saveWallet(m) = <<SavePhrase(m), SaveFirst(m), SaveActive(Derived(m, 0).id), SaveExists>>
    BY Zenon DEF saveWallet, SavePhrase, SaveFirst, SaveActive, SaveExists
  <2>4. savePasswordHash = <<SaveSalt', SaveHash'>>
    BY <2>1, Zenon DEF savePasswordHash, SaveSalt, SaveHash
  <2>5. writes' = <<SavePhrase(m), SaveFirst(m), SaveActive(Derived(m, 0).id), SaveExists, SaveSalt', SaveHash'>>
    BY <2>2, <2>3, <2>4, JoinFour
  <2>6. Saving(m)'
    BY <2>2, <2>5, Zenon DEF Saving, SavePhrase, SaveFirst, SaveActive, SaveExists
  <2> QED BY <1>1, <2>2, <2>6, Zenon DEF WalletInv, Pending
<1>3. CASE handleImport(m)
  <2>1. Start("welcome", saveWallet(m), "password") /\ UNCHANGED <<salts, removed, renumbered>>
    BY <1>3, Zenon DEF handleImport
  <2>2. /\ StoreInv' /\ salts' \in Nat /\ kills' \in Nat /\ store' = store
        /\ writes' = saveWallet(m) /\ next' = "password"
        /\ Lost(store'.accounts, store'.imported, kills')
    BY <1>0, <2>1, Started, Zenon
  <2>3. Saving(m)'
    BY <2>2, Zenon DEF Saving, saveWallet, SavePhrase, SaveFirst, SaveActive, SaveExists
  <2> QED BY <1>1, <2>2, <2>3, Zenon DEF WalletInv, Pending
<1> QED BY <1>2, <1>3, Zenon

\* set-password-only, unlock and the two resets
LEMMA Locked ==
    ASSUME WalletInv, handleSave \/ handleUnlock \/ handleReset("unlock") \/ handleReset("home")
    PROVE  WalletInv'
<1>0. salts \in Nat /\ kills \in Nat /\ StoreInv
  BY Zenon DEF WalletInv
<1>1. CASE handleSave
  <2>1. Start("password", savePasswordHash, "home") /\ salts' = salts + 1 /\ UNCHANGED <<removed, renumbered>>
    BY <1>1, Zenon DEF handleSave
  <2>2. /\ StoreInv' /\ salts' \in Nat /\ kills' \in Nat /\ store' = store
        /\ writes' = savePasswordHash /\ next' = "home" /\ screen = "password" /\ writes = <<>>
        /\ Lost(store'.accounts, store'.imported, kills')
    BY <1>0, <2>1, Started
  <2>3. store.exists = TRUE /\ store.hash = 0
    BY <2>2, RestFacts, Zenon
  <2>4. SettingPassword'
    BY <2>1, <2>2, Zenon DEF SettingPassword, savePasswordHash, SaveSalt, SaveHash
  <2> QED BY <2>2, <2>3, <2>4, Zenon DEF WalletInv, Pending
<1>2. CASE handleUnlock
  <2>1. /\ writes = <<>> /\ screen = "unlock" /\ UNCHANGED <<store, writes, next, salts, kills, removed, renumbered>>
        /\ \/ store.hash = 0 /\ screen' = "password"
           \/ screen' = "home"
    BY <1>2, Zenon DEF handleUnlock, hasPassword
  <2>2. store.exists = TRUE /\ Lost(store.accounts, store.imported, kills)
    BY <2>1, RestFacts, Zenon
  <2>3. StoreInv'
    BY <1>0, <2>1, SameStore, Zenon
  <2> QED BY <1>0, <2>1, <2>2, <2>3, AtRest, Zenon
<1>3. ASSUME NEW from, handleReset(from) PROVE WalletInv'
  <2>1. Start(from, clearWallet, "welcome") /\ UNCHANGED <<salts, removed, renumbered>>
    BY <1>3, Zenon DEF handleReset
  <2>2. /\ StoreInv' /\ salts' \in Nat /\ kills' \in Nat /\ store' = store
        /\ writes' = clearWallet /\ next' = "welcome"
        /\ Lost(store'.accounts, store'.imported, kills')
    BY <1>0, <2>1, Started, Zenon
  <2>3. Clearing'
    BY <2>2, Zenon DEF Clearing, clearWallet
  <2> QED BY <2>2, <2>3, Zenon DEF WalletInv, Pending
<1> QED BY <1>1, <1>2, <1>3, Zenon

\* An edit of the list that may start.
LEMMA EditStarts ==
    ASSUME StoreInv', salts' \in Nat, kills' \in Nat, next' = "home",
           NEW a \in Id, NEW id \in Id, NEW l \in Seq(Account), Editing(a, id, l)'
    PROVE  WalletInv'
BY Zenon DEF WalletInv, Pending

\* buat-akun
LEMMA Created ==
    ASSUME WalletInv, handleCreate
    PROVE  WalletInv'
<1> DEFINE n == Len(store.accounts)
<1>a. PICK acc : acc = Derived(store.mnemonic, n)
  BY Zenon
<1>b. PICK l : l = Append(store.accounts, acc)
  BY Zenon
<1>0. salts \in Nat /\ StoreInv /\ loadWallet /\ store.mnemonic \in Mnemonic
  BY Zenon DEF WalletInv, handleCreate, StoreInv, loadWallet
<1>1. /\ Start("home", addAccount(acc) \o setActiveAccount(acc.id), "home")
      /\ renumbered' = (renumbered \/ removed) /\ salts' = salts /\ removed' = removed
  BY <1>a, Zenon DEF handleCreate
<1>2. GoodList(store.accounts) /\ Whole(store.accounts, store.mnemonic) /\ n \in Nat
  BY <1>0 DEF StoreInv, GoodList
<1>3. acc \in Account /\ acc.id = <<"account", n>> /\ acc.key = store.mnemonic /\ acc.id \in Id
  BY <1>0, <1>a, <1>2, Zenon DEF Derived, Account, Id
<1>4. acc.id[1] = "account" /\ acc.id[2] = n
  BY <1>3
<1>5. /\ StoreInv' /\ salts' \in Nat /\ kills' \in Nat /\ store' = store
      /\ writes' = addAccount(acc) \o setActiveAccount(acc.id) /\ next' = "home"
      /\ Lost(store'.accounts, store'.imported, kills')
  BY <1>0, <1>1, Started, Zenon
<1>6. writes' = <<Put("accounts", l), SaveActive(acc.id)>>
  BY <1>b, <1>5, JoinOne, Zenon DEF addAccount, setActiveAccount, SaveActive
<1>7. /\ l \in Seq(Account) /\ l # <<>>
      /\ (Distinct(store.accounts) /\ acc.id \notin {store.accounts[i].id : i \in 1..n}) => Distinct(l)
      /\ Numbered(store.accounts) => Numbered(l)
      /\ \A i \in 1..Len(l) : l[i].key \in {store.mnemonic, Null}
      /\ \A S : Missing(l, S) \subseteq Missing(store.accounts, S)
  BY <1>b, <1>2, <1>3, <1>4, Appended, Zenon DEF GoodList, Whole
<1>8. GoodList(l)'
  <2>1. ASSUME ~ renumbered' PROVE Distinct(l)
    <3>1. ~ renumbered /\ ~ removed
      BY <1>1, <2>1, Zenon
    <3>2. Distinct(store.accounts) /\ Numbered(store.accounts) /\ store.accounts \in Seq(Account)
      BY <1>2, <3>1, Zenon DEF GoodList
    <3>3. \A i \in 1..n : store.accounts[i].id # acc.id
      <4> SUFFICES ASSUME NEW i \in 1..n, store.accounts[i].id = acc.id PROVE FALSE
        BY Zenon
      <4>1. store.accounts[i].id[1] = "account" /\ store.accounts[i].id[2] = n
        BY <1>4, Zenon
      <4>2. n < n
        BY <3>2, <4>1, Zenon DEF Numbered
      <4> QED BY <1>2, <4>2
    <3> QED BY <1>7, <3>2, <3>3, Zenon
  <2>2. ASSUME ~ removed' PROVE Numbered(l)
    BY <1>1, <1>2, <1>7, <2>2, Zenon DEF GoodList
  <2> QED BY <1>7, <2>1, <2>2, Zenon DEF GoodList
<1>9. NewList(l)'
  BY <1>5, <1>7, <1>8, Zenon DEF NewList, Whole
<1>10. Lost(l, store'.imported, kills')
  BY <1>5, <1>7, FewerLost, Zenon
<1>11. Editing(acc.id, acc.id, l)'
  BY <1>5, <1>6, <1>9, <1>10, Zenon DEF Editing, SaveActive
<1> QED BY <1>3, <1>5, <1>7, <1>11, EditStarts, Zenon

\* impor-kunci-privat and impor-akun-frasa
LEMMA AccountImported ==
    ASSUME WalletInv, NEW k \in Imported, NEW by \in {"key", "phrase"}, handleImportAccount(by, k)
    PROVE  WalletInv'
<1>a. PICK acc : acc = ImportedAccount(by, k)
  BY Zenon
<1>b. PICK l : l = Append(store.accounts, acc)
  BY Zenon
<1>0. salts \in Nat /\ StoreInv
  BY Zenon DEF WalletInv
<1>1. /\ Start("home", ImportWrites(acc, by), "home") /\ acc.id \notin Ids
      /\ UNCHANGED <<salts, removed, renumbered>>
  BY <1>a, Zenon DEF handleImportAccount
<1>2. /\ GoodList(store.accounts) /\ store.accounts \in Seq(Account)
      /\ loadWallet => Whole(store.accounts, store.mnemonic)
  BY <1>0, Zenon DEF StoreInv, GoodList
<1>3. acc \in Account /\ acc.id = <<by, k>> /\ acc.key = Null /\ acc.id \in Id
  BY <1>a, Zenon DEF ImportedAccount, Account, Id
<1>4. acc.id[1] = by /\ by # "account" /\ acc.id \notin {store.accounts[i].id : i \in 1..Len(store.accounts)}
  <2>1. PICK h \in Seq(Account) : h = store.accounts
    BY <1>2, Zenon
  <2>2. acc.id \notin {h[i].id : i \in 1..Len(h)}
    BY <1>1, <2>1 DEF Ids
  <2> QED BY <1>3, <2>1, <2>2
<1>5. /\ StoreInv' /\ salts' \in Nat /\ kills' \in Nat /\ store' = store /\ kills' = kills
      /\ writes' = ImportWrites(acc, by) /\ next' = "home"
      /\ Lost(store'.accounts, store'.imported, kills')
  BY <1>0, <1>1, Started, Zenon
<1>6. /\ l \in Seq(Account) /\ l # <<>>
      /\ Distinct(store.accounts) => Distinct(l)
      /\ Numbered(store.accounts) => Numbered(l)
      /\ \A m : (\A i \in 1..Len(store.accounts) : store.accounts[i].key \in {m, Null})
                    => \A i \in 1..Len(l) : l[i].key \in {m, Null}
      /\ \A S : Missing(l, S \cup {acc.id}) \subseteq Missing(store.accounts, S)
      /\ by # "key" => \A S : Missing(l, S) \subseteq Missing(store.accounts, S)
  BY <1>b, <1>2, <1>3, <1>4, Appended, Zenon
<1>7. NewList(l)'
  <2>1. GoodList(l)'
    BY <1>1, <1>2, <1>6, Zenon DEF GoodList
  <2>2. loadWallet' => Whole(l, store.mnemonic)'
    BY <1>1, <1>2, <1>5, <1>6, Zenon DEF Whole, loadWallet
  <2> QED BY <2>1, <2>2, Zenon DEF NewList
<1>8. Editing(acc.id, acc.id, l)'
  <2>1. CASE by = "key"
    <3>1. ImportWrites(acc, by) = <<Put("accounts", l), Put("imported", store.imported \cup {acc.id}), SaveActive(acc.id)>>
      <4> DEFINE x == Put("accounts", l)
                 y == Put("imported", store.imported \cup {acc.id})
                 z == SaveActive(acc.id)
      <4>1. ImportWrites(acc, by) = (<<x>> \o <<y>>) \o <<z>>
        BY <1>b, <2>1, Zenon DEF ImportWrites, addAccount, saveImportedKey, setActiveAccount, SaveActive
      <4> HIDE DEF x, y, z
      <4>2. (<<x>> \o <<y>>) \o <<z>> = <<x, y, z>>
        <5>1. <<x>> \o <<y>> = <<x, y>>
          BY JoinOne, Zenon
        <5>2. <<x, y>> \o <<z>> = <<x, y, z>>
          BY JoinTwo, Zenon
        <5> QED BY <5>1, <5>2, Zenon
      <4> QED BY <4>1, <4>2, Zenon DEF x, y, z
    <3>2. Lost(l, store.imported \cup {acc.id}, kills)
      <4>1. Missing(l, store.imported \cup {acc.id}) \subseteq Missing(store.accounts, store.imported)
        BY <1>6, Zenon
      <4>2. Lost(store.accounts, store.imported, kills) /\ kills \in Nat
        BY <1>5, Zenon
      <4> QED BY <4>1, <4>2, FewerLost, Zenon
    <3> QED BY <1>5, <1>7, <3>1, <3>2, Zenon DEF Editing, SaveActive
  <2>2. CASE by = "phrase"
    <3>1. <<Put("accounts", l)>> \o <<>> = <<Put("accounts", l)>>
      OBVIOUS
    <3>2. ImportWrites(acc, by) = <<Put("accounts", l), SaveActive(acc.id)>>
      BY <1>b, <2>2, <3>1, JoinOne, Zenon DEF ImportWrites, addAccount, setActiveAccount, SaveActive
    <3>3. Lost(l, store.imported, kills)
      BY <1>5, <1>6, <2>2, FewerLost, Zenon
    <3> QED BY <1>5, <1>7, <3>2, <3>3, Zenon DEF Editing, SaveActive
  <2> QED BY <2>1, <2>2, Zenon
<1> QED BY <1>3, <1>5, <1>6, <1>8, EditStarts, Zenon

\* Hapus Akun, and the choice of the active account
LEMMA RemovedOrSwitched ==
    ASSUME WalletInv, NEW id \in Ids, handleRemove(id) \/ handleSwitchAccount(id)
    PROVE  WalletInv'
<1>0. salts \in Nat /\ StoreInv /\ loadWallet
  BY Zenon DEF WalletInv, handleRemove, handleSwitchAccount
<1>1. /\ GoodList(store.accounts) /\ store.accounts \in Seq(Account)
      /\ Whole(store.accounts, store.mnemonic)
  BY <1>0, Zenon DEF StoreInv, GoodList
<1>2. id \in Id
  <2>0. PICK l \in Seq(Account) : l = store.accounts
    BY <1>1, Zenon
  <2>1. PICK i \in 1..Len(l) : id = l[i].id
    BY <2>0 DEF Ids
  <2>2. l[i] \in Account
    OBVIOUS
  <2> QED BY <2>1, <2>2, Zenon DEF Account
<1>3. CASE handleSwitchAccount(id)
  <2>1. Start("home", setActiveAccount(id), "home") /\ UNCHANGED <<salts, removed, renumbered>>
    BY <1>3, Zenon DEF handleSwitchAccount
  <2>2. /\ StoreInv' /\ salts' \in Nat /\ kills' \in Nat
        /\ writes' = setActiveAccount(id) /\ next' = "home"
        /\ Lost(store'.accounts, store'.imported, kills')
    BY <1>0, <2>1, Started, Zenon
  <2>3. Editing(id, id, <<>>)'
    BY <2>2, Zenon DEF Editing, setActiveAccount, SaveActive
  <2>4. <<>> \in Seq(Account)
    OBVIOUS
  <2> QED BY <1>2, <2>2, <2>3, <2>4, EditStarts, Zenon
<1>4. CASE handleRemove(id)
  <2>1. PICK r \in Without(store.accounts, id) :
          Start("home", removeAccount(id, r), "home") /\ removed' = TRUE /\ UNCHANGED <<salts, renumbered>>
    BY <1>4, Zenon DEF handleRemove
  <2>2. /\ StoreInv' /\ salts' \in Nat /\ kills' \in Nat /\ UNCHANGED <<store, screen, kills>>
        /\ writes' = removeAccount(id, r) /\ next' = "home" /\ screen = "home"
        /\ Lost(store'.accounts, store'.imported, kills')
    BY <1>0, <2>1, Started, Zenon
  <2>3. CASE Len(store.accounts) <= 1
    <3>1. writes' = <<>>
      BY <2>2, <2>3, Zenon DEF removeAccount
    <3> QED BY <2>2, <3>1, AtRest, Zenon
  <2>4. CASE ~ (Len(store.accounts) <= 1)
    <3>0. Len(store.accounts) > 1
      BY <1>1, <2>4
    <3>1. /\ r \in Seq(Account)
          /\ Distinct(store.accounts) => Distinct(r)
          /\ Distinct(store.accounts) => r # <<>>
          /\ \A i \in 1..Len(r) : r[i].key \in {store.mnemonic, Null}
          /\ \A S : Missing(r, S) \subseteq Missing(store.accounts, S)
      <4>1. PICK l \in Seq(Account) : l = store.accounts
        BY <1>1, Zenon
      <4>2. r \in Without(l, id) /\ Len(l) > 1 /\ \A i \in 1..Len(l) : l[i].key \in {store.mnemonic, Null}
        BY <1>1, <2>1, <3>0, <4>1, Zenon DEF Whole
      <4>3. /\ r \in Seq(Account)
            /\ Distinct(l) => Distinct(r)
            /\ (Distinct(l) /\ Len(l) > 1) => r # <<>>
            /\ \A m : (\A i \in 1..Len(l) : l[i].key \in {m, Null})
                          => \A i \in 1..Len(r) : r[i].key \in {m, Null}
            /\ \A S : Missing(r, S) \subseteq Missing(l, S)
        BY <4>2, Filtered, Zenon
      <4> QED BY <4>1, <4>2, <4>3, Zenon
    <3>2. GoodList(r)'
      BY <1>1, <2>1, <3>1, Zenon DEF GoodList
    <3>3. NewList(r)'
      <4>1. Whole(r, store.mnemonic)'
        BY <1>1, <2>1, <2>2, <3>1, Zenon DEF GoodList, Whole
      <4> QED BY <3>2, <4>1, Zenon DEF NewList
    <3>4. Lost(r, store'.imported, kills')
      BY <2>2, <3>1, FewerLost, Zenon
    <3>5. CASE store.active = id /\ r # <<>>
      <4>1. r[1] \in Account /\ r[1].id \in Id
        <5>1. 1 \in 1..Len(r) /\ r[1] \in Account
          BY <3>1, <3>5
        <5> QED BY <5>1, Zenon DEF Account
      <4>2. writes' = <<Put("accounts", r), SaveActive(r[1].id)>>
        BY <2>2, <2>4, <3>5, JoinOne, Zenon DEF removeAccount, SaveActive
      <4>3. Editing(r[1].id, id, r)'
        BY <2>2, <3>3, <3>4, <4>2, Zenon DEF Editing, SaveActive
      <4> QED BY <1>2, <2>2, <3>1, <4>1, <4>3, EditStarts, Zenon
    <3>6. CASE ~ (store.active = id /\ r # <<>>)
      <4>1. <<Put("accounts", r)>> \o <<>> = <<Put("accounts", r)>>
        OBVIOUS
      <4>2. writes' = <<Put("accounts", r)>>
        BY <2>2, <2>4, <3>6, <4>1, Zenon DEF removeAccount
      <4>3. Editing(id, id, r)'
        BY <2>2, <3>3, <3>4, <4>2, Zenon DEF Editing
      <4> QED BY <1>2, <2>2, <3>1, <4>3, EditStarts, Zenon
    <3> QED BY <3>5, <3>6, Zenon
  <2> QED BY <2>3, <2>4, Zenon
<1> QED BY <1>3, <1>4, Zenon

LEMMA LostMore ==
    ASSUME NEW l, NEW S, NEW n \in Nat, Lost(l, S, n)
    PROVE  Lost(l, S, n + 1)
BY FS_CardinalityType DEF Lost

\* A kill forgets what was still to be written.
LEMMA Killed ==
    ASSUME WalletInv, Kill
    PROVE  WalletInv'
<1>0. /\ salts \in Nat /\ kills \in Nat /\ StoreInv
      /\ kills' = kills + 1 /\ writes' = <<>> /\ UNCHANGED <<store, salts, removed, renumbered>>
      /\ screen' = IF store.exists THEN "unlock" ELSE "welcome"
  BY Zenon DEF WalletInv, Kill, hasWallet
<1>1. StoreInv'
  BY <1>0, SameStore, Zenon
<1>2. Lost(store.accounts, store.imported, kills + 1)
  <2>1. CASE Lost(store.accounts, store.imported, kills)
    BY <1>0, <2>1, LostMore, Zenon
  <2>2. CASE \E a, id \in Id, l \in Seq(Account) : Editing(a, id, l)
    <3>1. PICK a \in Id, id \in Id, l \in Seq(Account) : Editing(a, id, l)
      BY <2>2, Zenon
    <3>2. \/ Lost(store.accounts, store.imported, kills)
          \/ Lost(store.accounts, store.imported \cup {id}, kills)
      BY <3>1, Zenon DEF Editing
    <3> QED BY <1>0, <2>1, <3>2, OneMoreLost, Zenon
  <2> QED BY <2>1, <2>2, Zenon DEF WalletInv, Pending
<1>3. /\ screen' = "password" => store'.hash = 0
      /\ screen' \in {"password", "unlock"} => store'.exists = TRUE
  BY <1>0, Zenon DEF StoreInv
<1>4. /\ salts' \in Nat /\ kills' \in Nat /\ writes' = <<>>
      /\ Lost(store'.accounts, store'.imported, kills')
  BY <1>0, <1>2
<1> QED BY <1>1, <1>3, <1>4, AtRest, Zenon

LEMMA WalletStarts ==
    WalletInit => WalletInv
<1> SUFFICES ASSUME WalletInit PROVE WalletInv
  BY Zenon
<1>1. /\ DOMAIN store = {"mnemonic", "accounts", "active", "exists", "salt", "hash", "imported"}
      /\ store.mnemonic = Null /\ store.accounts = <<>> /\ store.exists = FALSE
      /\ store.salt = 0 /\ store.hash = 0 /\ store.imported = {}
  BY Zenon DEF WalletInit, EmptyStore
<1>2. StoreInv
  <2>1. GoodList(store.accounts) /\ store.exists \in BOOLEAN
    BY <1>1, NoAccount, Zenon
  <2> QED BY <1>1, <2>1 DEF StoreInv, loadWallet, PasswordWorks, hasPassword
<1>3. salts = 0 /\ kills = 0 /\ writes = <<>> /\ screen = "welcome"
  BY Zenon DEF WalletInit
<1>4. Lost(store.accounts, store.imported, kills)
  BY <1>1, <1>3, NoAccount, NothingLost, Zenon
<1> QED BY <1>2, <1>3, <1>4, Zenon DEF WalletInv, Pending

LEMMA WalletStep ==
    ASSUME WalletInv, [WalletNext]_walletVars
    PROVE  WalletInv'
<1>1. CASE UNCHANGED walletVars
  <2>1. UNCHANGED <<store, writes, screen, next, salts, kills, removed, renumbered>>
    BY <1>1, Zenon DEF walletVars
  <2>2. StoreInv'
    BY <2>1, SameStore, Zenon DEF WalletInv
  <2>3. \A m : Saving(m)' <=> Saving(m)
    BY <2>1, Zenon DEF Saving, SaveSalt, SaveHash, SavePhrase, SaveFirst, SaveActive, SaveExists
  <2>4. (SettingPassword' <=> SettingPassword) /\ (Clearing' <=> Clearing)
    BY <2>1, Zenon DEF SettingPassword, Clearing, SaveSalt, SaveHash, clearWallet
  <2>5. \A l : NewList(l)' <=> NewList(l)
    BY <2>1, Zenon DEF NewList, GoodList, Whole, loadWallet
  <2>6. ASSUME NEW a, NEW id, NEW l, Editing(a, id, l)
        PROVE  Editing(a, id, l)'
    BY <2>1, <2>5, <2>6, Zenon DEF Editing, SaveActive
  <2>7. Pending'
    BY <2>1, <2>3, <2>4, <2>6, Zenon DEF WalletInv, Pending
  <2> QED BY <2>1, <2>2, <2>7, Zenon DEF WalletInv
<1>2. CASE WalletNext
  BY <1>2, NewWallet, Locked, Created, AccountImported, RemovedOrSwitched, WriteKeeps, Killed, Zenon DEF WalletNext
<1> QED BY <1>1, <1>2, Zenon

\* The invariant of the wallet: the store is sound between any two writes, and
\* what is still to be written keeps it so.
THEOREM WalletSound == WalletSpec => []WalletInv
<1>1. WalletInv /\ [WalletNext]_walletVars => WalletInv'
  BY WalletStep, Zenon
<1> QED BY <1>1, WalletStarts, PTL DEF WalletSpec

\* Whenever the app is killed, loadWallet returns no wallet or a complete one.
THEOREM WalletLoadsWhole == WalletSpec => []LoadedWhole
<1>1. WalletInv => LoadedWhole
  BY DEF WalletInv, StoreInv, GoodList, Whole, LoadedWhole
<1> QED BY <1>1, WalletSound, PTL

\* No kill leaves a password hash that was made with another salt.
THEOREM PasswordStaysUsable == WalletSpec => []PasswordWorks
<1>1. WalletInv => PasswordWorks
  BY Zenon DEF WalletInv, StoreInv
<1> QED BY <1>1, WalletSound, PTL

\* A kill costs at most one imported key, whatever the number of accounts.
THEOREM KeysStayStored == WalletSpec => []KeysStored
<1>1. WalletInv => KeysStored
  <2> SUFFICES ASSUME WalletInv, writes = <<>>
               PROVE  Cardinality({id \in Ids : id[1] = "key" /\ id \notin store.imported}) <= kills
    BY Zenon DEF KeysStored
  <2>1. Lost(store.accounts, store.imported, kills) /\ store.accounts \in Seq(Account)
    BY RestFacts, Zenon DEF StoreInv, GoodList
  <2>2. {id \in Ids : id[1] = "key" /\ id \notin store.imported} = Missing(store.accounts, store.imported)
    BY <2>1 DEF Ids, Missing
  <2> QED BY <2>1, <2>2, Zenon DEF Lost
<1> QED BY <1>1, WalletSound, PTL
=============================================================================
