---------------------------- MODULE TimerProofs ----------------------------
(***************************************************************************)
(* Proofs about Timer for every set of lcores and of timers, any number of  *)
(* calls and any delays: no timer is touched behind the back of the lcore   *)
(* that configures it or executes its callback; the lists agree with the    *)
(* statuses and stay sorted; no callback starts before its time.            *)
(*                                                                         *)
(* There are two layers.  IInv is about the statuses alone: who configures  *)
(* a timer says so in its status, and a callback's timer stays RUNNING      *)
(* unless the callback itself resets or stops it.                           *)
(* LInv, which needs IInv, is about where the timers are: what a call of    *)
(* reset or stop is moving, what the holder of a list_lock relies on.       *)
(***************************************************************************)
EXTENDS Timer, FiniteSetTheorems, SequenceTheorems, TLAPS

USE DEF flags

CallLabels == {"config", "del", "add", "publish"}
Labels == CallLabels \cup {"idle", "collect", "run", "callback", "relock", "browse", "reload"}

(* The part of TypeOK the statuses depend on. *)
Types ==
  /\ status \in [Timers -> [state : {"STOP", "PENDING", "RUNNING", "CONFIG"},
                            owner : Lcores \cup {NO_OWNER}]]
  /\ updated \in [Lcores -> BOOLEAN]
  /\ touched \in [Lcores -> BOOLEAN]
  /\ now \in Nat
  /\ pc \in [Lcores -> Labels]
  /\ call \in [Lcores -> {<<>>} \cup Call]
  /\ DOMAIN tim = Lcores
  /\ DOMAIN todo = Lcores

(* A lcore in a call knows what it was called for. *)
CallKnown == \A l \in Lcores : pc[l] \in CallLabels => call[l] \in Call

(* In a callback, also while the callback resets or stops a timer. *)
InCallback(l) == \/ pc[l] \in {"callback", "relock"}
                 \/ pc[l] \in CallLabels /\ call[l].back = "callback"

(* The lcore has a timer in hand then, and only then; a callback that has   *)
(* touched it has touched a timer.                                          *)
InHand == \A l \in Lcores : /\ tim[l] = IF InCallback(l) THEN <<tim[l][1]>> ELSE <<>>
                            /\ touched[l] => updated[l] /\ InCallback(l)

(* Until the callback has touched the timer in hand, it is RUNNING here.    *)
Untouched ==
  \A l \in Lcores, t \in Timers :
    InCallback(l) /\ tim[l] = <<t>> /\ ~touched[l] => status[t] = Status("RUNNING", l)

(* The timer an lcore is configuring says so: nobody else will take it. *)
Configuring(l, t) == \/ pc[l] \in {"del", "add", "publish"} /\ call[l].t = t
                     \/ pc[l] = "reload" /\ Head(todo[l]) = t
Configured ==
  \A l \in Lcores, t \in Timers :
    Configuring(l, t) => status[t] = Status("CONFIG", l)

IInv == Types /\ CallKnown /\ InHand /\ Untouched /\ Configured

-----------------------------------------------------------------------------
(* No lcore is in a call or a callback at the start. *)
LEMMA InitIInv == Init => IInv
  BY DEF Init, IInv, Types, CallKnown, InHand, Untouched, Configured, InCallback,
         Configuring, CallLabels, Labels, Stopped, Status

(* What a step that leaves the statuses alone and moves one lcore must      *)
(* show: where the lcore is now, it is in no new callback and configures    *)
(* nothing new.                                                             *)
LEMMA QuietStep ==
  ASSUME IInv, NEW l \in Lcores, NEW label \in Labels,
         Goto(l, label),
         UNCHANGED <<status, flags, tim>>,
         now' \in Nat,
         call' \in [Lcores -> {<<>>} \cup Call],
         DOMAIN todo' = Lcores,
         \A o \in Lcores \ {l} : call'[o] = call[o] /\ todo'[o] = todo[o],
         label \in CallLabels => call'[l] \in Call,
         InCallback(l)' <=> InCallback(l),
         \A t \in Timers : Configuring(l, t)' => Configuring(l, t)
  PROVE  IInv'
<1> USE DEF IInv
<1>1. Types'
  BY DEF Types, Goto, Labels, CallLabels
<1>2. \A o \in Lcores \ {l} : /\ InCallback(o)' <=> InCallback(o)
                              /\ \A t \in Timers : Configuring(o, t)' <=> Configuring(o, t)
  BY DEF Types, Goto, InCallback, Configuring
<1>3. CallKnown'
  BY DEF Types, Goto, CallKnown
<1>4. InHand'
  BY <1>2 DEF InHand
<1>5. Untouched'
  BY <1>2 DEF Untouched, Status
<1>6. Configured'
  BY <1>2 DEF Configured, Status
<1>. QED BY <1>1, <1>3, <1>4, <1>5, <1>6

(* What reset and stop ask for. *)
LEMMA CallMade ==
  ASSUME IInv, NEW l \in Lcores, Reset(l) \/ Stop(l)
  PROVE  \E c \in Call : Called(l, c) /\ c.back = pc[l]
<1>a. pc[l] \in {"idle", "callback"}
  BY DEF Reset, Stop, Called
<1>1. CASE Reset(l)
  <2>1. PICK t \in Timers, ticks \in Ticks, PERIODICAL \in BOOLEAN, tim_lcore \in Lcores :
          Called(l, [op |-> "reset", t |-> t, lcore |-> tim_lcore, back |-> pc[l],
                     expire |-> now + ticks,
                     period |-> IF PERIODICAL THEN ticks ELSE 0, prev |-> Stopped])
    BY <1>1 DEF Reset
  <2> DEFINE c == [op |-> "reset", t |-> t, lcore |-> tim_lcore, back |-> pc[l],
                   expire |-> now + ticks,
                   period |-> IF PERIODICAL THEN ticks ELSE 0, prev |-> Stopped]
  <2>2. c \in Call
    BY <1>a, TicksAssumption DEF IInv, Types, Call, Stopped, Status
  <2>. QED BY <2>1, <2>2
<1>2. CASE Stop(l)
  <2>1. PICK t \in Timers, sync \in BOOLEAN :
          Called(l, [op |-> IF sync THEN "stop_sync" ELSE "stop", t |-> t, lcore |-> l,
                     back |-> pc[l], expire |-> 0, period |-> 0, prev |-> Stopped])
    BY <1>2 DEF Stop
  <2> DEFINE c == [op |-> IF sync THEN "stop_sync" ELSE "stop", t |-> t, lcore |-> l,
                   back |-> pc[l], expire |-> 0, period |-> 0, prev |-> Stopped]
  <2>2. c \in Call
    BY <1>a DEF Call, Stopped, Status
  <2>. QED BY <2>1, <2>2
<1>. QED BY <1>1, <1>2

(* A call of reset or stop: the lcore may start one in a callback. *)
LEMMA CallStep ==
  ASSUME IInv, NEW l \in Lcores, Reset(l) \/ Stop(l)
  PROVE  IInv'
<1>a. pc[l] \in {"idle", "callback"}
  BY DEF Reset, Stop, Called
<1>1. PICK c \in Call : Called(l, c) /\ c.back = pc[l]
  BY CallMade
<1>2. /\ InCallback(l)' <=> InCallback(l)
      /\ \A t \in Timers : ~Configuring(l, t)'
  BY <1>1 DEF IInv, Types, Called, Goto, InCallback, Configuring, CallLabels
<1>. QED
  BY <1>1, <1>2, QuietStep DEF IInv, Types, Called, Goto, CallLabels, Labels, timers, manage

(* The steps that leave every status alone. *)
LEMMA OtherSteps ==
  ASSUME IInv, NEW l \in Lcores,
         \/ Manage(l) \/ ConfigFails(l) \/ Del(l) \/ Add(l)
         \/ Collect(l) \/ Skip(l) \/ CallbackReturns(l)
         \/ Browse(l) \/ ReloadFails(l) \/ ManageReturns(l)
  PROVE  IInv'
<1> USE DEF IInv, Types, Goto, At, InCallback, Configuring, CallLabels, Labels, timers, manage
<1>1. CASE Manage(l)
  BY <1>1, QuietStep DEF Manage
<1>2. CASE ConfigFails(l)
  <2>1. call[l].back \in {"idle", "callback"}
    BY <1>2 DEF ConfigFails, CallKnown, Call
  <2>. QED BY <1>2, <2>1, QuietStep DEF ConfigFails
<1>3. CASE Del(l)
  BY <1>3, QuietStep DEF Del, CallKnown
<1>4. CASE Add(l)
  BY <1>4, QuietStep DEF Add, CallKnown
<1>5. CASE Collect(l)
  BY <1>5, QuietStep DEF Collect
<1>6. CASE Skip(l)
  <2>1. Goto(l, "run")
    BY <1>6 DEF Skip
  <2>. QED BY <1>6, <2>1, QuietStep DEF Skip
<1>7. CASE CallbackReturns(l)
  BY <1>7, QuietStep DEF CallbackReturns
<1>8. CASE Browse(l)
  BY <1>8, QuietStep DEF Browse
<1>9. CASE ReloadFails(l)
  <2>1. Goto(l, "browse")
    BY <1>9 DEF ReloadFails
  <2>. QED BY <1>9, <2>1, QuietStep DEF ReloadFails
<1>10. CASE ManageReturns(l)
  BY <1>10, QuietStep DEF ManageReturns
<1>. QED
  BY <1>1, <1>2, <1>3, <1>4, <1>5, <1>6, <1>7, <1>8, <1>9, <1>10

-----------------------------------------------------------------------------
(* A lcore takes a timer to configure it, which is not RUNNING elsewhere    *)
(* and not in CONFIG, and remembers that it has touched one, and whether    *)
(* that was the one in hand.                                                *)
LEMMA ConfigIInv ==
  ASSUME IInv, NEW l \in Lcores, Config(l)
  PROVE  IInv'
<1> DEFINE c == call[l]
<1> USE DEF IInv, At, Goto, CallLabels
<1>1. /\ c \in Call /\ c.t \in Timers /\ pc[l] = "config"
      /\ status[c.t].state # "CONFIG"
      /\ status[c.t].state = "RUNNING" => status[c.t].owner = l
  BY DEF Config, Busy, Is, CallKnown, Call
<1>2. status[c.t] \in [state : {"STOP", "PENDING", "RUNNING"}, owner : Lcores \cup {NO_OWNER}]
  BY <1>1 DEF Types
<1>3. call'[l] \in Call /\ call'[l].t = c.t /\ call'[l].back = c.back
  BY <1>1, <1>2 DEF Config, Call, Types
<1>4. Types'
  BY <1>1, <1>3 DEF Config, Types, Labels, SetStatus, Status, manage
<1>5. CallKnown'
  BY <1>3 DEF Config, CallKnown, Types
<1>6. InHand'
  BY <1>1, <1>3 DEF Config, InHand, InCallback, Types, manage
<1>7. Untouched'
  <2> SUFFICES ASSUME NEW o \in Lcores, NEW t \in Timers,
                      InCallback(o)', tim'[o] = <<t>>, ~touched'[o]
               PROVE  status'[t] = Status("RUNNING", o)
    BY DEF Untouched, Status
  <2>1. /\ InCallback(o) /\ tim[o] = <<t>> /\ ~touched[o]
        /\ o = l => t # c.t
    <3>1. CASE o = l
      BY <1>1, <1>3, <3>1 DEF Config, Types, InCallback, manage
    <3>2. CASE o # l
      BY <3>2 DEF Config, Types, InCallback, manage
    <3>. QED BY <3>1, <3>2
  <2>2. status[t] = Status("RUNNING", o)
    BY <2>1 DEF Untouched
  <2>. QED BY <2>1, <2>2, <1>1 DEF Config, SetStatus, Status, Types
<1>8. Configured'
  <2> SUFFICES ASSUME NEW o \in Lcores, NEW t \in Timers, Configuring(o, t)'
               PROVE  status'[t] = Status("CONFIG", o)
    BY DEF Configured, Status
  <2>1. CASE o = l
    BY <2>1, <1>1, <1>3 DEF Config, Configuring, SetStatus, Status, Types
  <2>2. CASE o # l
    <3>1. Configuring(o, t)
      BY <2>2 DEF Config, Configuring, Types, manage
    <3>. QED BY <2>2, <3>1, <1>1 DEF Config, Configured, SetStatus, Status, Types
  <2>. QED BY <2>1, <2>2
<1>. QED BY <1>4, <1>5, <1>6, <1>7, <1>8

(* What the other steps on a status must show: they write that of one timer *)
(* t, which no other lcore configures or executes, and move one lcore to a  *)
(* place where it configures nothing but perhaps t, for which the status    *)
(* is then its own.                                                         *)
LEMMA StatusStep ==
  ASSUME IInv, NEW l \in Lcores, NEW t,
         Types', CallKnown', InHand',
         \A o \in Lcores \ {l} : /\ pc'[o] = pc[o] /\ call'[o] = call[o]
                                 /\ touched'[o] = touched[o]
                                 /\ tim'[o] = tim[o] /\ todo'[o] = todo[o],
         \A u \in Timers : u # t => status'[u] = status[u],
         \A o \in Lcores \ {l} :
           t \in Timers /\ status[t].owner = o => status[t].state \notin {"RUNNING", "CONFIG"},
         \A u \in Timers : Configuring(l, u)' => u = t /\ status'[t] = Status("CONFIG", l),
         \A u \in Timers : InCallback(l)' /\ tim'[l] = <<u>> /\ ~touched'[l]
                             => status'[u] = Status("RUNNING", l)
  PROVE  IInv'
<1> USE DEF IInv
<1>1. ASSUME NEW o \in Lcores \ {l}
      PROVE  /\ InCallback(o)' <=> InCallback(o)
             /\ \A u \in Timers : Configuring(o, u)' <=> Configuring(o, u)
  BY <1>1 DEF InCallback, Configuring
<1>2. Untouched'
  <2> SUFFICES ASSUME NEW o \in Lcores, NEW u \in Timers,
                      InCallback(o)', tim'[o] = <<u>>, ~touched'[o]
               PROVE  status'[u] = Status("RUNNING", o)
    BY DEF Untouched, Status
  <2>1. CASE o # l
    <3>1. status[u] = Status("RUNNING", o)
      BY <2>1, <1>1 DEF Untouched
    <3>. QED BY <2>1, <3>1 DEF Status
  <2>. QED BY <2>1
<1>3. Configured'
  <2> SUFFICES ASSUME NEW o \in Lcores, NEW u \in Timers, Configuring(o, u)'
               PROVE  status'[u] = Status("CONFIG", o)
    BY DEF Configured, Status
  <2>1. CASE o # l
    <3>1. status[u] = Status("CONFIG", o)
      BY <2>1, <1>1 DEF Configured
    <3>. QED BY <2>1, <3>1 DEF Status
  <2>. QED BY <2>1
<1>. QED BY <1>2, <1>3

(* The lcore that configures a timer gives it its final status.             *)
LEMMA PublishIInv ==
  ASSUME IInv, NEW l \in Lcores, Publish(l)
  PROVE  IInv'
<1> DEFINE t == call[l].t
<1> USE DEF IInv, At, Goto
<1>1. /\ call[l] \in Call /\ t \in Timers /\ call[l].lcore \in Lcores
      /\ call[l].back \in {"idle", "callback"}
      /\ pc[l] = "publish" /\ pc' = [pc EXCEPT ![l] = call[l].back]
      /\ UNCHANGED <<flags, tim, todo, now>>
      /\ call' = [call EXCEPT ![l] = <<>>]
  BY DEF Publish, CallKnown, Call, CallLabels, manage
<1>2. /\ status[t] = Status("CONFIG", l)
      /\ status' \in {[status EXCEPT ![t] = Status("PENDING", call[l].lcore)],
                      [status EXCEPT ![t] = Status("STOP", NO_OWNER)]}
  BY <1>1 DEF Configured, Configuring, Publish, SetStatus
<1>3. Types'
  BY <1>1, <1>2 DEF Types, Labels, Status
<1>4. CallKnown' /\ InHand'
  BY <1>1 DEF Types, CallKnown, InHand, InCallback, CallLabels
<1>5. \A u \in Timers : ~Configuring(l, u)'
  BY <1>1 DEF Types, Configuring
<1>6. \A u \in Timers : InCallback(l)' /\ tim'[l] = <<u>> /\ ~touched'[l]
                          => status'[u] = Status("RUNNING", l)
  <2>1. InCallback(l)' => InCallback(l)
    BY <1>1 DEF Types, InCallback, CallLabels
  <2>. QED BY <1>1, <1>2, <2>1 DEF Types, Untouched, Status
<1>7. \A o \in Lcores \ {l} : /\ pc'[o] = pc[o] /\ call'[o] = call[o]
                               /\ touched'[o] = touched[o]
                               /\ tim'[o] = tim[o] /\ todo'[o] = todo[o]
  BY <1>1 DEF Types
<1>8. \A u \in Timers : u # t => status'[u] = status[u]
  BY <1>2 DEF Types
<1>9. status[t].owner = l
  BY <1>2 DEF Status
<1>. QED
  BY <1>3, <1>4, <1>5, <1>6, <1>7, <1>8, <1>9, StatusStep

(* A timer that is PENDING becomes RUNNING on the lcore that has it in its  *)
(* list; nothing has touched it yet.                                        *)
LEMMA RunIInv ==
  ASSUME IInv, NEW l \in Lcores, Run(l)
  PROVE  IInv'
<1> DEFINE t == Head(expired[l])
<1> USE DEF IInv, At, Goto
<1>1. /\ pc[l] = "run" /\ pc' = [pc EXCEPT ![l] = "callback"]
      /\ status[t].state = "PENDING"
      /\ status' = [status EXCEPT ![t] = Status("RUNNING", l)]
      /\ updated' = [updated EXCEPT ![l] = FALSE]
      /\ tim' = [tim EXCEPT ![l] = <<t>>]
      /\ UNCHANGED <<call, todo, now, touched>>
  BY DEF Run, Is, SetStatus
<1>2. Types'
  BY <1>1 DEF Types, Labels, Status
<1>3. CallKnown' /\ InHand'
  BY <1>1 DEF Types, CallKnown, InHand, InCallback, CallLabels
<1>4. \A u \in Timers : ~Configuring(l, u)'
  BY <1>1 DEF Types, Configuring
<1>5. \A u \in Timers : tim'[l] = <<u>> => status'[u] = Status("RUNNING", l)
  BY <1>1 DEF Types
<1>6. \A o \in Lcores \ {l} : /\ pc'[o] = pc[o] /\ call'[o] = call[o]
                               /\ touched'[o] = touched[o]
                               /\ tim'[o] = tim[o] /\ todo'[o] = todo[o]
  BY <1>1 DEF Types
<1>7. \A u \in Timers : u # t => status'[u] = status[u]
  BY <1>1 DEF Types
<1>8. \A o \in Lcores \ {l} :
        t \in Timers /\ status[t].owner = o => status[t].state \notin {"RUNNING", "CONFIG"}
  BY <1>1
<1>. QED
  BY <1>2, <1>3, <1>4, <1>5, <1>6, <1>7, <1>8, StatusStep

(* After the callback, the timer in hand is written only if it is still     *)
(* RUNNING on this lcore.                                                   *)
LEMMA AfterCallbackIInv ==
  ASSUME IInv, NEW l \in Lcores, AfterCallback(l)
  PROVE  IInv'
<1> DEFINE t == tim[l][1]
<1> USE DEF IInv, At, Goto
<1>1. /\ pc[l] = "relock" /\ pc' = [pc EXCEPT ![l] = "run"]
      /\ tim' = [tim EXCEPT ![l] = <<>>]
      /\ touched' = [touched EXCEPT ![l] = FALSE]
      /\ UNCHANGED <<call, todo, now, updated>>
  BY DEF AfterCallback
<1>2. /\ InCallback(l) /\ tim[l] = <<t>>
      /\ ~InCallback(l)' /\ \A u \in Timers : ~Configuring(l, u)'
  BY <1>1 DEF InHand, InCallback, Configuring, CallLabels, Types
<1>3. CallKnown' /\ InHand'
  BY <1>1 DEF Types, CallKnown, InHand, InCallback, CallLabels
<1>4. \/ status' = status
      \/ /\ ~updated[l]
         /\ status' \in {[status EXCEPT ![t] = Status("STOP", NO_OWNER)],
                         [status EXCEPT ![t] = Status("PENDING", l)]}
  BY DEF AfterCallback, SetStatus
<1>5. Types'
  BY <1>1, <1>4 DEF Types, Labels, Status
<1>a. \A o \in Lcores \ {l} : /\ pc'[o] = pc[o] /\ call'[o] = call[o]
                               /\ touched'[o] = touched[o]
                               /\ tim'[o] = tim[o] /\ todo'[o] = todo[o]
  BY <1>1 DEF Types
<1>6. CASE status' = status
  <2>1. UNCHANGED <<status, updated, now, call, todo>>
    BY <1>1, <1>6
  <2>2. Untouched'
    BY <1>1, <1>2, <1>a, <2>1 DEF Untouched, InCallback, Status
  <2>3. Configured'
    BY <1>1, <1>2, <1>a, <2>1 DEF Configured, Configuring, Status
  <2>. QED BY <1>3, <1>5, <2>2, <2>3
<1>7. CASE /\ ~updated[l]
           /\ status' \in {[status EXCEPT ![t] = Status("STOP", NO_OWNER)],
                           [status EXCEPT ![t] = Status("PENDING", l)]}
  <2>1. t \in Timers => status[t] = Status("RUNNING", l)
    BY <1>2, <1>7 DEF Untouched, InHand
  <2>2. \A u \in Timers : u # t => status'[u] = status[u]
    BY <1>7 DEF Types
  <2>3. t \in Timers => status[t].owner = l
    BY <2>1 DEF Status
  <2>. QED
    BY <1>2, <1>3, <1>5, <1>a, <2>2, <2>3, StatusStep
<1>. QED BY <1>4, <1>6, <1>7

(* rte_timer_manage reloads a timer as rte_timer_reset would configure it.  *)
LEMMA ReloadIInv ==
  ASSUME IInv, NEW l \in Lcores, Reload(l)
  PROVE  IInv'
<1> DEFINE t == Head(todo[l])
<1> USE DEF IInv, At, Goto
<1>1. /\ pc[l] = "browse" /\ pc' = [pc EXCEPT ![l] = "reload"]
      /\ status[t].state # "CONFIG"
      /\ status[t].state = "RUNNING" => status[t].owner = l
      /\ status' = [status EXCEPT ![t] = Status("CONFIG", l)]
      /\ updated' = [updated EXCEPT ![l] = TRUE]
      /\ UNCHANGED <<call, todo, tim, now, touched>>
  BY DEF Reload, Busy, Is, SetStatus, manage
<1>2. Types'
  BY <1>1 DEF Types, Labels, Status
<1>3. CallKnown' /\ InHand'
  BY <1>1 DEF Types, CallKnown, InHand, InCallback, CallLabels
<1>4. \A u \in Timers : Configuring(l, u)' => u = t /\ status'[t] = Status("CONFIG", l)
  BY <1>1 DEF Types, Configuring
<1>5. ~InCallback(l)'
  BY <1>1 DEF Types, InCallback, CallLabels
<1>6. \A o \in Lcores \ {l} : /\ pc'[o] = pc[o] /\ call'[o] = call[o]
                               /\ touched'[o] = touched[o]
                               /\ tim'[o] = tim[o] /\ todo'[o] = todo[o]
  BY <1>1 DEF Types
<1>7. \A u \in Timers : u # t => status'[u] = status[u]
  BY <1>1 DEF Types
<1>8. \A o \in Lcores \ {l} :
        t \in Timers /\ status[t].owner = o => status[t].state \notin {"RUNNING", "CONFIG"}
  BY <1>1
<1>. QED
  BY <1>2, <1>3, <1>4, <1>5, <1>6, <1>7, <1>8, StatusStep

(* ... and makes it PENDING. *)
LEMMA ReloadDoneIInv ==
  ASSUME IInv, NEW l \in Lcores, ReloadDone(l)
  PROVE  IInv'
<1> DEFINE t == Head(todo[l])
<1> USE DEF IInv, At, Goto
<1>1. /\ pc[l] = "reload" /\ pc' = [pc EXCEPT ![l] = "browse"]
      /\ status' = [status EXCEPT ![t] = Status("PENDING", l)]
      /\ todo' = [todo EXCEPT ![l] = Tail(@)]
      /\ UNCHANGED <<call, tim, flags, now>>
  BY DEF ReloadDone, SetStatus
<1>2. t \in Timers => status[t] = Status("CONFIG", l)
  BY <1>1 DEF Configured, Configuring
<1>3. Types'
  BY <1>1 DEF Types, Labels, Status
<1>4. CallKnown' /\ InHand'
  BY <1>1 DEF Types, CallKnown, InHand, InCallback, CallLabels
<1>5. ~InCallback(l)' /\ \A u \in Timers : ~Configuring(l, u)'
  BY <1>1 DEF Types, InCallback, Configuring, CallLabels
<1>6. \A o \in Lcores \ {l} : /\ pc'[o] = pc[o] /\ call'[o] = call[o]
                               /\ touched'[o] = touched[o]
                               /\ tim'[o] = tim[o] /\ todo'[o] = todo[o]
  BY <1>1 DEF Types
<1>7. \A u \in Timers : u # t => status'[u] = status[u]
  BY <1>1 DEF Types
<1>8. t \in Timers => status[t].owner = l
  BY <1>2 DEF Status
<1>. QED
  BY <1>1, <1>3, <1>4, <1>5, <1>6, <1>7, <1>8, StatusStep

-----------------------------------------------------------------------------
(* Every step of every lcore, and of the clock, preserves the invariant.    *)
LEMMA NextIInv == IInv /\ [Next]_vars => IInv'
<1> SUFFICES ASSUME IInv, [Next]_vars PROVE IInv'
  OBVIOUS
<1>1. CASE UNCHANGED vars \/ Tick
  <2>1. /\ UNCHANGED <<status, flags, pc, call, tim, todo>>
        /\ now' \in {now, now + 1}
    BY <1>1 DEF vars, Tick, timers, manage
  <2>. QED
    BY <2>1 DEF IInv, Types, CallKnown, InHand, Untouched, Configured, InCallback,
                Configuring, Status
<1>2. ASSUME NEW l \in Lcores, Reset(l) \/ Stop(l) \/ Manage(l) \/ Step(l)
      PROVE  IInv'
  BY <1>2, CallStep, OtherSteps, ConfigIInv, PublishIInv, RunIInv, AfterCallbackIInv,
     ReloadIInv, ReloadDoneIInv DEF Step
<1>. QED BY <1>1, <1>2 DEF Next

(* The invariant holds in every reachable state. *)
THEOREM SpecIInv == Spec => []IInv
  BY InitIInv, NextIInv, PTL DEF Spec

(* The callback of a timer runs alone, however many lcores start, stop and  *)
(* manage however many timers.                                              *)
THEOREM CallbacksRunAlone == Spec => []RunsAlone
<1>1. IInv => RunsAlone
  <2> SUFFICES ASSUME IInv, NEW l \in Lcores, NEW t \in Timers, tim[l] = <<t>>, ~touched[l]
               PROVE  status[t] = Status("RUNNING", l)
    BY DEF RunsAlone, Executing
  <2>0. <<t>> # <<>>
    OBVIOUS
  <2>1. InCallback(l)
    BY <2>0 DEF IInv, InHand
  <2>. QED BY <2>1 DEF IInv, Untouched
<1>. QED BY <1>1, SpecIInv, PTL

-----------------------------------------------------------------------------
(***************************************************************************)
(* The lists.  First what the operations on a list do: LIST_REMOVE, taking  *)
(* the head, pushing in front, inserting in order, moving a prefix.         *)
(***************************************************************************)
(* A list with no timer twice. *)
NoRepeat(list) == \A j, k \in DOMAIN list : list[j] = list[k] => j = k
(* What is in w is in list, in the same order. *)
Keeps(w, list) ==
  \A i, j \in 1 .. Len(w) : i <= j =>
    \E m, n \in 1 .. Len(list) : m <= n /\ w[i] = list[m] /\ w[j] = list[n]

(* What it means to be listed. *)
LEMMA ListedAt ==
  ASSUME NEW S, NEW list \in Seq(S)
  PROVE  /\ Listed(list) \subseteq S
         /\ \A k \in 1 .. Len(list) : list[k] \in Listed(list)
         /\ \A u \in Listed(list) : \E k \in 1 .. Len(list) : list[k] = u
  BY DEF Listed

(* What LIST_REMOVE leaves. *)
LEMMA WithoutFacts ==
  ASSUME NEW S, NEW list \in Seq(S), NEW t, NoRepeat(list)
  PROVE  /\ Without(list, t) \in Seq(S)
         /\ Listed(Without(list, t)) = Listed(list) \ {t}
         /\ NoRepeat(Without(list, t)) /\ Keeps(Without(list, t), list)
<1> DEFINE k == CHOOSE k \in DOMAIN list : list[k] = t
           w == SubSeq(list, 1, k - 1) \o SubSeq(list, k + 1, Len(list))
<1>1. CASE t \notin Listed(list)
  BY <1>1 DEF Without, Keeps
<1>2. CASE t \in Listed(list)
  <2>1. k \in 1 .. Len(list) /\ list[k] = t
    BY <1>2 DEF Listed
  <2>2. Without(list, t) = w
    BY <1>2 DEF Without
  <2> HIDE DEF k
  <2> DEFINE a == SubSeq(list, 1, k - 1)
             b == SubSeq(list, k + 1, Len(list))
  <2>a. /\ a \in Seq(S) /\ Len(a) = k - 1
        /\ \A j \in 1 .. k - 1 : a[j] = list[j]
    <3>1. \A j \in 1 .. k - 1 : list[j] \in S
      BY <2>1
    <3>. QED BY <2>1, <3>1, SubSeqProperties
  <2>b. /\ b \in Seq(S) /\ Len(b) = Len(list) - k
        /\ \A j \in 1 .. Len(list) - k : b[j] = list[j + k]
    <3>1. \A j \in k + 1 .. Len(list) : list[j] \in S
      BY <2>1
    <3>. QED BY <2>1, <3>1, SubSeqProperties
  <2>w. w = a \o b
    OBVIOUS
  <2>l. Len(list) \in Nat /\ k \in Nat
    BY <2>1
  <2> HIDE DEF a, b, w
  <2>c. /\ a \o b \in Seq(S) /\ Len(a \o b) = Len(a) + Len(b)
        /\ \A i \in 1 .. Len(a) + Len(b) : (a \o b)[i] = IF i <= Len(a) THEN a[i] ELSE b[i - Len(a)]
    BY <2>a, <2>b, ConcatProperties
  <2>3. w \in Seq(S) /\ Len(w) = Len(list) - 1
    BY <2>l, <2>a, <2>b, <2>c, <2>w
  <2>4. \A j \in 1 .. Len(w) : w[j] = IF j < k THEN list[j] ELSE list[j + 1]
    BY <2>l, <2>1, <2>3, <2>a, <2>b, <2>c, <2>w
  <2>5. Listed(w) = Listed(list) \ {t}
    <3>1. \A u \in Listed(w) : u \in Listed(list) /\ u # t
      BY <2>1, <2>3, <2>4 DEF Listed, NoRepeat
    <3>2. ASSUME NEW u \in Listed(list), u # t PROVE u \in Listed(w)
      <4>1. PICK j \in 1 .. Len(list) : list[j] = u
        BY DEF Listed
      <4>2. CASE j < k
        BY <2>1, <2>3, <2>4, <4>1, <4>2 DEF Listed
      <4>3. CASE j > k
        <5>1. j - 1 \in 1 .. Len(w) /\ w[j - 1] = u
          BY <2>1, <2>3, <2>4, <4>1, <4>3
        <5>. QED BY <5>1, <2>3 DEF Listed
      <4>. QED BY <2>1, <3>2, <4>1, <4>2, <4>3
    <3>. QED BY <3>1, <3>2
  <2>6. NoRepeat(w)
    BY <2>1, <2>3, <2>4 DEF NoRepeat
  <2>7. Keeps(w, list)
    <3> SUFFICES ASSUME NEW i \in 1 .. Len(w), NEW j \in 1 .. Len(w), i <= j
                 PROVE  \E m, n \in 1 .. Len(list) : m <= n /\ w[i] = list[m] /\ w[j] = list[n]
      BY DEF Keeps
    <3> DEFINE m == IF i < k THEN i ELSE i + 1
               n == IF j < k THEN j ELSE j + 1
    <3>1. m \in 1 .. Len(list) /\ n \in 1 .. Len(list) /\ m <= n
      BY <2>1, <2>3
    <3>2. w[i] = list[m] /\ w[j] = list[n]
      BY <2>4
    <3>. QED BY <3>1, <3>2
  <2>. QED BY <2>2, <2>3, <2>5, <2>6, <2>7
<1>. QED BY <1>1, <1>2

(* The elements of a sorted list up to a value, and those that satisfy a    *)
(* condition with all before them, come first: a set of positions that is   *)
(* closed downward is an interval.                                          *)
LEMMA Prefix ==
  ASSUME NEW n \in Nat, NEW T \in SUBSET (1 .. n), \A j \in T : 1 .. j \subseteq T
  PROVE  Cardinality(T) \in 0 .. n /\ T = 1 .. Cardinality(T)
<1>1. IsFiniteSet(1 .. n) /\ Cardinality(1 .. n) = n
  BY FS_Interval
<1>2. IsFiniteSet(T) /\ Cardinality(T) \in Nat /\ Cardinality(T) <= n
  BY <1>1, FS_Subset, FS_CardinalityType
<1> DEFINE c == Cardinality(T)
<1>3. \A j \in T : j <= c
  <2> TAKE j \in T
  <2>1. 1 .. j \in SUBSET T /\ j \in Nat
    OBVIOUS
  <2>2. Cardinality(1 .. j) = j
    BY <2>1, FS_Interval
  <2>. QED BY <1>2, <2>1, <2>2, FS_Subset
<1>4. T \in SUBSET (1 .. c)
  BY <1>3
<1>5. IsFiniteSet(1 .. c) /\ Cardinality(1 .. c) = c
  BY <1>2, FS_Interval
<1>6. T = 1 .. c
  BY <1>4, <1>5, FS_Subset
<1>. QED BY <1>2, <1>6

(* Taking off the first, and pushing in front. *)
LEMMA TailFacts ==
  ASSUME NEW S, NEW list \in Seq(S), list # <<>>, NoRepeat(list)
  PROVE  /\ Head(list) \in S /\ Head(list) \in Listed(list) /\ Tail(list) \in Seq(S)
         /\ Listed(Tail(list)) = Listed(list) \ {Head(list)}
         /\ NoRepeat(Tail(list))
<1>1. /\ Len(list) \in Nat \ {0} /\ Head(list) = list[1] /\ Tail(list) \in Seq(S)
      /\ Len(Tail(list)) = Len(list) - 1
      /\ \A k \in 1 .. Len(list) - 1 : Tail(list)[k] = list[k + 1]
  BY HeadTailProperties
<1> DEFINE w == Tail(list)
<1>2. NoRepeat(w)
  BY <1>1 DEF NoRepeat
<1>0. \A k \in 1 .. Len(w) : k + 1 \in 1 .. Len(list)
  BY <1>1
<1>3. \A u \in Listed(w) : u \in Listed(list) /\ u # list[1]
  BY <1>0, <1>1 DEF Listed, NoRepeat
<1>4. ASSUME NEW u \in Listed(list), u # list[1] PROVE u \in Listed(w)
  <2>1. PICK k \in 1 .. Len(list) : list[k] = u
    BY DEF Listed
  <2>2. k - 1 \in 1 .. Len(w) /\ w[k - 1] = u
    BY <1>1, <1>4, <2>1
  <2>. QED BY <2>2, <1>1, ListedAt
<1>5. list[1] \in S /\ list[1] \in Listed(list)
  BY <1>1, ListedAt
<1>. QED BY <1>1, <1>2, <1>3, <1>4, <1>5

(* Pushing in front a timer that is not there. *)
LEMMA PushFacts ==
  ASSUME NEW S, NEW list \in Seq(S), NEW t \in S, t \notin Listed(list), NoRepeat(list)
  PROVE  /\ Push(list, t) \in Seq(S) /\ NoRepeat(Push(list, t))
         /\ Listed(Push(list, t)) = Listed(list) \cup {t}
<1> DEFINE w == Push(list, t)
<1>1. <<t>> \in Seq(S) /\ Len(<<t>>) = 1 /\ <<t>>[1] = t
  OBVIOUS
<1>2. /\ w \in Seq(S) /\ Len(w) = Len(list) + 1 /\ w[1] = t
      /\ \A k \in 1 .. Len(list) : w[k + 1] = list[k]
      /\ \A k \in 2 .. Len(w) : w[k] = list[k - 1]
  BY <1>1, ConcatProperties DEF Push
<1> HIDE DEF w
<1>3. \A k \in 2 .. Len(w) : k - 1 \in 1 .. Len(list)
  BY <1>2
<1>4. NoRepeat(w)
  BY <1>2, <1>3 DEF NoRepeat, Listed
<1>5. \A u \in Listed(w) : u \in Listed(list) \cup {t}
  BY <1>2, <1>3 DEF Listed
<1>6. ASSUME NEW u \in Listed(list) PROVE u \in Listed(w)
  <2>1. PICK k \in 1 .. Len(list) : list[k] = u
    BY ListedAt
  <2>2. k + 1 \in 1 .. Len(w) /\ w[k + 1] = u
    BY <1>2, <2>1
  <2>. QED BY <1>2, <2>2, ListedAt
<1>7. t \in Listed(w)
  BY <1>2 DEF Listed
<1>. QED BY <1>2, <1>4, <1>5, <1>6, <1>7 DEF w

(* What SubSeq leaves. *)
LEMMA PartFacts ==
  ASSUME NEW S, NEW list \in Seq(S), NEW m \in 0 .. Len(list)
  PROVE  /\ SubSeq(list, 1, m) \in Seq(S) /\ Len(SubSeq(list, 1, m)) = m
         /\ \A j \in 1 .. m : SubSeq(list, 1, m)[j] = list[j]
         /\ SubSeq(list, m + 1, Len(list)) \in Seq(S)
         /\ Len(SubSeq(list, m + 1, Len(list))) = Len(list) - m
         /\ \A j \in 1 .. Len(list) - m : SubSeq(list, m + 1, Len(list))[j] = list[j + m]
<1>1. Len(list) \in Nat /\ m \in Nat /\ \A j \in 1 .. Len(list) : list[j] \in S
  OBVIOUS
<1>2. /\ SubSeq(list, 1, m) \in Seq(S) /\ Len(SubSeq(list, 1, m)) = m
      /\ \A j \in 1 .. m : SubSeq(list, 1, m)[j] = list[j]
  <2>1. \A j \in 1 .. m : list[j] \in S
    BY <1>1
  <2>. QED BY <1>1, <2>1, SubSeqProperties
<1>3. /\ SubSeq(list, m + 1, Len(list)) \in Seq(S)
      /\ Len(SubSeq(list, m + 1, Len(list))) = Len(list) - m
      /\ \A j \in 1 .. Len(list) - m : SubSeq(list, m + 1, Len(list))[j] = list[j + m]
  <2>1. \A j \in m + 1 .. Len(list) : list[j] \in S
    BY <1>1
  <2>. QED BY <1>1, <2>1, SubSeqProperties
<1>. QED BY <1>2, <1>3

(* What \o joins. *)
LEMMA JoinFacts ==
  ASSUME NEW S, NEW a \in Seq(S), NEW b \in Seq(S)
  PROVE  /\ a \o b \in Seq(S) /\ Len(a \o b) = Len(a) + Len(b)
         /\ \A i \in 1 .. Len(a) : (a \o b)[i] = a[i]
         /\ \A i \in 1 .. Len(b) : (a \o b)[Len(a) + i] = b[i]
<1>1. Len(a) \in Nat /\ Len(b) \in Nat
  OBVIOUS
<1>. QED BY <1>1, ConcatProperties

(* Putting a timer that is not in a sorted list where it belongs: lists of  *)
(* f-values, f being the expiry times before the step.                      *)
LEMMA InsertedFacts ==
  ASSUME expire \in [Timers -> Nat], NEW list \in Seq(Timers), NoRepeat(list),
         NEW t \in Timers, t \notin Listed(list), NEW e \in Nat,
         \A i, j \in 1 .. Len(list) : i <= j => expire[list[i]] <= expire[list[j]]
  PROVE  LET w == Inserted(list, t, e)
             f == [expire EXCEPT ![t] = e]
         IN /\ w \in Seq(Timers) /\ NoRepeat(w)
            /\ Listed(w) = Listed(list) \cup {t}
            /\ \A i, j \in 1 .. Len(w) : i <= j => f[w[i]] <= f[w[j]]
<1> DEFINE T == {j \in DOMAIN list : expire[list[j]] <= e}
           k == Cardinality(T)
           a == SubSeq(list, 1, k)
           b == SubSeq(list, k + 1, Len(list))
           w == Inserted(list, t, e)
           f == [expire EXCEPT ![t] = e]
           n == Len(list)
<1>1. n \in Nat /\ DOMAIN list = 1 .. n /\ \A j \in 1 .. n : list[j] \in Timers /\ expire[list[j]] \in Nat
  OBVIOUS
<1>2. T \in SUBSET (1 .. n) /\ \A j \in T : 1 .. j \subseteq T
  BY <1>1
<1>3. k \in 0 .. n /\ T = 1 .. k
  BY <1>1, <1>2, Prefix
<1>4. \A j \in 1 .. n : expire[list[j]] <= e <=> j <= k
  BY <1>1, <1>3
<1>5. w = a \o <<t>> \o b
  BY DEF Inserted
<1> HIDE DEF T, k, n
<1>n. n \in Nat /\ k \in Nat /\ k <= n /\ Len(list) = n
  BY <1>1, <1>3 DEF n
<1>6. /\ a \in Seq(Timers) /\ Len(a) = k /\ \A j \in 1 .. k : a[j] = list[j]
      /\ b \in Seq(Timers) /\ Len(b) = n - k /\ \A j \in 1 .. n - k : b[j] = list[j + k]
  BY <1>3, <1>n, PartFacts
<1> HIDE DEF a, b, w
<1>7. <<t>> \in Seq(Timers) /\ Len(<<t>>) = 1 /\ <<t>>[1] = t
  OBVIOUS
<1> DEFINE c == a \o <<t>>
<1>8. /\ c \in Seq(Timers) /\ Len(c) = k + 1 /\ c[k + 1] = t
      /\ \A j \in 1 .. k : c[j] = list[j]
  <2>1. 1 \in 1 .. 1
    OBVIOUS
  <2>. QED BY <1>n, <1>6, <1>7, <2>1, JoinFacts
<1>9. w = c \o b
  BY <1>5
<1> HIDE DEF c
<1>10. /\ w \in Seq(Timers) /\ Len(w) = n + 1 /\ w[k + 1] = t
       /\ \A j \in 1 .. k : w[j] = list[j]
       /\ \A j \in k + 1 .. n : w[j + 1] = list[j]
  <2>1. /\ w \in Seq(Timers) /\ Len(w) = Len(c) + Len(b)
        /\ \A j \in 1 .. Len(c) : w[j] = c[j]
        /\ \A j \in 1 .. Len(b) : w[Len(c) + j] = b[j]
    <3>1. c \in Seq(Timers) /\ b \in Seq(Timers)
      BY <1>6, <1>8
    <3>. QED BY <3>1, <1>9, JoinFacts
  <2>2. Len(w) = n + 1
    BY <1>n, <1>6, <1>8, <2>1
  <2>3. w[k + 1] = t /\ \A j \in 1 .. k : w[j] = list[j]
    BY <1>n, <1>8, <2>1
  <2>4. ASSUME NEW j \in k + 1 .. n PROVE w[j + 1] = list[j]
    <3>1. j - k \in 1 .. n - k /\ (k + 1) + (j - k) = j + 1 /\ (j - k) + k = j
      BY <1>n
    <3>2. b[j - k] = list[j]
      BY <1>6, <3>1
    <3>3. w[(k + 1) + (j - k)] = b[j - k]
      BY <1>6, <1>8, <2>1, <3>1
    <3>. QED BY <3>1, <3>2, <3>3
  <2>. QED BY <2>1, <2>2, <2>3, <2>4
<1>11. \A j \in 1 .. n : list[j] # t
  BY <1>n, <1>1 DEF Listed
<1>a. \A h \in 1 .. n + 1 : \/ h \in 1 .. k
                            \/ h = k + 1
                            \/ \E j \in k + 1 .. n : h = j + 1 /\ j \in 1 .. n
  <2> TAKE h \in 1 .. n + 1
  <2>1. CASE h <= k + 1
    BY <1>n, <2>1
  <2>2. CASE h > k + 1
    <3>1. h - 1 \in k + 1 .. n /\ h = (h - 1) + 1 /\ h - 1 \in 1 .. n
      BY <1>n, <2>2
    <3>. QED BY <3>1
  <2>. QED BY <1>n, <2>1, <2>2
<1>b. \A j \in 1 .. k : j \in 1 .. n /\ j \in 1 .. n + 1
  BY <1>n
<1>12. NoRepeat(w)
  <2>1. \A i, j \in 1 .. n : list[i] = list[j] => i = j
    BY <1>1 DEF n, NoRepeat
  <2>2. DOMAIN w = 1 .. n + 1
    BY <1>10
  <2> SUFFICES ASSUME NEW i \in 1 .. n + 1, NEW j \in 1 .. n + 1, w[i] = w[j] PROVE i = j
    BY <2>2 DEF NoRepeat
  <2>3. ASSUME NEW h \in 1 .. n + 1
        PROVE  \/ h = k + 1 /\ w[h] = t
               \/ \E m \in 1 .. n : w[h] = list[m] /\ w[h] # t /\ h = IF m <= k THEN m ELSE m + 1
    <3>1. CASE h \in 1 .. k
      BY <1>10, <1>11, <1>b, <3>1
    <3>2. CASE h = k + 1
      BY <1>10, <3>2
    <3>3. CASE \E m \in k + 1 .. n : h = m + 1 /\ m \in 1 .. n
      <4>1. PICK m \in k + 1 .. n : h = m + 1 /\ m \in 1 .. n
        BY <3>3
      <4>2. w[h] = list[m] /\ w[h] # t
        BY <1>10, <1>11, <4>1
      <4>3. ~(m <= k)
        BY <1>n
      <4>. QED BY <4>1, <4>2, <4>3
    <3>. QED BY <1>a, <3>1, <3>2, <3>3
  <2>. QED BY <2>1, <2>3
<1>13. Listed(w) = Listed(list) \cup {t}
  <2>1. ASSUME NEW u \in Listed(w) PROVE u \in Listed(list) \cup {t}
    <3>1. PICK h \in 1 .. n + 1 : w[h] = u
      BY <1>10, ListedAt
    <3>2. w[h] = t \/ \E j \in 1 .. n : w[h] = list[j]
      BY <1>10, <1>a, <1>b
    <3>3. \A j \in 1 .. n : list[j] \in Listed(list)
      BY <1>n, ListedAt
    <3>. QED BY <3>1, <3>2, <3>3
  <2>2. ASSUME NEW u \in Listed(list) PROVE u \in Listed(w)
    <3>0. \A j \in 1 .. n + 1 : w[j] \in Listed(w)
      BY <1>10, ListedAt
    <3>1. PICK j \in 1 .. n : list[j] = u
      BY <1>n, ListedAt
    <3>2. CASE j <= k
      BY <1>n, <1>10, <1>b, <3>0, <3>1, <3>2
    <3>3. CASE j > k
      <4>1. j \in k + 1 .. n /\ j + 1 \in 1 .. n + 1
        BY <1>n, <3>3
      <4>. QED BY <1>10, <3>0, <3>1, <4>1
    <3>. QED BY <1>n, <3>2, <3>3
  <2>3. t \in Listed(w)
    <3>1. k + 1 \in 1 .. n + 1
      BY <1>n
    <3>. QED BY <3>1, <1>10, ListedAt
  <2>. QED BY <2>1, <2>2, <2>3
<1>14. ASSUME NEW i \in 1 .. n + 1, NEW j \in 1 .. n + 1, i <= j
       PROVE  f[w[i]] <= f[w[j]]
  <2>0. f[t] = e /\ \A h \in 1 .. n : f[list[h]] = expire[list[h]]
    BY <1>1, <1>11, <1>n DEF n
  <2> HIDE DEF f
  <2>1. \A h \in 1 .. k : f[w[h]] = expire[list[h]] /\ expire[list[h]] <= e
    BY <1>4, <1>10, <1>b, <2>0
  <2>2. \A h \in k + 1 .. n : f[w[h + 1]] = expire[list[h]] /\ expire[list[h]] > e
    <3> TAKE h \in k + 1 .. n
    <3>1. h \in 1 .. n /\ ~(h <= k)
      BY <1>n
    <3>. QED BY <1>1, <1>4, <1>10, <2>0, <3>1 DEF n
  <2>3. f[w[k + 1]] = e
    BY <1>10, <2>0
  <2>4. \A h, m \in 1 .. n : h <= m => expire[list[h]] <= expire[list[m]]
    BY <1>n
  <2>5. \A h \in 1 .. n : expire[list[h]] \in Nat
    BY <1>1 DEF n
  <2>6. CASE j \in 1 .. k
    BY <1>n, <1>14, <1>b, <2>1, <2>4, <2>6
  <2>7. CASE j = k + 1
    BY <1>n, <1>14, <1>a, <2>1, <2>3, <2>7
  <2>8. CASE j > k + 1
    <3>1. PICK h \in k + 1 .. n : j = h + 1 /\ h \in 1 .. n
      BY <1>n, <1>a, <2>8
    <3>2. CASE i \in 1 .. k \/ i = k + 1
      BY <1>b, <2>1, <2>2, <2>3, <2>5, <3>1, <3>2
    <3>3. CASE \E m \in k + 1 .. n : i = m + 1 /\ m \in 1 .. n
      BY <1>14, <2>2, <2>4, <3>1, <3>3
    <3>. QED BY <1>a, <3>2, <3>3
  <2>. QED BY <1>n, <2>6, <2>7, <2>8
<1>. QED BY <1>10, <1>12, <1>13, <1>14 DEF w

(* The first k of a list, the last of them first. *)
Flipped(v, list, k) == Len(v) = k /\ \A j \in 1 .. k : v[j] = list[k + 1 - j]

(* What rte_timer_manage puts in front of expired. *)
LEMMA FlippedFacts ==
  ASSUME NEW S, NEW list \in Seq(S), NEW k \in 0 .. Len(list)
  PROVE  LET v == [j \in 1 .. k |-> SubSeq(list, 1, k)[k + 1 - j]]
         IN v \in Seq(S) /\ Flipped(v, list, k)
<1> DEFINE due == SubSeq(list, 1, k)
           v == [j \in 1 .. k |-> due[k + 1 - j]]
<1>1. k \in Nat /\ k <= Len(list) /\ \A j \in 1 .. Len(list) : list[j] \in S
  OBVIOUS
<1>2. \A j \in 1 .. k : due[j] = list[j]
  BY PartFacts
<1> HIDE DEF due
<1>3. \A j \in 1 .. k : k + 1 - j \in 1 .. k /\ k + 1 - j \in 1 .. Len(list)
  BY <1>1
<1>4. \A j \in 1 .. k : v[j] = list[k + 1 - j] /\ v[j] \in S
  BY <1>1, <1>2, <1>3
<1>5. v \in Seq(S) /\ Len(v) = k
  BY <1>1, <1>4
<1>. QED BY <1>4, <1>5 DEF due, Flipped

(* Moving the first k of one list, the last of them first, to the front of  *)
(* another.                                                                 *)
LEMMA CollectFacts ==
  ASSUME NEW S, NEW list \in Seq(S), NEW ex \in Seq(S), NEW k \in 0 .. Len(list),
         NoRepeat(list), NoRepeat(ex), Listed(list) \cap Listed(ex) = {},
         NEW v \in Seq(S), Flipped(v, list, k)
  PROVE  LET rest == SubSeq(list, k + 1, Len(list))
             w == v \o ex
         IN /\ rest \in Seq(S) /\ w \in Seq(S)
            /\ NoRepeat(rest) /\ NoRepeat(w) /\ Keeps(rest, list)
            /\ Listed(rest) \cup Listed(w) = Listed(list) \cup Listed(ex)
            /\ Listed(rest) \cap Listed(w) = {}
            /\ Listed(rest) \subseteq Listed(list)
            /\ Listed(w) = Listed(ex) \cup {list[j] : j \in 1 .. k}
<1> DEFINE n == Len(list)
           rest == SubSeq(list, k + 1, n)
           w == v \o ex
           First == {list[j] : j \in 1 .. k}
<1>1. n \in Nat /\ k \in Nat /\ k <= n /\ Len(ex) \in Nat
  OBVIOUS
<1>2. /\ rest \in Seq(S) /\ Len(rest) = n - k
      /\ \A j \in 1 .. n - k : rest[j] = list[j + k]
  BY PartFacts
<1>3. \A j \in 1 .. n : list[j] \in S /\ list[j] \in Listed(list)
  BY ListedAt
<1>4. \A i, j \in 1 .. n : list[i] = list[j] => i = j
  BY DEF NoRepeat
<1> HIDE DEF rest, n
<1>5. \A j \in 1 .. k : k + 1 - j \in 1 .. k /\ v[j] = list[k + 1 - j] /\ v[j] \in S
  BY <1>1, <1>3 DEF Flipped
<1>6. v \in Seq(S) /\ Len(v) = k
  BY DEF Flipped
<1>7. /\ w \in Seq(S) /\ Len(w) = k + Len(ex)
      /\ \A i \in 1 .. k : w[i] = v[i]
      /\ \A i \in 1 .. Len(ex) : w[k + i] = ex[i]
  <2>1. /\ v \o ex \in Seq(S) /\ Len(v \o ex) = Len(v) + Len(ex)
        /\ \A i \in 1 .. Len(v) : (v \o ex)[i] = v[i]
        /\ \A i \in 1 .. Len(ex) : (v \o ex)[Len(v) + i] = ex[i]
    <3>1. v \in Seq(S)
      BY <1>6
    <3>. QED BY <3>1, JoinFacts
  <2>. QED BY <1>6, <2>1
<1> HIDE DEF w
<1>8. \A j \in 1 .. n - k : j + k \in 1 .. n /\ j + k > k
  BY <1>1
<1>9. NoRepeat(rest)
  <2> SUFFICES ASSUME NEW i \in 1 .. n - k, NEW j \in 1 .. n - k, rest[i] = rest[j] PROVE i = j
    BY <1>2 DEF NoRepeat
  <2>1. i + k = j + k
    BY <1>2, <1>4, <1>8
  <2>. QED BY <1>1, <2>1
<1>10. Keeps(rest, list)
  <2>1. Len(list) = n
    BY DEF n
  <2> SUFFICES ASSUME NEW i \in 1 .. n - k, NEW j \in 1 .. n - k, i <= j
               PROVE  i + k <= j + k
    BY <1>2, <1>8, <2>1 DEF Keeps
  <2>. QED BY <1>1
<1>11. Listed(rest) \subseteq Listed(list) /\ Listed(rest) \cap First = {}
  <2> SUFFICES ASSUME NEW u \in Listed(rest) PROVE u \in Listed(list) /\ u \notin First
    OBVIOUS
  <2>1. PICK j \in 1 .. n - k : rest[j] = u
    BY <1>2, ListedAt
  <2>2. j + k \in 1 .. n /\ j + k > k /\ u = list[j + k]
    BY <1>2, <1>8, <2>1
  <2>3. \A i \in 1 .. k : i \in 1 .. n /\ i # j + k
    BY <1>1, <2>2
  <2>. QED BY <1>3, <1>4, <2>2, <2>3
<1>12. \A h \in 1 .. k + Len(ex) : h \in 1 .. k \/ \E i \in 1 .. Len(ex) : h = k + i
  <2> TAKE h \in 1 .. k + Len(ex)
  <2>1. CASE h <= k
    BY <1>1, <2>1
  <2>2. CASE h > k
    <3>1. h - k \in 1 .. Len(ex) /\ h = k + (h - k)
      BY <1>1, <2>2
    <3>. QED BY <3>1
  <2>. QED BY <1>1, <2>1, <2>2
<1>13. First \subseteq Listed(list)
  <2>1. \A j \in 1 .. k : j \in 1 .. n
    BY <1>1
  <2>. QED BY <1>3, <2>1
<1>14. Listed(w) = Listed(ex) \cup First
  <2>1. ASSUME NEW u \in Listed(w) PROVE u \in Listed(ex) \cup First
    <3>1. PICK h \in 1 .. k + Len(ex) : w[h] = u
      BY <1>7, ListedAt
    <3>2. CASE h \in 1 .. k
      BY <1>5, <1>7, <3>1, <3>2
    <3>3. CASE \E i \in 1 .. Len(ex) : h = k + i
      <4>1. PICK i \in 1 .. Len(ex) : h = k + i
        BY <3>3
      <4>2. u = ex[i]
        BY <1>7, <3>1, <4>1
      <4>. QED BY <4>2, ListedAt
    <3>. QED BY <1>12, <3>2, <3>3
  <2>2. \A h \in 1 .. k + Len(ex) : w[h] \in Listed(w)
    BY <1>7, ListedAt
  <2>3. ASSUME NEW u \in Listed(ex) PROVE u \in Listed(w)
    <3>1. PICK i \in 1 .. Len(ex) : ex[i] = u
      BY ListedAt
    <3>2. k + i \in 1 .. k + Len(ex)
      BY <1>1
    <3>. QED BY <1>7, <2>2, <3>1, <3>2
  <2>4. ASSUME NEW j \in 1 .. k PROVE list[j] \in Listed(w)
    <3>1. k + 1 - j \in 1 .. k /\ k + 1 - (k + 1 - j) = j
      BY <1>1
    <3>2. v[k + 1 - j] = list[j]
      BY <1>5, <3>1
    <3>3. k + 1 - j \in 1 .. k + Len(ex)
      BY <1>1, <3>1
    <3>. QED BY <1>7, <2>2, <3>1, <3>2, <3>3
  <2>. QED BY <2>1, <2>3, <2>4
<1>15. NoRepeat(w)
  <2>1. DOMAIN w = 1 .. k + Len(ex)
    BY <1>7
  <2>2. \A i \in 1 .. k, j \in 1 .. Len(ex) : w[i] # w[k + j]
    <3> TAKE i \in 1 .. k, j \in 1 .. Len(ex)
    <3>1. w[i] \in First
      BY <1>5, <1>7
    <3>2. w[k + j] \in Listed(ex)
      BY <1>7, ListedAt
    <3>. QED BY <1>13, <3>1, <3>2
  <2>3. \A i, j \in 1 .. k : w[i] = w[j] => i = j
    <3> TAKE i, j \in 1 .. k
    <3>1. k + 1 - i \in 1 .. n /\ k + 1 - j \in 1 .. n
      BY <1>1
    <3>2. w[i] = list[k + 1 - i] /\ w[j] = list[k + 1 - j]
      BY <1>5, <1>7
    <3> HAVE w[i] = w[j]
    <3>4. k + 1 - i = k + 1 - j
      BY <1>4, <3>1, <3>2
    <3>. QED BY <1>1, <3>4
  <2>4. \A i, j \in 1 .. Len(ex) : w[k + i] = w[k + j] => i = j
    BY <1>7 DEF NoRepeat
  <2>. QED BY <1>12, <2>1, <2>2, <2>3, <2>4 DEF NoRepeat
<1>16. Listed(list) \subseteq Listed(rest) \cup First
  <2> SUFFICES ASSUME NEW u \in Listed(list), u \notin First PROVE u \in Listed(rest)
    OBVIOUS
  <2>1. PICK j \in 1 .. n : list[j] = u
    BY ListedAt DEF n
  <2>2. j > k
    BY <1>1, <2>1
  <2>3. j - k \in 1 .. n - k /\ (j - k) + k = j
    BY <1>1, <2>2
  <2>4. rest[j - k] = u
    BY <1>2, <2>1, <2>3
  <2>. QED BY <1>2, <2>3, <2>4, ListedAt
<1>17. Listed(rest) \cap Listed(w) = {}
  BY <1>11, <1>14
<1>18. Listed(rest) \cup Listed(w) = Listed(list) \cup Listed(ex)
  BY <1>11, <1>13, <1>14, <1>16
<1>. QED BY <1>2, <1>7, <1>9, <1>10, <1>11, <1>14, <1>15, <1>17, <1>18 DEF w, rest, n

-----------------------------------------------------------------------------
Queues == {"pending", "expired", "done"}
In(t, q, l) == t \in Listed(List(q, l))

(* The lists of an lcore have no timer twice, and no timer is in two lists. *)
NoRepeats == \A l \in Lcores, q \in Queues : NoRepeat(List(q, l))
Unique == \A t \in Timers, l, o \in Lcores, q, r \in Queues :
            In(t, q, l) /\ In(t, r, o) => q = r /\ l = o

(* Where the timers are that nobody configures, ...                         *)
OnListOf(t, o) == \E q \in Queues : In(t, q, o)
Unlisted(t) == \A o \in Lcores : ~OnListOf(t, o)
PlacedAt(t) ==
  /\ Is(t, "STOP") => Unlisted(t)
  /\ InUse(status[t]) => status[t].owner \in Lcores /\ OnListOf(t, status[t].owner)
  /\ Is(t, "RUNNING") => In(t, "done", status[t].owner)
Placed == \A t \in Timers : PlacedAt(t)

(* ... and the one a call of reset or stop is moving.                       *)
MovingAt(l) ==
  /\ pc[l] = "del" => call[l].prev.owner \in Lcores /\ OnListOf(call[l].t, call[l].prev.owner)
  /\ pc[l] = "add" => call[l].op = "reset" /\ Unlisted(call[l].t)
  /\ pc[l] = "publish" => IF call[l].op = "reset" THEN OnListOf(call[l].t, call[l].lcore)
                                                   ELSE Unlisted(call[l].t)
Moving == \A l \in Lcores : MovingAt(l)

(* rte_timer_manage holds its lock while it works on its lists; what it has *)
(* yet to browse is in done.                                                *)
LockedAt(l) ==
  /\ list_lock[l] <=> pc[l] \in {"run", "browse", "reload"}
  /\ pc[l] \in {"browse", "reload"} => /\ NoRepeat(todo[l])
                                       /\ Listed(todo[l]) \subseteq Listed(done[l])
  /\ pc[l] = "reload" => todo[l] # <<>>
Locked == \A l \in Lcores : LockedAt(l)

(* What is in expired, or executed, is due.                                 *)
DueAt(l) ==
  /\ cur_time[l] <= now
  /\ \A t \in Listed(expired[l]) : expire[t] <= cur_time[l]
  /\ pc[l] # "run" /\ ~InCallback(l) => expired[l] = <<>>
  /\ \A t \in Timers : InCallback(l) /\ tim[l] = <<t>> /\ ~touched[l] => expire[t] <= now
Due == \A l \in Lcores : DueAt(l)

(* Whoever has a timer RUNNING will look at it before it leaves             *)
(* rte_timer_manage.                                                        *)
Running == \A t \in Timers : Is(t, "RUNNING") => InManage(status[t].owner, t)

LInv == /\ TypeOK /\ NoRepeats /\ Unique /\ Placed /\ Moving /\ Locked /\ Due /\ SortedPending
        /\ Running

-----------------------------------------------------------------------------
(* All lists are empty at the start. *)
LEMMA InitLInv == Init => LInv
<1> SUFFICES ASSUME Init PROVE LInv
  OBVIOUS
<1>0. \A q \in Queues, l \in Lcores : List(q, l) = <<>>
  BY DEF Init, List, Queues
<1>1. Listed(<<>>) = {} /\ NoRepeat(<<>>)
  BY DEF Listed, NoRepeat
<1>2. TypeOK
  BY DEF Init, TypeOK, Stopped, Status
<1>3. NoRepeats /\ Unique
  BY <1>0, <1>1 DEF NoRepeats, Unique, In
<1>4. Placed /\ Moving
  BY <1>0, <1>1 DEF Init, Placed, PlacedAt, Moving, MovingAt, Unlisted, OnListOf, In, Is, InUse, Stopped, Status
<1>5. Locked /\ Due
  BY <1>1 DEF Init, Locked, LockedAt, Due, DueAt, InCallback, CallLabels
<1>6. SortedPending /\ Running
  BY DEF Init, SortedPending, Running, Is, Stopped, Status
<1>. QED BY <1>2, <1>3, <1>4, <1>5, <1>6 DEF LInv

(* What the invariant says of one list. *)
LEMMA ListTypes ==
  ASSUME LInv, NEW q \in Queues, NEW l \in Lcores
  PROVE  List(q, l) \in Seq(Timers) /\ NoRepeat(List(q, l))
  BY DEF LInv, TypeOK, List, Queues, NoRepeats

(* What rte_timer_manage counts as due is a prefix of pending, and is due. *)
LEMMA CountedDue ==
  ASSUME LInv, NEW l \in Lcores
  PROVE  /\ DueCount(l) \in 0 .. Len(pending[l])
         /\ \A j \in 1 .. DueCount(l) : expire[pending[l][j]] <= cur_time[l]
<1> DEFINE n == Len(pending[l])
           T == {k \in DOMAIN pending[l] : \A j \in 1 .. k : Expired(l, pending[l][j])}
<1>1. n \in Nat /\ DOMAIN pending[l] = 1 .. n
  BY DEF LInv, TypeOK
<1>2. T \in SUBSET (1 .. n) /\ \A j \in T : 1 .. j \subseteq T
  BY <1>1
<1>3. Cardinality(T) \in 0 .. n /\ T = 1 .. Cardinality(T)
  BY <1>1, <1>2, Prefix
<1>4. \A j \in T : Expired(l, pending[l][j])
  BY <1>1
<1>. QED BY <1>3, <1>4 DEF DueCount, Expired

(* A timer in done that is being browsed. *)
LEMMA Browsed ==
  ASSUME IInv, LInv, NEW l \in Lcores, pc[l] \in {"browse", "reload"}, todo[l] # <<>>
  PROVE  /\ Head(todo[l]) \in Timers /\ In(Head(todo[l]), "done", l)
         /\ Tail(todo[l]) \in Seq(Timers) /\ NoRepeat(Tail(todo[l]))
         /\ Listed(Tail(todo[l])) = Listed(todo[l]) \ {Head(todo[l])}
<1>1. /\ todo[l] \in Seq(Timers) /\ NoRepeat(todo[l]) /\ Listed(todo[l]) \subseteq Listed(done[l])
  BY DEF LInv, TypeOK, Locked, LockedAt
<1>2. Listed(done[l]) = Listed(List("done", l))
  BY DEF List
<1>. QED BY <1>1, <1>2, TailFacts DEF In

(* Where an lcore is when it has a call, and what the call says.            *)
LEMMA CallType ==
  ASSUME IInv, LInv, NEW l \in Lcores, pc[l] \in CallLabels
  PROVE  /\ call[l] \in Call /\ call[l].t \in Timers /\ call[l].lcore \in Lcores
         /\ call[l].expire \in Nat /\ call[l].period \in Nat
         /\ call[l].back \in {"idle", "callback"}
  BY DEF IInv, CallKnown, Call

(* Expiry times are numbers, lists are sequences of timers: every step      *)
(* keeps the types.                                                         *)
LEMMA TypeStep == IInv /\ LInv /\ IInv' /\ [Next]_vars => TypeOK'
<1> SUFFICES ASSUME IInv, LInv, IInv', [Next]_vars PROVE TypeOK'
  OBVIOUS
<1> DEFINE StatusOK == status \in [Timers -> [state : {"STOP", "PENDING", "RUNNING", "CONFIG"},
                                              owner : Lcores \cup {NO_OWNER}]]
           CallOK == /\ call \in [Lcores -> {<<>>} \cup Call]
                     /\ pc \in [Lcores -> {"idle", "config", "del", "add", "publish", "collect",
                                          "run", "callback", "relock", "browse", "reload"}]
                     /\ updated \in [Lcores -> BOOLEAN] /\ touched \in [Lcores -> BOOLEAN]
                     /\ \A l \in Lcores : call[l] = <<>> <=> pc[l] \notin CallLabels
           ListsOK == /\ pending \in [Lcores -> Seq(Timers)]
                      /\ expired \in [Lcores -> Seq(Timers)]
                      /\ done \in [Lcores -> Seq(Timers)]
           TimesOK == /\ expire \in [Timers -> Nat] /\ period \in [Timers -> Nat]
                      /\ now \in Nat /\ calls \in Nat /\ cur_time \in [Lcores -> Nat]
           ManageOK == /\ list_lock \in [Lcores -> BOOLEAN]
                       /\ tim \in [Lcores -> Seq(Timers)]
                       /\ todo \in [Lcores -> Seq(Timers)]
<1>0. StatusOK /\ CallOK /\ ListsOK /\ TimesOK /\ ManageOK
  BY DEF LInv, TypeOK, CallLabels
<1>1. StatusOK'
  BY DEF IInv, Types
<1>2. CallOK'
  <2>1. \A c \in Call : c # <<>>
    BY DEF Call
  <2>2. call' \in [Lcores -> {<<>>} \cup Call]
    BY DEF IInv, Types
  <2>a. pc' \in [Lcores -> {"idle", "config", "del", "add", "publish", "collect",
                           "run", "callback", "relock", "browse", "reload"}]
    BY DEF IInv, Types, Labels, CallLabels
  <2>b. updated' \in [Lcores -> BOOLEAN] /\ touched' \in [Lcores -> BOOLEAN]
    BY DEF IInv, Types
  <2>3. \A l \in Lcores : pc'[l] \in CallLabels => call'[l] # <<>>
    BY <2>1 DEF IInv, CallKnown
  <2>4. ASSUME NEW l \in Lcores, pc'[l] \notin CallLabels PROVE call'[l] = <<>>
    <3>1. CASE UNCHANGED vars \/ Tick
      <4>1. UNCHANGED <<pc, call>>
        BY <3>1 DEF vars, Tick
      <4>. QED BY <1>0, <2>4, <4>1
    <3>2. ASSUME NEW o \in Lcores, Reset(o) \/ Stop(o) \/ Manage(o) \/ Step(o)
          PROVE  call'[l] = <<>>
      <4>1. CASE o # l
        <5>1. pc'[l] = pc[l] /\ call'[l] = call[l]
          BY <3>2, <4>1, <1>0 DEF Reset, Stop, Called, Manage, Step, Config, ConfigFails, Del,
             Add, Publish, Collect, Run, Skip, CallbackReturns, AfterCallback, Browse, Reload,
             ReloadFails, ReloadDone, ManageReturns, Goto
        <5>. QED BY <1>0, <2>4, <5>1
      <4>2. CASE o = l
        <5>1. CASE Reset(l) \/ Stop(l)
          <6>1. pc'[l] = "config"
            BY <5>1, <1>0 DEF Reset, Stop, Called, Goto
          <6>. QED BY <2>4, <6>1 DEF CallLabels
        <5>2. CASE ConfigFails(l) \/ Publish(l)
          BY <5>2, <1>0 DEF ConfigFails, Publish
        <5>3. CASE Config(l) \/ Del(l) \/ Add(l)
          <6>1. pc'[l] \in CallLabels
            BY <5>3, <1>0 DEF Config, Del, Add, Goto, CallLabels
          <6>. QED BY <2>4, <6>1
        <5>4. CASE \/ Manage(l) \/ Collect(l) \/ Run(l) \/ Skip(l) \/ CallbackReturns(l)
                   \/ AfterCallback(l) \/ Browse(l) \/ Reload(l) \/ ReloadFails(l)
                   \/ ReloadDone(l) \/ ManageReturns(l)
          <6>1. call' = call /\ pc[l] \notin CallLabels
            BY <5>4 DEF Manage, Collect, Run, Skip, CallbackReturns, AfterCallback, Browse,
               Reload, ReloadFails, ReloadDone, ManageReturns, At, CallLabels
          <6>. QED BY <1>0, <6>1
        <5>. QED BY <3>2, <4>2, <5>1, <5>2, <5>3, <5>4 DEF Step
      <4>. QED BY <4>1, <4>2
    <3>. QED BY <3>1, <3>2 DEF Next
  <2>. QED BY <2>2, <2>a, <2>b, <2>3, <2>4
<1>3. ASSUME ListsOK', TimesOK', ManageOK' PROVE TypeOK'
  BY <1>1, <1>2, <1>3 DEF TypeOK, CallLabels
<1>4. CASE UNCHANGED vars \/ Tick
  <2>1. /\ UNCHANGED <<pending, expired, done, list_lock, tim, todo, expire, period, cur_time, calls>>
        /\ now' \in {now, now + 1}
    BY <1>4 DEF vars, Tick, timers, lists, manage
  <2>. QED BY <1>0, <1>3, <2>1
<1>5. ASSUME NEW l \in Lcores, Reset(l) \/ Stop(l) \/ Manage(l) \/ Step(l)
      PROVE  TypeOK'
  <2>1. CASE Reset(l) \/ Stop(l)
    <3>1. /\ UNCHANGED <<pending, expired, done, list_lock, tim, todo, expire, period, cur_time, now>>
          /\ calls' = calls + 1
      BY <2>1 DEF Reset, Stop, Called, timers, lists, manage
    <3>. QED BY <1>0, <1>3, <3>1
  <2>2. CASE Config(l) \/ ConfigFails(l) \/ Publish(l) \/ CallbackReturns(l) \/ Reload(l)
    <3>1. UNCHANGED <<pending, expired, done, list_lock, tim, todo, expire, period, cur_time, now, calls>>
      BY <2>2 DEF Config, ConfigFails, Publish, CallbackReturns, Reload, timers, lists, manage
    <3>. QED BY <1>0, <1>3, <3>1
  <2>3. CASE Manage(l)
    BY <2>3, <1>0, <1>3 DEF Manage, timers, lists
  <2>4. CASE ManageReturns(l)
    BY <2>4, <1>0, <1>3 DEF ManageReturns, timers, lists
  <2>5. CASE Del(l)
    <3>1. \A o \in Lcores : \A t : /\ Without(pending[o], t) \in Seq(Timers)
                                /\ Without(expired[o], t) \in Seq(Timers)
                                /\ Without(done[o], t) \in Seq(Timers)
      <4> TAKE o \in Lcores
      <4>1. /\ pending[o] \in Seq(Timers) /\ NoRepeat(pending[o])
            /\ expired[o] \in Seq(Timers) /\ NoRepeat(expired[o])
            /\ done[o] \in Seq(Timers) /\ NoRepeat(done[o])
        BY <1>0 DEF LInv, NoRepeats, List, Queues
      <4>. QED BY <4>1, WithoutFacts
    <3>2. UNCHANGED <<list_lock, tim, todo, expire, period, cur_time, now, calls>>
      BY <2>5 DEF Del, timers, manage
    <3>3. Remove(call[l].prev.owner, call[l].t)
      BY <2>5 DEF Del
    <3>4. ListsOK'
      BY <1>0, <3>1, <3>3 DEF Remove
    <3>. QED BY <1>0, <1>3, <3>2, <3>4
  <2>6. CASE Add(l)
    <3>0. pc[l] \in CallLabels
      BY <2>6 DEF Add, At, CallLabels
    <3>1. Inserted(pending[call[l].lcore], call[l].t, call[l].expire) \in Seq(Timers)
      <4>1. /\ pending[call[l].lcore] \in Seq(Timers) /\ NoRepeat(pending[call[l].lcore])
            /\ call[l].t \notin Listed(pending[call[l].lcore])
        BY <2>6, <3>0, <1>0, CallType DEF LInv, NoRepeats, List, Queues, Moving, MovingAt, Add,
           At, Unlisted, OnListOf, In
      <4>2. \A i, j \in 1 .. Len(pending[call[l].lcore]) : i <= j =>
              expire[pending[call[l].lcore][i]] <= expire[pending[call[l].lcore][j]]
        BY <3>0, <4>1, CallType DEF LInv, SortedPending
      <4>. QED BY <1>0, <3>0, <4>1, <4>2, CallType, InsertedFacts
    <3>. QED BY <2>6, <1>0, <1>3, <3>0, <3>1, CallType DEF Add, manage
  <2>7. CASE Collect(l)
    <3> DEFINE k == DueCount(l)
               rest == SubSeq(pending[l], k + 1, Len(pending[l]))
               v == [j \in 1 .. k |-> SubSeq(pending[l], 1, k)[k + 1 - j]]
               front == v \o expired[l]
    <3>1. /\ pending[l] \in Seq(Timers) /\ NoRepeat(pending[l])
          /\ expired[l] \in Seq(Timers) /\ NoRepeat(expired[l])
      BY <1>0 DEF LInv, NoRepeats, List, Queues
    <3>2. Listed(pending[l]) \cap Listed(expired[l]) = {}
      <4>1. \A t \in Timers : ~(In(t, "pending", l) /\ In(t, "expired", l))
        BY DEF LInv, Unique, Queues
      <4>2. Listed(pending[l]) \subseteq Timers
        BY <3>1, ListedAt
      <4>. QED BY <4>1, <4>2 DEF In, List
    <3>3. k \in 0 .. Len(pending[l])
      BY CountedDue
    <3>4. /\ pending' = [pending EXCEPT ![l] = rest]
          /\ expired' = [expired EXCEPT ![l] = front]
          /\ list_lock' = [list_lock EXCEPT ![l] = TRUE]
          /\ UNCHANGED <<done, tim, todo, expire, period, cur_time, now, calls>>
      BY <2>7 DEF Collect, timers, manage
    <3> HIDE DEF k
    <3>v. v \in Seq(Timers) /\ Flipped(v, pending[l], k)
      BY <3>1, <3>3, FlippedFacts
    <3> HIDE DEF v
    <3>5. rest \in Seq(Timers) /\ front \in Seq(Timers)
      BY <3>1, <3>2, <3>3, <3>v, CollectFacts
    <3> HIDE DEF rest, front
    <3>. QED BY <1>0, <1>3, <3>4, <3>5
  <2>8. CASE Run(l) \/ Skip(l)
    <3> DEFINE t == Head(expired[l])
               rest == Tail(expired[l])
               front == Push(done[l], t)
    <3>1. expired[l] \in Seq(Timers) /\ expired[l] # <<>> /\ done[l] \in Seq(Timers)
      BY <2>8, <1>0 DEF Run, Skip
    <3>2. t \in Timers /\ rest \in Seq(Timers)
      BY <3>1, HeadTailProperties
    <3>3. front \in Seq(Timers)
      <4>1. <<t>> \in Seq(Timers)
        BY <3>2
      <4>. QED BY <3>1, <4>1, JoinFacts DEF Push
    <3>4. /\ expired' = [expired EXCEPT ![l] = rest]
          /\ done' = [done EXCEPT ![l] = front]
          /\ tim' \in {tim, [tim EXCEPT ![l] = <<t>>]}
          /\ list_lock' \in {list_lock, [list_lock EXCEPT ![l] = FALSE]}
          /\ UNCHANGED <<pending, todo, expire, period, cur_time, now, calls>>
      BY <2>8 DEF Run, Skip, timers, manage
    <3>a. <<t>> \in Seq(Timers)
      BY <3>2
    <3>5. tim' \in [Lcores -> Seq(Timers)]
      <4> HIDE DEF t
      <4>. QED BY <1>0, <3>a, <3>4
    <3> HIDE DEF t, rest, front
    <3>. QED BY <1>0, <1>3, <3>2, <3>3, <3>4, <3>5
  <2>9. CASE AfterCallback(l)
    <3>1. Without(done[l], tim[l][1]) \in Seq(Timers)
      <4>1. done[l] \in Seq(Timers) /\ NoRepeat(done[l])
        BY <1>0 DEF LInv, NoRepeats, List, Queues
      <4>. QED BY <4>1, WithoutFacts
    <3>2. done' \in [Lcores -> Seq(Timers)]
      BY <2>9, <1>0, <3>1 DEF AfterCallback
    <3>3. tim' \in [Lcores -> Seq(Timers)]
      BY <2>9, <1>0 DEF AfterCallback
    <3>. QED BY <2>9, <1>0, <1>3, <3>2, <3>3 DEF AfterCallback
  <2>10. CASE Browse(l)
    BY <2>10, <1>0, <1>3 DEF Browse, timers, lists
  <2>11. CASE ReloadFails(l)
    <3>1. Tail(todo[l]) \in Seq(Timers)
      BY <2>11, <1>0, HeadTailProperties DEF ReloadFails
    <3>. QED BY <2>11, <1>0, <1>3, <3>1 DEF ReloadFails, timers, lists
  <2>12. CASE ReloadDone(l)
    <3>0. pc[l] = "reload" /\ todo[l] # <<>>
      BY <2>12 DEF ReloadDone, At, LInv, Locked, LockedAt
    <3> DEFINE t == Head(todo[l])
               e == cur_time[l] + period[t]
    <3>1. t \in Timers /\ In(t, "done", l) /\ Tail(todo[l]) \in Seq(Timers)
      BY <3>0, Browsed
    <3>2. e \in Nat
      BY <1>0, <3>1
    <3>3. Without(done[l], t) \in Seq(Timers)
      <4>1. done[l] \in Seq(Timers) /\ NoRepeat(done[l])
        BY <1>0 DEF LInv, NoRepeats, List, Queues
      <4>. QED BY <4>1, WithoutFacts
    <3>4. Inserted(pending[l], t, e) \in Seq(Timers)
      <4>1. pending[l] \in Seq(Timers) /\ NoRepeat(pending[l])
        BY <1>0 DEF LInv, NoRepeats, List, Queues
      <4>2. t \notin Listed(pending[l])
        <5>1. ~In(t, "pending", l)
          BY <3>1 DEF LInv, Unique, Queues
        <5>. QED BY <5>1 DEF In, List
      <4>3. \A i, j \in 1 .. Len(pending[l]) : i <= j =>
              expire[pending[l][i]] <= expire[pending[l][j]]
        BY <4>1 DEF LInv, SortedPending
      <4>. QED BY <1>0, <3>1, <3>2, <4>1, <4>2, <4>3, InsertedFacts
    <3> HIDE DEF t, e
    <3>5. /\ done' = [done EXCEPT ![l] = Without(@, t)]
          /\ pending' = [pending EXCEPT ![l] = Inserted(@, t, e)]
          /\ expire' = [expire EXCEPT ![t] = e]
          /\ todo' = [todo EXCEPT ![l] = Tail(@)]
          /\ UNCHANGED <<period, expired, list_lock, now, cur_time, tim, calls>>
      BY <2>12 DEF ReloadDone, t, e
    <3>6. ListsOK' /\ TimesOK' /\ ManageOK'
      BY <1>0, <3>1, <3>2, <3>3, <3>4, <3>5
    <3>. QED BY <1>3, <3>6
  <2>. QED
    BY <1>5, <2>1, <2>2, <2>3, <2>4, <2>5, <2>6, <2>7, <2>8, <2>9, <2>10, <2>11, <2>12
       DEF Step
<1>. QED BY <1>4, <1>5 DEF Next

(* timer_del takes the timer off the list of its previous owner: it is in no list. *)
LEMMA DelEffect ==
  ASSUME IInv, LInv, NEW l \in Lcores, Del(l)
  PROVE  /\ call[l].t \in Timers /\ call[l].prev.owner \in Lcores
         /\ list_lock[call[l].prev.owner] = FALSE
         /\ \A u : \A q \in Queues, p \in Lcores :
              In(u, q, p)' <=> In(u, q, p) /\ ~(u = call[l].t /\ p = call[l].prev.owner)
         /\ NoRepeats' /\ \A p \in Lcores : Keeps(pending'[p], pending[p])
<1> DEFINE t == call[l].t
           o == call[l].prev.owner
<1>1. pc[l] = "del" /\ Remove(o, t) /\ Free(o)
  BY DEF Del, At
<1>2. t \in Timers /\ o \in Lcores
  BY <1>1, CallType DEF CallLabels, LInv, Moving, MovingAt
<1> HIDE DEF t, o
<1>3. \A q \in Queues, p \in Lcores :
        List(q, p)' = IF p = o THEN Without(List(q, p), t) ELSE List(q, p)
  BY <1>1, <1>2 DEF Remove, List, Queues, LInv, TypeOK
<1>4. \A q \in Queues, p \in Lcores :
        /\ Listed(Without(List(q, p), t)) = Listed(List(q, p)) \ {t}
        /\ NoRepeat(Without(List(q, p), t)) /\ Keeps(Without(List(q, p), t), List(q, p))
        /\ NoRepeat(List(q, p))
  BY ListTypes, WithoutFacts
<1>5. \A u : \A q \in Queues, p \in Lcores : In(u, q, p)' <=> In(u, q, p) /\ ~(u = t /\ p = o)
  BY <1>3, <1>4 DEF In
<1>6. NoRepeats'
  BY <1>3, <1>4 DEF NoRepeats
<1>7. \A p \in Lcores : Keeps(pending'[p], pending[p])
  <2> TAKE p \in Lcores
  <2>1. pending[p] = List("pending", p) /\ pending'[p] = List("pending", p)'
    BY DEF List
  <2>2. Keeps(pending[p], pending[p])
    BY DEF Keeps
  <2>3. "pending" \in Queues
    BY DEF Queues
  <2>4. pending'[p] = IF p = o THEN Without(pending[p], t) ELSE pending[p]
    BY <1>3, <2>1, <2>3
  <2>5. Keeps(Without(pending[p], t), pending[p])
    BY <1>4, <2>1, <2>3
  <2>. QED BY <2>2, <2>4, <2>5
<1>. QED BY <1>1, <1>2, <1>5, <1>6, <1>7 DEF t, o, Free

(* timer_add puts a timer that is in no list into the pending list of its target. *)
LEMMA AddEffect ==
  ASSUME IInv, LInv, NEW l \in Lcores, Add(l)
  PROVE  /\ call[l].t \in Timers /\ call[l].lcore \in Lcores
         /\ expire' = [expire EXCEPT ![call[l].t] = call[l].expire]
         /\ \A u : \A q \in Queues, p \in Lcores :
              In(u, q, p)' <=> \/ In(u, q, p)
                               \/ u = call[l].t /\ q = "pending" /\ p = call[l].lcore
         /\ NoRepeats' /\ SortedPending'
<1> DEFINE t == call[l].t
           o == call[l].lcore
           e == call[l].expire
           w == Inserted(pending[o], t, e)
<1>1. /\ pc[l] = "add" /\ pending' = [pending EXCEPT ![o] = w] /\ UNCHANGED <<expired, done>>
      /\ expire' = [expire EXCEPT ![t] = e]
  BY DEF Add, At
<1>2. t \in Timers /\ o \in Lcores /\ e \in Nat /\ Unlisted(t)
  BY <1>1, CallType DEF CallLabels, LInv, Moving, MovingAt
<1> HIDE DEF t, o, e, w
<1>3. /\ expire \in [Timers -> Nat] /\ pending \in [Lcores -> Seq(Timers)]
      /\ \A p \in Lcores : NoRepeat(pending[p])
      /\ \A p \in Lcores : Listed(pending[p]) \subseteq Timers /\ t \notin Listed(pending[p])
  <2>1. expire \in [Timers -> Nat] /\ pending \in [Lcores -> Seq(Timers)]
    BY DEF LInv, TypeOK
  <2>2. \A p \in Lcores : NoRepeat(pending[p])
    BY DEF LInv, NoRepeats, List, Queues
  <2>3. \A p \in Lcores : t \notin Listed(pending[p])
    BY <1>2 DEF Unlisted, OnListOf, In, List, Queues
  <2>. QED BY <2>1, <2>2, <2>3, ListedAt
<1>4. \A p \in Lcores : \A i, j \in 1 .. Len(pending[p]) : i <= j =>
        expire[pending[p][i]] <= expire[pending[p][j]]
  BY <1>3 DEF LInv, SortedPending
<1>5. /\ w \in Seq(Timers) /\ NoRepeat(w) /\ Listed(w) = Listed(pending[o]) \cup {t}
      /\ \A i, j \in 1 .. Len(w) : i <= j => expire'[w[i]] <= expire'[w[j]]
  <2>1. pending[o] \in Seq(Timers)
    BY <1>2, <1>3
  <2>. QED BY <1>1, <1>2, <1>3, <1>4, <2>1, InsertedFacts DEF w
<1>6. pending'[o] = w /\ \A p \in Lcores : p # o => pending'[p] = pending[p]
  BY <1>1, <1>2, <1>3
<1>7. \A u : \A q \in Queues, p \in Lcores :
        In(u, q, p)' <=> In(u, q, p) \/ (u = t /\ q = "pending" /\ p = o)
  <2> TAKE u
  <2> TAKE q \in Queues, p \in Lcores
  <2>1. CASE q = "pending"
    BY <2>1, <1>5, <1>6 DEF In, List
  <2>2. CASE q # "pending"
    BY <2>2, <1>1 DEF In, List
  <2>. QED BY <2>1, <2>2
<1>8. NoRepeats'
  <2> SUFFICES ASSUME NEW p \in Lcores, NEW q \in Queues PROVE NoRepeat(List(q, p)')
    BY DEF NoRepeats, NoRepeat
  <2>1. CASE q = "pending"
    BY <2>1, <1>3, <1>5, <1>6 DEF List
  <2>2. CASE q # "pending"
    BY <2>2, <1>1 DEF List, LInv, NoRepeats
  <2>. QED BY <2>1, <2>2
<1>9. SortedPending'
  <2> SUFFICES ASSUME NEW p \in Lcores, NEW j \in DOMAIN pending'[p],
                      NEW k \in DOMAIN pending'[p], j <= k
               PROVE  expire'[pending'[p][j]] <= expire'[pending'[p][k]]
    BY DEF SortedPending
  <2>1. CASE p = o
    BY <2>1, <1>5, <1>6
  <2>2. CASE p # o
    <3>1. j \in 1 .. Len(pending[p]) /\ k \in 1 .. Len(pending[p]) /\ pending'[p] = pending[p]
      BY <2>2, <1>3, <1>6
    <3>2. /\ pending[p][j] \in Timers /\ pending[p][j] # t
          /\ pending[p][k] \in Timers /\ pending[p][k] # t
      BY <1>3, <3>1, ListedAt
    <3>3. /\ expire'[pending[p][j]] = expire[pending[p][j]]
          /\ expire'[pending[p][k]] = expire[pending[p][k]]
      BY <1>1, <1>3, <3>2
    <3>. QED BY <1>4, <3>1, <3>3
  <2>. QED BY <2>1, <2>2
<1>. QED BY <1>1, <1>2, <1>7, <1>8, <1>9 DEF t, o, e

(* What is due goes from pending to expired; no timer changes lcore. *)
LEMMA CollectEffect ==
  ASSUME IInv, LInv, NEW l \in Lcores, Collect(l)
  PROVE  /\ done' = done
         /\ \A p \in Lcores \ {l} : pending'[p] = pending[p] /\ expired'[p] = expired[p]
         /\ Listed(pending'[l]) \cup Listed(expired'[l]) = Listed(pending[l]) \cup Listed(expired[l])
         /\ Listed(pending'[l]) \cap Listed(expired'[l]) = {}
         /\ \A t \in Listed(expired'[l]) : t \in Listed(expired[l]) \/ Expired(l, t)
         /\ \A p \in Lcores : Keeps(pending'[p], pending[p])
         /\ NoRepeats'
<1> DEFINE k == DueCount(l)
           rest == SubSeq(pending[l], k + 1, Len(pending[l]))
           v == [j \in 1 .. k |-> SubSeq(pending[l], 1, k)[k + 1 - j]]
           front == v \o expired[l]
           First == {pending[l][j] : j \in 1 .. k}
<1>0. pending \in [Lcores -> Seq(Timers)] /\ expired \in [Lcores -> Seq(Timers)]
  BY DEF LInv, TypeOK
<1>1. /\ pending[l] \in Seq(Timers) /\ NoRepeat(pending[l])
      /\ expired[l] \in Seq(Timers) /\ NoRepeat(expired[l])
  BY <1>0 DEF LInv, NoRepeats, List, Queues
<1>2. Listed(pending[l]) \cap Listed(expired[l]) = {}
  <2>1. \A t \in Timers : ~(In(t, "pending", l) /\ In(t, "expired", l))
    BY DEF LInv, Unique, Queues
  <2>2. Listed(pending[l]) \subseteq Timers
    BY <1>1, ListedAt
  <2>. QED BY <2>1, <2>2 DEF In, List
<1>3. \A t \in First : Expired(l, t)
  BY CountedDue DEF Expired
<1>k. k \in 0 .. Len(pending[l])
  BY CountedDue
<1>4. /\ pending' = [pending EXCEPT ![l] = rest]
      /\ expired' = [expired EXCEPT ![l] = front]
      /\ done' = done
  BY DEF Collect
<1> HIDE DEF k
<1>v. v \in Seq(Timers) /\ Flipped(v, pending[l], k)
  BY <1>1, <1>k, FlippedFacts
<1> HIDE DEF v
<1>5. /\ rest \in Seq(Timers) /\ front \in Seq(Timers)
      /\ NoRepeat(rest) /\ NoRepeat(front) /\ Keeps(rest, pending[l])
      /\ Listed(rest) \cup Listed(front) = Listed(pending[l]) \cup Listed(expired[l])
      /\ Listed(rest) \cap Listed(front) = {}
      /\ Listed(front) = Listed(expired[l]) \cup First
  BY <1>1, <1>2, <1>k, <1>v, CollectFacts
<1> HIDE DEF rest, front, First
<1>6. /\ pending'[l] = rest /\ expired'[l] = front
      /\ \A p \in Lcores \ {l} : pending'[p] = pending[p] /\ expired'[p] = expired[p]
  BY <1>0, <1>4
<1>7. NoRepeats'
  <2> SUFFICES ASSUME NEW p \in Lcores, NEW q \in Queues PROVE NoRepeat(List(q, p)')
    BY DEF NoRepeats, NoRepeat
  <2>1. NoRepeat(List(q, p))
    BY DEF LInv, NoRepeats
  <2>2. CASE p = l /\ q # "done"
    BY <2>2, <1>5, <1>6 DEF List, Queues
  <2>3. CASE p # l \/ q = "done"
    BY <2>1, <2>3, <1>4, <1>6 DEF List, Queues
  <2>. QED BY <2>2, <2>3
<1>8. \A p \in Lcores : Keeps(pending'[p], pending[p])
  <2>1. \A p \in Lcores : Keeps(pending[p], pending[p])
    BY DEF Keeps
  <2>. QED BY <1>5, <1>6, <2>1
<1>. QED BY <1>3, <1>4, <1>5, <1>6, <1>7, <1>8

(* The timer at the head of expired goes to done. *)
LEMMA HeadEffect ==
  ASSUME IInv, LInv, NEW l \in Lcores, Run(l) \/ Skip(l)
  PROVE  /\ Head(expired[l]) \in Timers /\ In(Head(expired[l]), "expired", l)
         /\ pending' = pending
         /\ \A u : \A q \in Queues, p \in Lcores :
              In(u, q, p)' <=>
                IF u = Head(expired[l]) /\ p = l THEN q = "done" ELSE In(u, q, p)
         /\ NoRepeats'
<1> DEFINE t == Head(expired[l])
           rest == Tail(expired[l])
           front == Push(done[l], t)
<1>0. expired \in [Lcores -> Seq(Timers)] /\ done \in [Lcores -> Seq(Timers)]
  BY DEF LInv, TypeOK
<1>1. /\ expired[l] # <<>> /\ pending' = pending
      /\ expired' = [expired EXCEPT ![l] = rest]
      /\ done' = [done EXCEPT ![l] = front]
  BY DEF Run, Skip
<1>2. /\ expired[l] \in Seq(Timers) /\ NoRepeat(expired[l])
      /\ done[l] \in Seq(Timers) /\ NoRepeat(done[l])
  BY <1>0 DEF LInv, NoRepeats, List, Queues
<1>3. /\ t \in Timers /\ t \in Listed(expired[l])
      /\ Listed(rest) = Listed(expired[l]) \ {t} /\ NoRepeat(rest)
  BY <1>1, <1>2, TailFacts
<1> HIDE DEF t, rest
<1>4. \A q \in Queues, p \in Lcores : In(t, q, p) => q = "expired" /\ p = l
  <2>1. In(t, "expired", l) /\ "expired" \in Queues
    BY <1>3 DEF In, List, Queues
  <2>. QED BY <1>3, <2>1 DEF LInv, Unique
<1>5. Listed(front) = Listed(done[l]) \cup {t} /\ NoRepeat(front)
  <2>1. t \notin Listed(done[l])
    BY <1>4 DEF In, List, Queues
  <2>. QED BY <1>2, <1>3, <2>1, PushFacts
<1> HIDE DEF front
<1>6. /\ expired'[l] = rest /\ done'[l] = front
      /\ \A p \in Lcores \ {l} : expired'[p] = expired[p] /\ done'[p] = done[p]
  BY <1>0, <1>1
<1>7. \A u : \A q \in Queues, p \in Lcores :
        In(u, q, p)' <=> IF u = t /\ p = l THEN q = "done" ELSE In(u, q, p)
  <2> TAKE u
  <2> TAKE q \in Queues, p \in Lcores
  <2>0. In(u, q, p)' <=> u \in Listed(List(q, p)')
    BY DEF In, Listed
  <2>1. CASE p = l /\ q = "expired"
    BY <2>0, <2>1, <1>3, <1>6 DEF In, List
  <2>2. CASE p = l /\ q = "done"
    BY <2>0, <2>2, <1>5, <1>6 DEF In, List
  <2>3. CASE p = l /\ q = "pending"
    BY <2>0, <2>3, <1>1, <1>4 DEF In, List
  <2>4. CASE p # l
    BY <2>0, <2>4, <1>1, <1>6 DEF In, List
  <2>. QED BY <2>1, <2>2, <2>3, <2>4 DEF Queues
<1>8. NoRepeats'
  <2> SUFFICES ASSUME NEW p \in Lcores, NEW q \in Queues PROVE NoRepeat(List(q, p)')
    BY DEF NoRepeats, NoRepeat
  <2>1. NoRepeat(List(q, p))
    BY DEF LInv, NoRepeats
  <2>2. CASE p = l /\ q # "pending"
    BY <2>2, <1>3, <1>5, <1>6 DEF List, Queues
  <2>3. CASE p # l \/ q = "pending"
    BY <2>1, <2>3, <1>1, <1>6 DEF List, Queues
  <2>. QED BY <2>2, <2>3
<1>9. In(t, "expired", l)
  BY <1>3 DEF In, List
<1>. QED BY <1>1, <1>3, <1>7, <1>8, <1>9 DEF t

(* A SINGLE timer whose callback has not touched it leaves done. *)
LEMMA SingleEffect ==
  ASSUME IInv, LInv, NEW l \in Lcores, NEW t \in Timers, In(t, "done", l),
         pending' = pending, expired' = expired, done' = [done EXCEPT ![l] = Without(@, t)]
  PROVE  /\ \A u : \A q \in Queues, p \in Lcores : In(u, q, p)' <=> In(u, q, p) /\ u # t
         /\ NoRepeats'
<1>0. done \in [Lcores -> Seq(Timers)]
  BY DEF LInv, TypeOK
<1>1. done[l] \in Seq(Timers) /\ NoRepeat(done[l])
  BY <1>0 DEF LInv, NoRepeats, List, Queues
<1>2. /\ Listed(Without(done[l], t)) = Listed(done[l]) \ {t}
      /\ NoRepeat(Without(done[l], t))
  BY <1>1, WithoutFacts
<1>3. /\ done'[l] = Without(done[l], t)
      /\ \A p \in Lcores \ {l} : done'[p] = done[p]
  BY <1>0
<1>4. \A q \in Queues, p \in Lcores : In(t, q, p) => q = "done" /\ p = l
  BY DEF LInv, Unique, Queues
<1>5. \A u : \A q \in Queues, p \in Lcores : In(u, q, p)' <=> In(u, q, p) /\ u # t
  <2> TAKE u
  <2> TAKE q \in Queues, p \in Lcores
  <2>0. In(u, q, p)' <=> u \in Listed(List(q, p)')
    BY DEF In, Listed
  <2>1. CASE p = l /\ q = "done"
    BY <2>0, <2>1, <1>2, <1>3 DEF In, List
  <2>2. CASE ~(p = l /\ q = "done")
    <3>1. List(q, p)' = List(q, p)
      BY <2>2, <1>3 DEF List, Queues
    <3>. QED BY <2>0, <2>2, <3>1, <1>4 DEF In
  <2>. QED BY <2>1, <2>2
<1>6. NoRepeats'
  <2> SUFFICES ASSUME NEW p \in Lcores, NEW q \in Queues PROVE NoRepeat(List(q, p)')
    BY DEF NoRepeats, NoRepeat
  <2>1. NoRepeat(List(q, p))
    BY DEF LInv, NoRepeats
  <2>2. CASE p = l /\ q = "done"
    BY <2>2, <1>2, <1>3 DEF List
  <2>3. CASE ~(p = l /\ q = "done")
    BY <2>1, <2>3, <1>3 DEF List, Queues
  <2>. QED BY <2>2, <2>3
<1>. QED BY <1>5, <1>6

(* A timer that is reloaded goes from done to pending. *)
LEMMA ReloadEffect ==
  ASSUME IInv, LInv, NEW l \in Lcores, ReloadDone(l)
  PROVE  /\ pc[l] = "reload" /\ Head(todo[l]) \in Timers /\ In(Head(todo[l]), "done", l)
         /\ expired' = expired /\ done' = [done EXCEPT ![l] = Without(@, Head(todo[l]))]
         /\ expire' = [expire EXCEPT ![Head(todo[l])] = cur_time[l] + period[Head(todo[l])]]
         /\ \A u : \A q \in Queues, p \in Lcores :
              In(u, q, p)' <=>
                IF u = Head(todo[l]) /\ p = l THEN q = "pending" ELSE In(u, q, p)
         /\ NoRepeats' /\ SortedPending'
<1> DEFINE t == Head(todo[l])
           e == cur_time[l] + period[t]
           w == Inserted(pending[l], t, e)
           rest == Without(done[l], t)
<1>1. /\ pc[l] = "reload" /\ UNCHANGED expired
      /\ pending' = [pending EXCEPT ![l] = w]
      /\ done' = [done EXCEPT ![l] = rest]
      /\ expire' = [expire EXCEPT ![t] = e]
  BY DEF ReloadDone, At
<1>2. t \in Timers /\ In(t, "done", l) /\ e \in Nat
  <2>1. t \in Timers /\ In(t, "done", l)
    BY <1>1, Browsed DEF LInv, Locked, LockedAt
  <2>. QED BY <2>1 DEF LInv, TypeOK
<1> HIDE DEF t, e, w, rest
<1>3. /\ expire \in [Timers -> Nat] /\ pending \in [Lcores -> Seq(Timers)]
      /\ done \in [Lcores -> Seq(Timers)]
      /\ \A p \in Lcores : NoRepeat(pending[p]) /\ NoRepeat(done[p])
      /\ \A p \in Lcores : Listed(pending[p]) \subseteq Timers /\ t \notin Listed(pending[p])
  <2>1. /\ expire \in [Timers -> Nat] /\ pending \in [Lcores -> Seq(Timers)]
        /\ done \in [Lcores -> Seq(Timers)]
    BY DEF LInv, TypeOK
  <2>2. \A p \in Lcores : NoRepeat(pending[p]) /\ NoRepeat(done[p])
    BY DEF LInv, NoRepeats, List, Queues
  <2>3. \A p \in Lcores : t \notin Listed(pending[p])
    <3>1. \A p \in Lcores : ~In(t, "pending", p)
      BY <1>2 DEF LInv, Unique, Queues
    <3>. QED BY <3>1 DEF In, List
  <2>. QED BY <2>1, <2>2, <2>3, ListedAt
<1>4. \A p \in Lcores : \A i, j \in 1 .. Len(pending[p]) : i <= j =>
        expire[pending[p][i]] <= expire[pending[p][j]]
  <2>1. SortedPending
    BY DEF LInv
  <2>2. \A p \in Lcores : DOMAIN pending[p] = 1 .. Len(pending[p])
    BY <1>3
  <2>. QED BY <2>1, <2>2 DEF SortedPending
<1>5. /\ w \in Seq(Timers) /\ NoRepeat(w) /\ Listed(w) = Listed(pending[l]) \cup {t}
      /\ \A i, j \in 1 .. Len(w) : i <= j => expire'[w[i]] <= expire'[w[j]]
  <2>1. pending[l] \in Seq(Timers)
    BY <1>3
  <2>. QED BY <1>1, <1>2, <1>3, <1>4, <2>1, InsertedFacts DEF w
<1>6. NoRepeat(rest) /\ Listed(rest) = Listed(done[l]) \ {t}
  <2>1. done[l] \in Seq(Timers) /\ NoRepeat(done[l])
    BY <1>3
  <2>. QED BY <2>1, WithoutFacts DEF rest
<1>7. /\ pending'[l] = w /\ done'[l] = rest
      /\ \A p \in Lcores \ {l} : pending'[p] = pending[p] /\ done'[p] = done[p]
  BY <1>1, <1>3
<1>8. \A q \in Queues, p \in Lcores : In(t, q, p) => q = "done" /\ p = l
  BY <1>2 DEF LInv, Unique, Queues
<1>9. \A u : \A q \in Queues, p \in Lcores :
        In(u, q, p)' <=> IF u = t /\ p = l THEN q = "pending" ELSE In(u, q, p)
  <2> TAKE u
  <2> TAKE q \in Queues, p \in Lcores
  <2>0. In(u, q, p)' <=> u \in Listed(List(q, p)')
    BY DEF In, Listed
  <2>1. CASE p = l /\ q = "pending"
    BY <2>0, <2>1, <1>5, <1>7 DEF In, List
  <2>2. CASE p = l /\ q = "done"
    BY <2>0, <2>2, <1>6, <1>7 DEF In, List
  <2>3. CASE p = l /\ q = "expired"
    BY <2>0, <2>3, <1>1, <1>8 DEF In, List
  <2>4. CASE p # l
    BY <2>0, <2>4, <1>1, <1>7 DEF In, List
  <2>. QED BY <2>1, <2>2, <2>3, <2>4 DEF Queues
<1>10. NoRepeats'
  <2> SUFFICES ASSUME NEW p \in Lcores, NEW q \in Queues PROVE NoRepeat(List(q, p)')
    BY DEF NoRepeats, NoRepeat
  <2>1. NoRepeat(List(q, p))
    BY DEF LInv, NoRepeats
  <2>2. CASE p = l /\ q # "expired"
    BY <2>2, <1>5, <1>6, <1>7 DEF List, Queues
  <2>3. CASE p # l \/ q = "expired"
    BY <2>1, <2>3, <1>1, <1>7 DEF List, Queues
  <2>. QED BY <2>2, <2>3
<1>11. SortedPending'
  <2> SUFFICES ASSUME NEW p \in Lcores, NEW j \in DOMAIN pending'[p],
                      NEW k \in DOMAIN pending'[p], j <= k
               PROVE  expire'[pending'[p][j]] <= expire'[pending'[p][k]]
    BY DEF SortedPending
  <2>1. CASE p = l
    BY <2>1, <1>5, <1>7
  <2>2. CASE p # l
    <3>1. j \in 1 .. Len(pending[p]) /\ k \in 1 .. Len(pending[p]) /\ pending'[p] = pending[p]
      BY <2>2, <1>3, <1>7
    <3>2. /\ pending[p][j] \in Timers /\ pending[p][j] # t
          /\ pending[p][k] \in Timers /\ pending[p][k] # t
      BY <1>3, <3>1, ListedAt
    <3>3. /\ expire'[pending[p][j]] = expire[pending[p][j]]
          /\ expire'[pending[p][k]] = expire[pending[p][k]]
      BY <1>1, <1>3, <3>2
    <3>. QED BY <1>4, <3>1, <3>3
  <2>. QED BY <2>1, <2>2
<1>. QED BY <1>1, <1>2, <1>9, <1>10, <1>11 DEF t, e, rest

-----------------------------------------------------------------------------
(* A step that leaves the lists alone leaves every timer where it is. *)
LEMMA SameLists ==
  ASSUME UNCHANGED lists
  PROVE  \A u, q, p : (In(u, q, p)' <=> In(u, q, p)) /\ List(q, p)' = List(q, p)
  BY DEF lists, In, List, Listed

(* The timer in hand. *)
LEMMA TimerInHand ==
  ASSUME IInv, LInv, NEW l \in Lcores, InCallback(l)
  PROVE  tim[l] = <<tim[l][1]>> /\ tim[l][1] \in Timers
<1> DEFINE t == tim[l][1]
<1>1. tim[l] = <<t>> /\ tim[l] \in Seq(Timers)
  BY DEF IInv, InHand, LInv, TypeOK
<1> HIDE DEF t
<1>2. <<t>> \in Seq(Timers) /\ Len(<<t>>) = 1 /\ <<t>>[1] = t
  BY <1>1
<1>3. t \in Timers
  BY <1>2
<1>. QED BY <1>1, <1>3 DEF t

(* No timer comes to be in two lists, or twice in one. *)
LEMMA UniqueStep == IInv /\ LInv /\ [Next]_vars => NoRepeats' /\ Unique'
<1> SUFFICES ASSUME IInv, LInv, [Next]_vars PROVE NoRepeats' /\ Unique'
  OBVIOUS
<1>0. NoRepeats /\ Unique
  BY DEF LInv
<1>1. CASE UNCHANGED lists
  BY <1>0, <1>1, SameLists DEF NoRepeats, Unique
<1>2. CASE ~UNCHANGED lists
  <2>1. PICK l \in Lcores : \/ Del(l) \/ Add(l) \/ Collect(l) \/ Run(l) \/ Skip(l)
                            \/ AfterCallback(l) \/ ReloadDone(l)
    BY <1>2 DEF Next, Step, vars, Tick, Reset, Stop, Called, Manage, Config, ConfigFails,
       Publish, CallbackReturns, Browse, Reload, ReloadFails, ManageReturns
  <2>2. CASE Del(l)
    <3>1. NoRepeats' /\ \A u : \A q \in Queues, p \in Lcores : In(u, q, p)' => In(u, q, p)
      BY <2>2, DelEffect
    <3>. QED BY <1>0, <3>1 DEF Unique
  <2>3. CASE Add(l)
    <3>1. /\ NoRepeats'
          /\ \A u : \A q \in Queues, p \in Lcores :
               In(u, q, p)' => In(u, q, p) \/ (u = call[l].t /\ q = "pending" /\ p = call[l].lcore)
      BY <2>3, AddEffect
    <3>2. \A q \in Queues, p \in Lcores : ~In(call[l].t, q, p)
      BY <2>3 DEF Add, At, LInv, Moving, MovingAt, Unlisted, OnListOf
    <3>. QED BY <1>0, <3>1, <3>2 DEF Unique
  <2>4. CASE Collect(l)
    <3>1. NoRepeats'
      BY <2>4, CollectEffect
    <3>2. \A u : \A q \in Queues, p \in Lcores : In(u, q, p)' => \E r \in Queues : In(u, r, p)
      BY <2>4, CollectEffect DEF In, List, Queues
    <3>3. \A u : \A p \in Lcores : (In(u, "done", p)' <=> In(u, "done", p))
      BY <2>4, CollectEffect DEF In, List
    <3>4. \A u : \A p \in Lcores : ~(In(u, "pending", p)' /\ In(u, "expired", p)')
      <4> TAKE u
      <4> TAKE p \in Lcores
      <4>1. CASE p = l
        BY <2>4, <4>1, CollectEffect DEF In, List
      <4>2. CASE p # l
        <5>1. (In(u, "pending", p)' => In(u, "pending", p)) /\ (In(u, "expired", p)' => In(u, "expired", p))
          BY <2>4, <4>2, CollectEffect DEF In, List
        <5>2. p \in Lcores /\ List("pending", p) \in Seq(Timers)
          BY ListTypes DEF Queues
        <5>3. In(u, "pending", p) => u \in Timers
          BY <5>2, ListedAt DEF In
        <5>. QED BY <1>0, <5>1, <5>3 DEF Unique, Queues
      <4>. QED BY <4>1, <4>2
    <3>5. \A u : \A p \in Lcores, q \in {"pending", "expired"} :
            In(u, q, p)' => In(u, "pending", p) \/ In(u, "expired", p)
      BY <2>4, CollectEffect DEF In, List
    <3>6. Unique'
      <4> SUFFICES ASSUME NEW t \in Timers, NEW p \in Lcores, NEW o \in Lcores,
                          NEW q \in Queues, NEW r \in Queues, In(t, q, p)', In(t, r, o)'
                   PROVE  q = r /\ p = o
        BY DEF Unique
      <4>1. p = o
        BY <1>0, <3>2 DEF Unique
      <4>2. q = "done" <=> r = "done"
        BY <1>0, <3>3, <3>5, <4>1 DEF Unique, Queues
      <4>. QED BY <3>4, <4>1, <4>2 DEF Queues
    <3>. QED BY <3>1, <3>6
  <2>5. CASE Run(l) \/ Skip(l)
    <3>1. /\ NoRepeats' /\ In(Head(expired[l]), "expired", l) /\ Head(expired[l]) \in Timers
          /\ \A u : \A q \in Queues, p \in Lcores :
               In(u, q, p)' <=> IF u = Head(expired[l]) /\ p = l THEN q = "done" ELSE In(u, q, p)
      BY <2>5, HeadEffect
    <3>2. \A q \in Queues, p \in Lcores : In(Head(expired[l]), q, p) => p = l
      BY <1>0, <3>1 DEF Unique, Queues
    <3>. QED BY <1>0, <3>1, <3>2 DEF Unique
  <2>6. CASE AfterCallback(l)
    <3>1. UNCHANGED <<pending, expired>>
      BY <2>6 DEF AfterCallback
    <3>2. /\ InCallback(l) /\ ~updated[l]
          /\ done' = [done EXCEPT ![l] = Without(@, tim[l][1])]
      BY <1>2, <2>6 DEF AfterCallback, lists, InCallback, At
    <3>3. tim[l] = <<tim[l][1]>> /\ tim[l][1] \in Timers
      BY <3>2, TimerInHand
    <3> DEFINE t == tim[l][1]
    <3> HIDE DEF t
    <3>4. tim[l] = <<t>> /\ t \in Timers /\ done' = [done EXCEPT ![l] = Without(@, t)]
      BY <3>2, <3>3 DEF t
    <3>5. status[t] = Status("RUNNING", l)
      BY <3>2, <3>4 DEF IInv, InHand, Untouched
    <3>6. In(t, "done", l)
      BY <3>4, <3>5 DEF LInv, Placed, PlacedAt, Status, Is
    <3>7. NoRepeats' /\ \A u : \A q \in Queues, p \in Lcores : In(u, q, p)' => In(u, q, p)
      BY <3>1, <3>4, <3>6, SingleEffect
    <3>. QED BY <1>0, <3>7 DEF Unique
  <2>7. CASE ReloadDone(l)
    <3>1. /\ NoRepeats' /\ In(Head(todo[l]), "done", l) /\ Head(todo[l]) \in Timers
          /\ \A u : \A q \in Queues, p \in Lcores :
               In(u, q, p)' <=> IF u = Head(todo[l]) /\ p = l THEN q = "pending" ELSE In(u, q, p)
      BY <2>7, ReloadEffect
    <3>2. \A q \in Queues, p \in Lcores : In(Head(todo[l]), q, p) => p = l
      BY <1>0, <3>1 DEF Unique, Queues
    <3>. QED BY <1>0, <3>1, <3>2 DEF Unique
  <2>. QED BY <2>1, <2>2, <2>3, <2>4, <2>5, <2>6, <2>7
<1>. QED BY <1>1, <1>2

(* What a step must show to keep the lists and the statuses in agreement: a *)
(* set T of timers, which no other lcore configures, may change their       *)
(* status and their lists; the others stay, perhaps in another list of the  *)
(* same lcore.                                                              *)
LEMMA PlacedFrame ==
  ASSUME IInv, LInv, NEW l \in Lcores, NEW T \in SUBSET Timers,
         \A o \in Lcores \ {l} : pc'[o] = pc[o] /\ call'[o] = call[o],
         \A o \in Lcores \ {l}, u \in T : ~Configuring(o, u),
         \A u \in Timers \ T :
           /\ status'[u] = status[u]
           /\ \A o \in Lcores : (OnListOf(u, o)' <=> OnListOf(u, o)) /\ (In(u, "done", o) => In(u, "done", o)'),
         \A u \in T : PlacedAt(u)',
         MovingAt(l)'
  PROVE  Placed' /\ Moving'
<1>1. ASSUME NEW u \in Timers PROVE PlacedAt(u)'
  <2>1. CASE u \in T
    BY <2>1
  <2>2. CASE u \notin T
    <3>1. PlacedAt(u)
      BY DEF LInv, Placed
    <3>2. status'[u] = status[u]
      BY <2>2
    <3>3. \A o \in Lcores : (OnListOf(u, o)' <=> OnListOf(u, o)) /\ (In(u, "done", o) => In(u, "done", o)')
      BY <2>2
    <3>4. Unlisted(u) => Unlisted(u)'
      BY <3>3 DEF Unlisted
    <3>. QED BY <3>1, <3>2, <3>3, <3>4 DEF PlacedAt, Is, InUse
  <2>. QED BY <2>1, <2>2
<1>2. ASSUME NEW o \in Lcores \ {l} PROVE MovingAt(o)'
  <2>1. pc'[o] = pc[o] /\ call'[o] = call[o] /\ MovingAt(o)
    BY DEF LInv, Moving
  <2>2. CASE pc[o] \notin {"del", "add", "publish"}
    BY <2>1, <2>2 DEF MovingAt
  <2>3. CASE pc[o] \in {"del", "add", "publish"}
    <3>1. PICK x : x = call[o].t
      OBVIOUS
    <3>2. x \in Timers /\ call[o].lcore \in Lcores /\ call'[o].t = x
      BY <2>1, <2>3, <3>1, CallType DEF CallLabels
    <3>3. x \notin T
      BY <2>3, <3>1 DEF Configuring
    <3>4. \A p \in Lcores : OnListOf(x, p)' <=> OnListOf(x, p)
      BY <3>2, <3>3
    <3>5. Unlisted(x) => Unlisted(x)'
      BY <3>4 DEF Unlisted
    <3>6. \A p : OnListOf(x, p)' <=> OnListOf(call[o].t, p)'
      BY <2>1, <3>1 DEF OnListOf, In, List, Listed
    <3>7. Unlisted(x)' <=> Unlisted(call[o].t)'
      BY <3>6 DEF Unlisted
    <3>. QED BY <2>1, <3>1, <3>2, <3>4, <3>5, <3>6, <3>7 DEF MovingAt
  <2>. QED BY <2>2, <2>3
<1>. QED BY <1>1, <1>2 DEF Placed, Moving

(* A step of an lcore leaves alone what belongs to the others, but their lists. *)
LEMMA OneMoves ==
  ASSUME LInv, NEW l \in Lcores, Reset(l) \/ Stop(l) \/ Manage(l) \/ Step(l),
         NEW o \in Lcores, o # l
  PROVE  /\ pc'[o] = pc[o] /\ call'[o] = call[o] /\ todo'[o] = todo[o] /\ tim'[o] = tim[o]
         /\ touched'[o] = touched[o] /\ cur_time'[o] = cur_time[o] /\ list_lock'[o] = list_lock[o]
<1>0. /\ DOMAIN pc = Lcores /\ DOMAIN call = Lcores /\ DOMAIN todo = Lcores /\ DOMAIN tim = Lcores
      /\ DOMAIN touched = Lcores /\ DOMAIN cur_time = Lcores /\ DOMAIN list_lock = Lcores
  BY DEF LInv, TypeOK
<1> USE <1>0 DEF Goto, manage
<1>1. CASE Reset(l) \/ Stop(l)
  BY <1>1 DEF Reset, Stop, Called
<1>2. CASE Manage(l)
  BY <1>2 DEF Manage
<1>3. CASE Config(l) \/ ConfigFails(l) \/ Del(l) \/ Add(l) \/ Publish(l)
  BY <1>3 DEF Config, ConfigFails, Del, Add, Publish
<1>4. CASE Collect(l) \/ Run(l) \/ Skip(l) \/ CallbackReturns(l) \/ AfterCallback(l)
  BY <1>4 DEF Collect, Run, Skip, CallbackReturns, AfterCallback
<1>5. CASE Browse(l) \/ Reload(l) \/ ReloadFails(l) \/ ReloadDone(l) \/ ManageReturns(l)
  BY <1>5 DEF Browse, Reload, ReloadFails, ReloadDone, ManageReturns
<1>. QED BY <1>1, <1>2, <1>3, <1>4, <1>5 DEF Step

(* Statuses and lists stay, and the lcore is moving no timer. *)
LEMMA PlacedQuiet ==
  ASSUME IInv, LInv, NEW l \in Lcores, Reset(l) \/ Stop(l) \/ Manage(l) \/ Step(l),
         status' = status, UNCHANGED lists, pc'[l] \notin {"del", "add", "publish"}
  PROVE  Placed' /\ Moving'
<1>1. \A o \in Lcores \ {l} : pc'[o] = pc[o] /\ call'[o] = call[o]
  BY OneMoves
<1>2. \A u \in Timers \ {} : \A o \in Lcores :
        (OnListOf(u, o)' <=> OnListOf(u, o)) /\ (In(u, "done", o) => In(u, "done", o)')
  BY SameLists DEF OnListOf
<1>3. MovingAt(l)'
  BY DEF MovingAt
<1>4. {} \in SUBSET Timers
  OBVIOUS
<1>. QED BY <1>1, <1>2, <1>3, <1>4, PlacedFrame

(* A timer which no other lcore configures changes its status or its list.  *)
LEMMA PlacedOne ==
  ASSUME IInv, LInv, NEW l \in Lcores, Reset(l) \/ Stop(l) \/ Manage(l) \/ Step(l),
         NEW t \in Timers, \A u \in Timers : u # t => status'[u] = status[u],
         status[t].state = "CONFIG" => status[t].owner = l,
         \A u \in Timers : u # t => \A q \in Queues, p \in Lcores : In(u, q, p)' <=> In(u, q, p),
         PlacedAt(t)', MovingAt(l)'
  PROVE  Placed' /\ Moving'
<1>1. \A o \in Lcores \ {l} : pc'[o] = pc[o] /\ call'[o] = call[o]
  BY OneMoves
<1>2. \A u \in Timers \ {t} : \A o \in Lcores :
        (OnListOf(u, o)' <=> OnListOf(u, o)) /\ (In(u, "done", o) => In(u, "done", o)')
  BY DEF OnListOf, Queues
<1>3. \A o \in Lcores \ {l}, u \in {t} : ~Configuring(o, u)
  <2> SUFFICES ASSUME NEW o \in Lcores \ {l}, Configuring(o, t) PROVE FALSE
    OBVIOUS
  <2>1. status[t] = Status("CONFIG", o)
    BY DEF IInv, Configured
  <2>. QED BY <2>1 DEF Status
<1>4. {t} \in SUBSET Timers /\ \A u \in {t} : PlacedAt(u)'
  <2>1. \A u \in {t} : PlacedAt(u)' <=> PlacedAt(t)'
    BY DEF PlacedAt, Is, InUse, Unlisted, OnListOf, In, List, Listed
  <2>. QED BY <2>1
<1>. QED BY <1>1, <1>2, <1>3, <1>4, PlacedFrame

(* The lists agree with the statuses and with what the lcores are moving.   *)
LEMMA PlacedStep == IInv /\ LInv /\ IInv' /\ [Next]_vars => Placed' /\ Moving'
<1> SUFFICES ASSUME IInv, LInv, IInv', [Next]_vars PROVE Placed' /\ Moving'
  OBVIOUS
<1>0. Placed /\ Moving /\ Unique /\ TypeOK
  BY DEF LInv
<1>1. CASE UNCHANGED vars \/ Tick
  <2>1. UNCHANGED <<status, pc, call>> /\ UNCHANGED lists
    BY <1>1 DEF vars, Tick, timers
  <2>2. \A u, o : (OnListOf(u, o)' <=> OnListOf(u, o)) /\ (In(u, "done", o)' <=> In(u, "done", o))
    BY <2>1, SameLists DEF OnListOf
  <2>3. \A u : Unlisted(u)' <=> Unlisted(u)
    BY <2>2 DEF Unlisted
  <2>4. Placed'
    BY <1>0, <2>1, <2>2, <2>3 DEF Placed, PlacedAt, Is, InUse
  <2>5. ASSUME NEW l \in Lcores PROVE MovingAt(l)'
    <3>1. PICK x : x = call[l].t
      OBVIOUS
    <3>2. \A p : OnListOf(x, p)' <=> OnListOf(call[l].t, p)'
      BY <2>1, <3>1 DEF OnListOf, In, List, Listed
    <3>3. Unlisted(x)' <=> Unlisted(call[l].t)'
      BY <3>2 DEF Unlisted
    <3>. QED BY <1>0, <2>1, <2>2, <2>3, <3>1, <3>2, <3>3 DEF Moving, MovingAt
  <2>. QED BY <2>4, <2>5 DEF Moving
<1>2. ASSUME NEW l \in Lcores, Reset(l) \/ Stop(l) \/ Manage(l) \/ Step(l)
      PROVE  Placed' /\ Moving'
  <2>0. \A o \in Lcores \ {l} : pc'[o] = pc[o] /\ call'[o] = call[o]
    BY <1>2, OneMoves
  <2>1. CASE \/ Reset(l) \/ Stop(l) \/ Manage(l) \/ ConfigFails(l) \/ CallbackReturns(l)
             \/ Browse(l) \/ ReloadFails(l) \/ ManageReturns(l)
    <3>1. status' = status /\ UNCHANGED lists
      BY <2>1 DEF Reset, Stop, Called, Manage, ConfigFails, CallbackReturns, Browse,
         ReloadFails, ManageReturns, timers, lists
    <3>2. pc'[l] \notin {"del", "add", "publish"}
      <4>1. CASE ConfigFails(l)
        <5>1. call[l].back \in {"idle", "callback"}
          BY <4>1, CallType DEF ConfigFails, At, CallLabels
        <5>. QED BY <4>1, <5>1, <1>0 DEF ConfigFails, Goto, TypeOK
      <4>2. CASE ReloadFails(l)
        BY <4>2 DEF ReloadFails, At
      <4>. QED BY <2>1, <4>1, <4>2, <1>0 DEF Reset, Stop, Called, Manage, CallbackReturns, Browse,
              ManageReturns, Goto, TypeOK
    <3>. QED BY <1>2, <3>1, <3>2, PlacedQuiet
  <2>2. CASE Config(l)
    <3>1. PICK t : t = call[l].t
      OBVIOUS
    <3>2. /\ t \in Timers /\ call[l].op \in {"reset", "stop", "stop_sync"} /\ call[l] \in Call
          /\ call[l].lcore \in Lcores
      BY <2>2, <3>1, CallType DEF Config, At, CallLabels, Call
    <3>3. /\ status[t].state \in {"STOP", "PENDING", "RUNNING"} /\ UNCHANGED lists
          /\ status' = [status EXCEPT ![t] = Status("CONFIG", l)]
          /\ call' = [call EXCEPT ![l].prev = status[t]]
          /\ pc' = [pc EXCEPT ![l] = IF InUse(status[t]) THEN "del"
                                     ELSE IF call[l].op = "reset" THEN "add" ELSE "publish"]
      BY <2>2, <3>1, <3>2, <1>0 DEF Config, Busy, Is, SetStatus, Goto, lists, TypeOK
    <3>4. /\ status'[t] = Status("CONFIG", l) /\ \A u \in Timers : u # t => status'[u] = status[u]
          /\ call'[l].prev = status[t] /\ call'[l].t = t /\ call'[l].op = call[l].op
          /\ pc'[l] = IF InUse(status[t]) THEN "del"
                      ELSE IF call[l].op = "reset" THEN "add" ELSE "publish"
      BY <3>1, <3>2, <3>3, <1>0 DEF TypeOK, Call
    <3>5. \A u, o : OnListOf(u, o)' <=> OnListOf(u, o)
      BY <3>3, SameLists DEF OnListOf
    <3>6. PlacedAt(t)'
      BY <3>4 DEF PlacedAt, Is, InUse, Status
    <3>7. MovingAt(l)'
      <4>1. PlacedAt(t)
        BY <1>0, <3>2 DEF Placed
      <4>2. \A o : OnListOf(t, o) => OnListOf(call[l].t, o)'
        BY <3>3, <3>4 DEF OnListOf, In, List, Listed, lists
      <4>3. Unlisted(t) => Unlisted(call[l].t)'
        BY <3>3, <3>4 DEF Unlisted, OnListOf, In, List, Listed, lists
      <4>4. CASE InUse(status[t])
        <5>1. status[t].owner \in Lcores /\ OnListOf(t, status[t].owner)
          BY <4>1, <4>4 DEF PlacedAt
        <5>. QED BY <3>4, <4>2, <4>4, <5>1 DEF MovingAt
      <4>5. CASE ~InUse(status[t])
        <5>1. Unlisted(t)
          BY <3>3, <4>1, <4>5 DEF PlacedAt, Is, InUse
        <5>. QED BY <3>4, <4>3, <4>5, <5>1 DEF MovingAt
      <4>. QED BY <4>4, <4>5
    <3>. QED BY <1>2, <3>2, <3>3, <3>4, <3>6, <3>7, PlacedOne, SameLists
  <2>3. CASE Publish(l)
    <3>1. PICK t, o : t = call[l].t /\ o = call[l].lcore
      OBVIOUS
    <3>2. /\ t \in Timers /\ o \in Lcores /\ pc[l] = "publish"
          /\ call[l].back \in {"idle", "callback"}
      BY <2>3, <3>1, CallType DEF Publish, At, CallLabels
    <3>3. /\ UNCHANGED lists /\ pc' = [pc EXCEPT ![l] = call[l].back]
          /\ status' = IF call[l].op = "reset" THEN [status EXCEPT ![t] = Status("PENDING", o)]
                                               ELSE [status EXCEPT ![t] = Status("STOP", NO_OWNER)]
      BY <2>3, <3>1 DEF Publish, SetStatus, Goto, lists
    <3>4. /\ pc'[l] = call[l].back /\ \A u \in Timers : u # t => status'[u] = status[u]
          /\ status'[t] = IF call[l].op = "reset" THEN Status("PENDING", o)
                                                  ELSE Status("STOP", NO_OWNER)
      BY <3>2, <3>3, <1>0 DEF TypeOK
    <3>5. status[t] = Status("CONFIG", l)
      BY <3>1, <3>2 DEF IInv, Configured, Configuring
    <3>6. IF call[l].op = "reset" THEN OnListOf(t, o)' ELSE Unlisted(t)'
      <4>1. IF call[l].op = "reset" THEN OnListOf(t, o) ELSE Unlisted(t)
        BY <1>0, <3>1, <3>2 DEF Moving, MovingAt
      <4>2. \A p : OnListOf(t, p)' <=> OnListOf(t, p)
        BY <3>3, SameLists DEF OnListOf
      <4>. QED BY <4>1, <4>2 DEF Unlisted
    <3>7. PlacedAt(t)'
      BY <3>2, <3>4, <3>6 DEF PlacedAt, Is, InUse, Status
    <3>8. MovingAt(l)'
      BY <3>2, <3>4 DEF MovingAt
    <3>9. status[t].owner = l
      BY <3>5 DEF Status
    <3>. QED BY <1>2, <3>2, <3>3, <3>4, <3>7, <3>8, <3>9, PlacedOne, SameLists
  <2>4. CASE Reload(l)
    <3>1. PICK t : t = Head(todo[l])
      OBVIOUS
    <3>2. t \in Timers
      BY <2>4, <3>1, Browsed DEF Reload, At
    <3>3. /\ status[t].state # "CONFIG" /\ UNCHANGED lists
          /\ status' = [status EXCEPT ![t] = Status("CONFIG", l)]
          /\ pc' = [pc EXCEPT ![l] = "reload"]
      BY <2>4, <3>1 DEF Reload, Busy, Is, SetStatus, Goto, lists
    <3>4. /\ status'[t] = Status("CONFIG", l) /\ \A u \in Timers : u # t => status'[u] = status[u]
          /\ pc'[l] = "reload"
      BY <3>2, <3>3, <1>0 DEF TypeOK
    <3>5. PlacedAt(t)'
      BY <3>4 DEF PlacedAt, Is, InUse, Status
    <3>6. MovingAt(l)'
      BY <3>4 DEF MovingAt
    <3>. QED BY <1>2, <3>2, <3>3, <3>4, <3>5, <3>6, PlacedOne, SameLists
  <2>5. CASE Del(l)
    <3>1. PICK t, o : t = call[l].t /\ o = call[l].prev.owner
      OBVIOUS
    <3>2. /\ t \in Timers /\ o \in Lcores /\ pc[l] = "del" /\ status' = status /\ call' = call
          /\ pc' = [pc EXCEPT ![l] = IF call[l].op = "reset" THEN "add" ELSE "publish"]
      BY <2>5, <3>1, DelEffect DEF Del, At, Goto, timers
    <3>3. \A u : \A q \in Queues, p \in Lcores : In(u, q, p)' <=> In(u, q, p) /\ ~(u = t /\ p = o)
      BY <2>5, <3>1, DelEffect
    <3>4. status[t] = Status("CONFIG", l)
      BY <3>1, <3>2 DEF IInv, Configured, Configuring
    <3>5. PlacedAt(t)'
      BY <3>2, <3>4 DEF PlacedAt, Is, InUse, Status
    <3>6. Unlisted(t)'
      <4>1. PICK q \in Queues : In(t, q, o)
        BY <1>0, <3>1, <3>2 DEF Moving, MovingAt, OnListOf
      <4>2. \A r \in Queues, p \in Lcores : In(t, r, p) => p = o
        BY <1>0, <3>2, <4>1 DEF Unique
      <4>. QED BY <3>3, <4>2 DEF Unlisted, OnListOf
    <3>7. MovingAt(l)'
      <4>1. Unlisted(call[l].t)'
        BY <3>1, <3>2, <3>6 DEF Unlisted, OnListOf, In, List, Listed
      <4>2. pc'[l] = IF call[l].op = "reset" THEN "add" ELSE "publish"
        BY <1>0, <3>2 DEF TypeOK
      <4>. QED BY <3>2, <4>1, <4>2 DEF MovingAt
    <3>8. status[t].owner = l
      BY <3>4 DEF Status
    <3>. QED BY <1>2, <3>2, <3>3, <3>5, <3>7, <3>8, PlacedOne
  <2>6. CASE Add(l)
    <3>1. PICK t, o : t = call[l].t /\ o = call[l].lcore
      OBVIOUS
    <3>2. /\ t \in Timers /\ o \in Lcores /\ pc[l] = "add" /\ status' = status /\ call' = call
          /\ pc' = [pc EXCEPT ![l] = "publish"]
      BY <2>6, <3>1, AddEffect DEF Add, At, Goto
    <3>3. \A u : \A q \in Queues, p \in Lcores :
            In(u, q, p)' <=> In(u, q, p) \/ (u = t /\ q = "pending" /\ p = o)
      BY <2>6, <3>1, AddEffect
    <3>4. status[t] = Status("CONFIG", l)
      BY <3>1, <3>2 DEF IInv, Configured, Configuring
    <3>5. PlacedAt(t)'
      BY <3>2, <3>4 DEF PlacedAt, Is, InUse, Status
    <3>6. OnListOf(t, o)'
      BY <3>2, <3>3 DEF OnListOf, Queues
    <3>7. MovingAt(l)'
      <4>1. OnListOf(call[l].t, call[l].lcore)'
        BY <3>1, <3>2, <3>6 DEF OnListOf, In, List, Listed
      <4>2. pc'[l] = "publish" /\ call[l].op = "reset"
        BY <1>0, <3>2 DEF TypeOK, Moving, MovingAt
      <4>. QED BY <3>2, <4>1, <4>2 DEF MovingAt
    <3>8. status[t].owner = l
      BY <3>4 DEF Status
    <3>. QED BY <1>2, <3>2, <3>3, <3>5, <3>7, <3>8, PlacedOne
  <2>7. CASE Collect(l)
    <3>1. status' = status /\ pc'[l] = "run" /\ done' = done
      BY <2>7, <1>0 DEF Collect, Goto, TypeOK, timers
    <3>2. \A u : \A o \in Lcores : (OnListOf(u, o)' <=> OnListOf(u, o)) /\ (In(u, "done", o) => In(u, "done", o)')
      <4> TAKE u
      <4> TAKE o \in Lcores
      <4>0. \A q, p : In(u, q, p)' <=> u \in Listed(List(q, p)')
        BY DEF In, Listed
      <4>1. In(u, "done", o)' <=> In(u, "done", o)
        BY <3>1, <4>0 DEF In, List
      <4>2. In(u, "pending", o)' \/ In(u, "expired", o)' <=> In(u, "pending", o) \/ In(u, "expired", o)
        <5>1. CASE o = l
          BY <2>7, <4>0, <5>1, CollectEffect DEF In, List
        <5>2. CASE o # l
          BY <2>7, <4>0, <5>2, CollectEffect DEF In, List
        <5>. QED BY <5>1, <5>2
      <4>. QED BY <4>1, <4>2 DEF OnListOf, Queues
    <3>3. MovingAt(l)'
      BY <3>1 DEF MovingAt
    <3>4. {} \in SUBSET Timers
      OBVIOUS
    <3>. QED BY <2>0, <3>1, <3>2, <3>3, <3>4, PlacedFrame
  <2>8. CASE Run(l) \/ Skip(l)
    <3>1. PICK t : t = Head(expired[l])
      OBVIOUS
    <3>2. /\ t \in Timers
          /\ \A u : \A q \in Queues, p \in Lcores :
               In(u, q, p)' <=> IF u = t /\ p = l THEN q = "done" ELSE In(u, q, p)
      BY <2>8, <3>1, HeadEffect
    <3>3. /\ pc[l] = "run" /\ pc'[l] \in {"run", "callback"}
          /\ \/ status' = status
             \/ status' = [status EXCEPT ![t] = Status("RUNNING", l)] /\ status[t].state = "PENDING"
      BY <2>8, <3>1, <1>0 DEF Run, Skip, At, Goto, SetStatus, Is, TypeOK, timers
    <3>4. In(t, "expired", l)
      BY <2>8, <3>1, HeadEffect
    <3>5. /\ In(t, "done", l)' /\ OnListOf(t, l)'
          /\ \A o \in Lcores : (OnListOf(t, o)' <=> OnListOf(t, o)) /\ (In(t, "done", o) => In(t, "done", o)')
      <4>1. \A q \in Queues, p \in Lcores : In(t, q, p) => q = "expired" /\ p = l
        BY <1>0, <3>2, <3>4 DEF Unique, Queues
      <4>2. In(t, "done", l)'
        BY <3>2 DEF Queues
      <4>. QED BY <3>2, <3>4, <4>1, <4>2 DEF OnListOf, Queues
    <3>6. MovingAt(l)'
      BY <3>3 DEF MovingAt
    <3>7. CASE status' = status
      <4>1. \A u : \A o \in Lcores :
              (OnListOf(u, o)' <=> OnListOf(u, o)) /\ (In(u, "done", o) => In(u, "done", o)')
        <5>1. \A u : u # t => \A q \in Queues, p \in Lcores : In(u, q, p)' <=> In(u, q, p)
          BY <3>2
        <5>2. \A u : u # t => \A o \in Lcores :
                (OnListOf(u, o)' <=> OnListOf(u, o)) /\ (In(u, "done", o) => In(u, "done", o)')
          BY <5>1 DEF OnListOf, Queues
        <5>. QED BY <3>5, <5>2
      <4>2. {} \in SUBSET Timers
        OBVIOUS
      <4>. QED BY <2>0, <3>6, <3>7, <4>1, <4>2, PlacedFrame
    <3>8. CASE status' = [status EXCEPT ![t] = Status("RUNNING", l)] /\ status[t].state = "PENDING"
      <4>1. status'[t] = Status("RUNNING", l) /\ \A u \in Timers : u # t => status'[u] = status[u]
        BY <3>2, <3>8, <1>0 DEF TypeOK
      <4>2. PlacedAt(t)'
        BY <3>5, <4>1 DEF PlacedAt, Is, InUse, Status
      <4>. QED BY <1>2, <3>2, <3>6, <3>8, <4>1, <4>2, PlacedOne
    <3>. QED BY <3>3, <3>7, <3>8
  <2>9. CASE AfterCallback(l)
    <3>0. PICK t : t = tim[l][1]
      OBVIOUS
    <3>1. /\ InCallback(l) /\ pc'[l] = "run" /\ UNCHANGED <<pending, expired>>
          /\ \/ status' = status /\ done' = done
             \/ /\ ~updated[l] /\ status' = [status EXCEPT ![t] = Status("STOP", NO_OWNER)]
                /\ done' = [done EXCEPT ![l] = Without(@, t)]
             \/ ~updated[l] /\ status' = [status EXCEPT ![t] = Status("PENDING", l)] /\ done' = done
      BY <2>9, <3>0, <1>0 DEF AfterCallback, InCallback, At, Goto, SetStatus, TypeOK
    <3>2. t \in Timers /\ tim[l] = <<t>>
      BY <3>0, <3>1, TimerInHand
    <3>3. MovingAt(l)'
      BY <3>1 DEF MovingAt
    <3>4. CASE status' = status /\ done' = done
      BY <1>2, <3>1, <3>4, PlacedQuiet DEF lists
    <3>5. CASE /\ ~updated[l]
               /\ \/ /\ status' = [status EXCEPT ![t] = Status("STOP", NO_OWNER)]
                     /\ done' = [done EXCEPT ![l] = Without(@, t)]
                  \/ status' = [status EXCEPT ![t] = Status("PENDING", l)] /\ done' = done
      <4>1. status[t] = Status("RUNNING", l)
        BY <3>1, <3>2, <3>5 DEF IInv, InHand, Untouched
      <4>2. In(t, "done", l) /\ status[t].state = "RUNNING"
        BY <1>0, <3>2, <4>1 DEF Placed, PlacedAt, Is, Status
      <4>3. \A u \in Timers : u # t => status'[u] = status[u]
        BY <3>5, <1>0 DEF TypeOK
      <4>4. CASE /\ status' = [status EXCEPT ![t] = Status("STOP", NO_OWNER)]
                 /\ done' = [done EXCEPT ![l] = Without(@, t)]
        <5>1. \A u : \A q \in Queues, p \in Lcores : In(u, q, p)' <=> In(u, q, p) /\ u # t
          BY <3>1, <3>2, <4>2, <4>4, SingleEffect
        <5>2. status'[t] = Status("STOP", NO_OWNER) /\ Unlisted(t)'
          BY <1>0, <3>2, <4>4, <5>1 DEF TypeOK, Unlisted, OnListOf
        <5>3. PlacedAt(t)'
          BY <5>2 DEF PlacedAt, Is, InUse, Status
        <5>. QED BY <1>2, <3>2, <3>3, <4>2, <4>3, <5>1, <5>3, PlacedOne
      <4>5. CASE status' = [status EXCEPT ![t] = Status("PENDING", l)] /\ done' = done
        <5>1. UNCHANGED lists
          BY <3>1, <4>5 DEF lists
        <5>2. status'[t] = Status("PENDING", l) /\ OnListOf(t, l)'
          BY <1>0, <3>2, <4>2, <4>5, <5>1, SameLists DEF TypeOK, OnListOf, Queues
        <5>3. PlacedAt(t)'
          BY <5>2 DEF PlacedAt, Is, InUse, Status
        <5>. QED BY <1>2, <3>2, <3>3, <4>2, <4>3, <5>1, <5>3, PlacedOne, SameLists
      <4>. QED BY <3>5, <4>4, <4>5
    <3>. QED BY <3>1, <3>4, <3>5
  <2>10. CASE ReloadDone(l)
    <3>1. PICK t : t = Head(todo[l])
      OBVIOUS
    <3>2. /\ t \in Timers /\ pc[l] = "reload"
          /\ \A u : \A q \in Queues, p \in Lcores :
               In(u, q, p)' <=> IF u = t /\ p = l THEN q = "pending" ELSE In(u, q, p)
      BY <2>10, <3>1, ReloadEffect
    <3>3. /\ status' = [status EXCEPT ![t] = Status("PENDING", l)] /\ pc'[l] = "browse"
      BY <2>10, <3>1, <1>0 DEF ReloadDone, SetStatus, Goto, TypeOK
    <3>4. status'[t] = Status("PENDING", l) /\ \A u \in Timers : u # t => status'[u] = status[u]
      BY <3>2, <3>3, <1>0 DEF TypeOK
    <3>5. OnListOf(t, l)'
      BY <3>2 DEF OnListOf, Queues
    <3>6. PlacedAt(t)'
      BY <3>4, <3>5 DEF PlacedAt, Is, InUse, Status
    <3>7. MovingAt(l)'
      BY <3>3 DEF MovingAt
    <3>8. status[t].owner = l
      <4>1. status[t] = Status("CONFIG", l)
        BY <3>1, <3>2 DEF IInv, Configured, Configuring
      <4>. QED BY <4>1 DEF Status
    <3>. QED BY <1>2, <3>2, <3>4, <3>6, <3>7, <3>8, PlacedOne
  <2>. QED
    BY <1>2, <2>1, <2>2, <2>3, <2>4, <2>5, <2>6, <2>7, <2>8, <2>9, <2>10 DEF Step
<1>. QED BY <1>1, <1>2 DEF Next

(* The lists of an lcore that holds its lock are its own. *)
LEMMA DoneOthers ==
  ASSUME IInv, LInv, NEW l \in Lcores, Reset(l) \/ Stop(l) \/ Manage(l) \/ Step(l),
         NEW o \in Lcores, o # l
  PROVE  done'[o] = done[o] \/ list_lock[o] = FALSE
<1>0. done \in [Lcores -> Seq(Timers)]
  BY DEF LInv, TypeOK
<1>1. CASE Reset(l) \/ Stop(l) \/ Manage(l) \/ Config(l) \/ ConfigFails(l) \/ Add(l) \/ Publish(l)
  BY <1>1 DEF Reset, Stop, Called, Manage, Config, ConfigFails, Add, Publish, lists
<1>2. CASE Del(l)
  <2>1. call[l].prev.owner = o => list_lock[o] = FALSE
    BY <1>2, DelEffect
  <2>. QED BY <1>0, <1>2, <2>1 DEF Del, Remove
<1>3. CASE \/ Collect(l) \/ CallbackReturns(l) \/ Browse(l) \/ Reload(l) \/ ReloadFails(l)
           \/ ManageReturns(l)
  BY <1>3 DEF Collect, CallbackReturns, Browse, Reload, ReloadFails, ManageReturns, lists
<1>4. CASE Run(l) \/ Skip(l) \/ AfterCallback(l) \/ ReloadDone(l)
  BY <1>0, <1>4 DEF Run, Skip, AfterCallback, ReloadDone
<1>. QED BY <1>1, <1>2, <1>3, <1>4 DEF Step

(* rte_timer_manage holds its lock exactly while it works on its lists, and *)
(* what it has yet to browse stays in done.                                 *)
LEMMA LockedStep == IInv /\ LInv /\ IInv' /\ [Next]_vars => Locked'
<1> SUFFICES ASSUME IInv, LInv, IInv', [Next]_vars PROVE Locked'
  OBVIOUS
<1>0. Locked /\ TypeOK
  BY DEF LInv
<1>1. CASE UNCHANGED vars \/ Tick
  <2>1. UNCHANGED <<pc, list_lock, todo, done>>
    BY <1>1 DEF vars, Tick, lists, manage
  <2>. QED BY <1>0, <2>1 DEF Locked, LockedAt, Listed, NoRepeat
<1>2. ASSUME NEW l \in Lcores, Reset(l) \/ Stop(l) \/ Manage(l) \/ Step(l)
      PROVE  Locked'
  <2>1. ASSUME NEW o \in Lcores, o # l PROVE LockedAt(o)'
    <3>1. pc'[o] = pc[o] /\ todo'[o] = todo[o] /\ list_lock'[o] = list_lock[o]
      BY <1>2, <2>1, OneMoves
    <3>2. done'[o] = done[o] \/ list_lock[o] = FALSE
      BY <1>2, <2>1, DoneOthers
    <3>3. LockedAt(o)
      BY <1>0 DEF Locked
    <3>. QED BY <3>1, <3>2, <3>3 DEF LockedAt, NoRepeat, Listed
  <2>2. LockedAt(l)'
    <3>0. LockedAt(l)
      BY <1>0 DEF Locked
    <3>1. CASE \/ Reset(l) \/ Stop(l) \/ Manage(l) \/ Config(l) \/ Del(l) \/ Add(l)
               \/ CallbackReturns(l)
      <4>1. /\ pc[l] \notin {"run", "browse", "reload"} /\ list_lock' = list_lock
            /\ pc'[l] \notin {"run", "browse", "reload"}
        BY <3>1, <1>0 DEF Reset, Stop, Called, Manage, Config, Del, Add, CallbackReturns, At,
           Goto, TypeOK
      <4>. QED BY <3>0, <4>1 DEF LockedAt
    <3>2. CASE ConfigFails(l) \/ Publish(l)
      <4>1. pc[l] \in {"config", "publish"} /\ list_lock' = list_lock /\ pc'[l] = call[l].back
        BY <3>2, <1>0 DEF ConfigFails, Publish, At, Goto, TypeOK
      <4>2. call[l].back \in {"idle", "callback"}
        BY <4>1, CallType DEF CallLabels
      <4>. QED BY <3>0, <4>1, <4>2 DEF LockedAt
    <3>3. CASE Collect(l) \/ AfterCallback(l)
      <4>1. list_lock'[l] = TRUE /\ pc'[l] = "run"
        BY <3>3, <1>0 DEF Collect, AfterCallback, Goto, TypeOK
      <4>. QED BY <4>1 DEF LockedAt
    <3>4. CASE Run(l) \/ ManageReturns(l)
      <4>1. list_lock'[l] = FALSE /\ pc'[l] \in {"callback", "idle"}
        BY <3>4, <1>0 DEF Run, ManageReturns, Goto, TypeOK
      <4>. QED BY <4>1 DEF LockedAt
    <3>5. CASE Skip(l)
      <4>1. list_lock' = list_lock /\ pc' = pc /\ pc[l] = "run"
        BY <3>5 DEF Skip, At
      <4>. QED BY <3>0, <4>1 DEF LockedAt
    <3>6. CASE Browse(l)
      <4>1. /\ list_lock' = list_lock /\ pc[l] = "run" /\ pc'[l] = "browse"
            /\ todo'[l] = done[l] /\ done' = done
        BY <3>6, <1>0 DEF Browse, At, Goto, TypeOK, lists
      <4>2. NoRepeat(done[l])
        BY DEF LInv, NoRepeats, List, Queues
      <4>. QED BY <3>0, <4>1, <4>2 DEF LockedAt, NoRepeat, Listed
    <3>7. CASE Reload(l)
      <4>1. /\ list_lock' = list_lock /\ pc[l] = "browse" /\ pc'[l] = "reload"
            /\ todo' = todo /\ done' = done /\ todo[l] # <<>>
        BY <3>7, <1>0 DEF Reload, At, Goto, TypeOK, lists, manage
      <4>. QED BY <3>0, <4>1 DEF LockedAt, NoRepeat, Listed
    <3>8. CASE ReloadFails(l)
      <4>1. /\ list_lock' = list_lock /\ pc[l] = "browse" /\ pc' = pc
            /\ todo'[l] = Tail(todo[l]) /\ done' = done /\ todo[l] # <<>>
        BY <3>8, <1>0 DEF ReloadFails, At, TypeOK, lists
      <4>2. NoRepeat(Tail(todo[l])) /\ Listed(Tail(todo[l])) \subseteq Listed(todo[l])
        BY <4>1, Browsed
      <4>3. NoRepeat(todo'[l]) /\ Listed(todo'[l]) \subseteq Listed(done'[l])
        BY <3>0, <4>1, <4>2 DEF LockedAt
      <4>. QED BY <3>0, <4>1, <4>3 DEF LockedAt, NoRepeat, Listed
    <3>9. CASE ReloadDone(l)
      <4>1. /\ list_lock' = list_lock /\ pc[l] = "reload" /\ pc'[l] = "browse"
            /\ todo'[l] = Tail(todo[l]) /\ done'[l] = Without(done[l], Head(todo[l]))
        BY <3>9, <1>0 DEF ReloadDone, At, Goto, TypeOK
      <4>2. todo[l] # <<>>
        BY <3>0, <4>1 DEF LockedAt
      <4>3. NoRepeat(Tail(todo[l])) /\ Listed(Tail(todo[l])) = Listed(todo[l]) \ {Head(todo[l])}
        BY <4>1, <4>2, Browsed
      <4>4. done[l] \in Seq(Timers) /\ NoRepeat(done[l])
        BY <1>0 DEF TypeOK, LInv, NoRepeats, List, Queues
      <4>5. Listed(Without(done[l], Head(todo[l]))) = Listed(done[l]) \ {Head(todo[l])}
        BY <4>4, WithoutFacts
      <4>6. NoRepeat(todo'[l]) /\ Listed(todo'[l]) \subseteq Listed(done'[l])
        BY <3>0, <4>1, <4>3, <4>5 DEF LockedAt
      <4>. QED BY <3>0, <4>1, <4>6 DEF LockedAt, NoRepeat, Listed
    <3>. QED
      BY <1>2, <3>1, <3>2, <3>3, <3>4, <3>5, <3>6, <3>7, <3>8, <3>9 DEF Step
  <2>. QED BY <2>1, <2>2 DEF Locked
<1>. QED BY <1>1, <1>2 DEF Next

(* The expiry time that a step writes is that of a timer that is in no      *)
(* expired list and that nobody executes.                                   *)
LEMMA ExpireWritten ==
  ASSUME IInv, LInv, NEW l \in Lcores, Reset(l) \/ Stop(l) \/ Manage(l) \/ Step(l)
  PROVE  /\ \A o \in Lcores : \A t \in Listed(expired[o]) : expire'[t] = expire[t]
         /\ \A t \in Timers : status[t].state = "RUNNING" => expire'[t] = expire[t]
<1>1. CASE Add(l)
  <2>1. PICK t : t = call[l].t
    OBVIOUS
  <2>2. /\ pc[l] = "add" /\ t \in Timers /\ DOMAIN expire = Timers
        /\ expire' = [expire EXCEPT ![t] = call[l].expire]
    BY <1>1, <2>1, AddEffect DEF Add, At, LInv, TypeOK
  <2>3. status[t] = Status("CONFIG", l)
    BY <2>1, <2>2 DEF IInv, Configured, Configuring
  <2>4. \A o \in Lcores : t \notin Listed(expired[o])
    BY <2>1, <2>2 DEF LInv, Moving, MovingAt, Unlisted, OnListOf, In, List, Queues
  <2>5. status[t].state = "CONFIG"
    BY <2>3 DEF Status
  <2>6. \A u : u # t => expire'[u] = expire[u]
    BY <2>2
  <2>. QED BY <2>4, <2>5, <2>6
<1>2. CASE ReloadDone(l)
  <2>1. PICK t : t = Head(todo[l])
    OBVIOUS
  <2>2. /\ pc[l] = "reload" /\ t \in Timers /\ In(t, "done", l) /\ DOMAIN expire = Timers
        /\ expire' = [expire EXCEPT ![t] = cur_time[l] + period[t]]
    BY <1>2, <2>1, ReloadEffect DEF LInv, TypeOK
  <2>3. status[t] = Status("CONFIG", l)
    BY <2>1, <2>2 DEF IInv, Configured, Configuring
  <2>4. \A o \in Lcores : t \notin Listed(expired[o])
    <3>1. \A o \in Lcores : ~In(t, "expired", o)
      BY <2>2 DEF LInv, Unique, Queues
    <3>. QED BY <3>1 DEF In, List
  <2>5. status[t].state = "CONFIG"
    BY <2>3 DEF Status
  <2>6. \A u : u # t => expire'[u] = expire[u]
    BY <2>2
  <2>. QED BY <2>4, <2>5, <2>6
<1>3. CASE \/ Reset(l) \/ Stop(l) \/ Manage(l) \/ Config(l) \/ ConfigFails(l) \/ Del(l) \/ Publish(l)
           \/ Collect(l) \/ Run(l) \/ Skip(l) \/ CallbackReturns(l) \/ AfterCallback(l)
           \/ Browse(l) \/ Reload(l) \/ ReloadFails(l) \/ ManageReturns(l)
  <2>1. expire' = expire
    BY <1>3 DEF Reset, Stop, Called, Manage, Config, ConfigFails, Del, Publish, Collect, Run,
       Skip, CallbackReturns, AfterCallback, Browse, Reload, ReloadFails, ManageReturns, timers
  <2>. QED BY <2>1
<1>. QED BY <1>1, <1>2, <1>3 DEF Step

(* Only rte_timer_manage puts timers in expired. *)
LEMMA ExpiredShrinks ==
  ASSUME IInv, LInv, NEW l \in Lcores, Reset(l) \/ Stop(l) \/ Manage(l) \/ Step(l),
         NEW o \in Lcores, o = l => ~Collect(l)
  PROVE  /\ Listed(expired'[o]) \subseteq Listed(expired[o])
         /\ expired[o] = <<>> => expired'[o] = <<>>
<1>0. expired \in [Lcores -> Seq(Timers)]
  BY DEF LInv, TypeOK
<1>e. Listed(<<>>) = {}
  BY DEF Listed
<1>1. CASE Del(l)
  <2>1. expired' = [expired EXCEPT ![call[l].prev.owner] = Without(@, call[l].t)]
    BY <1>1 DEF Del, Remove
  <2>2. expired[o] \in Seq(Timers) /\ NoRepeat(expired[o])
    BY <1>0 DEF LInv, NoRepeats, List, Queues
  <2>3. Listed(Without(expired[o], call[l].t)) \subseteq Listed(expired[o])
    BY <2>2, WithoutFacts
  <2>4. expired[o] = <<>> => Without(expired[o], call[l].t) = <<>>
    BY <1>e DEF Without
  <2>5. expired'[o] \in {expired[o], Without(expired[o], call[l].t)}
    BY <1>0, <2>1
  <2>. QED BY <2>3, <2>4, <2>5
<1>2. CASE Run(l) \/ Skip(l)
  <2>1. expired[l] # <<>> /\ expired' = [expired EXCEPT ![l] = Tail(@)]
    BY <1>2 DEF Run, Skip
  <2>2. expired[l] \in Seq(Timers) /\ NoRepeat(expired[l])
    BY <1>0 DEF LInv, NoRepeats, List, Queues
  <2>3. Listed(Tail(expired[l])) \subseteq Listed(expired[l])
    BY <2>1, <2>2, TailFacts
  <2>. QED BY <1>0, <2>1, <2>3
<1>3. CASE Collect(l)
  BY <1>0, <1>3 DEF Collect
<1>4. CASE \/ Reset(l) \/ Stop(l) \/ Manage(l) \/ Config(l) \/ ConfigFails(l) \/ Add(l) \/ Publish(l)
           \/ CallbackReturns(l) \/ AfterCallback(l)
           \/ Browse(l) \/ Reload(l) \/ ReloadFails(l) \/ ReloadDone(l) \/ ManageReturns(l)
  <2>1. expired' = expired
    BY <1>4 DEF Reset, Stop, Called, Manage, Config, ConfigFails, Add, Publish,
       CallbackReturns, AfterCallback, Browse, Reload, ReloadFails, ReloadDone, ManageReturns, lists
  <2>. QED BY <2>1
<1>. QED BY <1>1, <1>2, <1>3, <1>4 DEF Step

(* What is in expired stays due, and so does what is executed.              *)
LEMMA DueStep == IInv /\ LInv /\ IInv' /\ [Next]_vars => Due'
<1> SUFFICES ASSUME IInv, LInv, IInv', [Next]_vars PROVE Due'
  OBVIOUS
<1>0. Due /\ TypeOK
  BY DEF LInv
<1>1. CASE UNCHANGED vars \/ Tick
  <2>1. /\ UNCHANGED <<pc, call, cur_time, expired, expire, tim, touched>>
        /\ now' \in {now, now + 1}
    BY <1>1 DEF vars, Tick, lists, timers, manage
  <2>. QED BY <1>0, <2>1 DEF Due, DueAt, InCallback, Listed, TypeOK
<1>2. ASSUME NEW l \in Lcores, Reset(l) \/ Stop(l) \/ Manage(l) \/ Step(l)
      PROVE  Due'
  <2>n. now' = now /\ now \in Nat
    BY <1>2, <1>0 DEF Reset, Stop, Called, Manage, Step, Config, ConfigFails, Del, Add, Publish,
       Collect, Run, Skip, CallbackReturns, AfterCallback, Browse, Reload, ReloadFails,
       ReloadDone, ManageReturns, TypeOK
  <2>x. /\ \A o \in Lcores : \A t \in Listed(expired[o]) : expire'[t] = expire[t]
        /\ \A t \in Timers : status[t].state = "RUNNING" => expire'[t] = expire[t]
    BY <1>2, ExpireWritten
  <2>r. \A o \in Lcores, t \in Timers : InCallback(o) /\ tim[o] = <<t>> /\ ~touched[o]
          => expire'[t] = expire[t]
    <3> SUFFICES ASSUME NEW o \in Lcores, NEW t \in Timers,
                        InCallback(o), tim[o] = <<t>>, ~touched[o]
                 PROVE  status[t].state = "RUNNING"
      BY <2>x
    <3>1. status[t] = Status("RUNNING", o)
      BY DEF IInv, Untouched
    <3>. QED BY <3>1 DEF Status
  <2>1. ASSUME NEW o \in Lcores, o # l PROVE DueAt(o)'
    <3>1. /\ pc'[o] = pc[o] /\ call'[o] = call[o] /\ tim'[o] = tim[o]
          /\ touched'[o] = touched[o] /\ cur_time'[o] = cur_time[o]
      BY <1>2, <2>1, OneMoves
    <3>2. /\ Listed(expired'[o]) \subseteq Listed(expired[o])
          /\ expired[o] = <<>> => expired'[o] = <<>>
      BY <1>2, <2>1, ExpiredShrinks
    <3>3. DueAt(o)
      BY <1>0 DEF Due
    <3>4. InCallback(o)' <=> InCallback(o)
      BY <3>1 DEF InCallback
    <3>5. \A t : t \in Listed(expired[o])' => t \in Listed(expired[o]) /\ expire'[t] <= cur_time'[o]
      BY <2>x, <3>1, <3>2, <3>3 DEF DueAt, Listed
    <3>. QED BY <2>n, <2>r, <3>1, <3>2, <3>3, <3>4, <3>5 DEF DueAt
  <2>2. CASE Collect(l)
    <3>1. /\ pc'[l] = "run" /\ cur_time'[l] = cur_time[l] /\ ~InCallback(l)'
      BY <2>2, <1>0 DEF Collect, Goto, TypeOK, InCallback, CallLabels, manage
    <3>2. \A t \in Listed(expired[l])' : t \in Listed(expired[l]) \/ Expired(l, t)
      BY <2>2, CollectEffect DEF Listed
    <3>3. expire' = expire
      BY <2>2 DEF Collect, timers
    <3>4. DueAt(l)
      BY <1>0 DEF Due
    <3>5. \A t \in Listed(expired[l])' : expire'[t] <= cur_time'[l]
      BY <3>1, <3>2, <3>3, <3>4 DEF DueAt, Expired
    <3>6. DueAt(l)'
      BY <2>n, <3>1, <3>4, <3>5 DEF DueAt
    <3>. QED BY <2>1, <3>6 DEF Due
  <2>3. CASE ~Collect(l)
    <3>1. DueAt(l)
      BY <1>0 DEF Due
    <3>2. /\ Listed(expired'[l]) \subseteq Listed(expired[l])
          /\ expired[l] = <<>> => expired'[l] = <<>>
      BY <1>2, <2>3, ExpiredShrinks
    <3>3. \/ cur_time'[l] = cur_time[l]
          \/ cur_time'[l] \in {0, now} /\ expired[l] = <<>>
      <4>1. CASE Manage(l)
        <5>1. cur_time'[l] = now /\ pc[l] # "run" /\ ~InCallback(l)
          BY <4>1, <1>0 DEF Manage, At, InCallback, CallLabels, TypeOK
        <5>. QED BY <3>1, <5>1 DEF DueAt
      <4>2. CASE ManageReturns(l)
        <5>1. cur_time'[l] = 0 /\ pc[l] # "run" /\ ~InCallback(l)
          BY <4>2, <1>0 DEF ManageReturns, At, InCallback, CallLabels, TypeOK
        <5>. QED BY <3>1, <5>1 DEF DueAt
      <4>3. CASE ~Manage(l) /\ ~ManageReturns(l)
        <5>1. cur_time' = cur_time
          BY <1>2, <2>3, <4>3 DEF Reset, Stop, Called, Step, Config, ConfigFails, Del, Add, Publish,
             Run, Skip, CallbackReturns, AfterCallback, Browse, Reload, ReloadFails, ReloadDone, manage
        <5>. QED BY <5>1
      <4>. QED BY <4>1, <4>2, <4>3
    <3>4. pc'[l] # "run" /\ ~InCallback(l)' => (pc[l] # "run" /\ ~InCallback(l)) \/ expired[l] = <<>>
      <4>1. CASE Reset(l) \/ Stop(l)
        <5>1. PICK c : Called(l, c) /\ c.back = pc[l]
          BY <4>1, CallMade
        <5>2. /\ pc'[l] = "config" /\ call'[l].back = pc[l] /\ pc[l] \in {"idle", "callback"}
          BY <5>1, <1>0 DEF Called, Goto, TypeOK
        <5>. QED BY <5>2 DEF InCallback, CallLabels
      <4>2. CASE Config(l) \/ Del(l) \/ Add(l)
        <5>1. /\ pc'[l] \in CallLabels /\ pc[l] \in CallLabels
          BY <4>2, <1>0 DEF Config, Del, Add, At, Goto, TypeOK, CallLabels
        <5>2. call'[l].back = call[l].back
          <6>1. CASE Config(l)
            <7>1. call[l] \in Call
              BY <5>1, CallType
            <7>. QED BY <6>1, <7>1, <1>0 DEF Config, TypeOK, Call
          <6>2. CASE Del(l) \/ Add(l)
            BY <6>2 DEF Del, Add
          <6>. QED BY <4>2, <6>1, <6>2
        <5>. QED BY <5>1, <5>2 DEF InCallback, CallLabels
      <4>3. CASE ConfigFails(l) \/ Publish(l)
        <5>1. pc[l] \in CallLabels /\ pc'[l] = call[l].back
          BY <4>3, <1>0 DEF ConfigFails, Publish, At, Goto, TypeOK, CallLabels
        <5>. QED BY <5>1 DEF InCallback, CallLabels
      <4>4. CASE \/ Manage(l) \/ Run(l) \/ Skip(l) \/ CallbackReturns(l) \/ AfterCallback(l)
                 \/ Browse(l) \/ Reload(l) \/ ReloadFails(l) \/ ReloadDone(l) \/ ManageReturns(l)
        <5>1. \/ pc[l] \in {"idle", "browse", "reload"}
              \/ pc'[l] \in {"run", "callback", "relock"}
              \/ expired[l] = <<>>
          BY <4>4, <1>0 DEF Manage, Run, Skip, CallbackReturns, AfterCallback, Browse, Reload,
             ReloadFails, ReloadDone, ManageReturns, At, Goto, TypeOK
        <5>. QED BY <5>1 DEF InCallback, CallLabels
      <4>. QED BY <1>2, <2>3, <4>1, <4>2, <4>3, <4>4 DEF Step
    <3>5. ASSUME NEW t \in Timers, InCallback(l)', tim'[l] = <<t>>, ~touched'[l]
          PROVE  expire'[t] <= now
      <4>1. CASE Run(l)
        <5>1. tim'[l] = <<Head(expired[l])>> /\ expire' = expire
          BY <4>1, <1>0 DEF Run, TypeOK
        <5>2. Head(expired[l]) \in Listed(expired[l])
          BY <4>1, HeadEffect DEF In, List
        <5>3. t = Head(expired[l])
          BY <3>5, <5>1
        <5>4. expire[t] <= cur_time[l] /\ cur_time[l] <= now
          BY <3>1, <5>2, <5>3 DEF DueAt
        <5>. QED BY <1>0, <5>1, <5>4 DEF TypeOK
      <4>2. CASE ~Run(l)
        <5>1. InCallback(l) /\ tim'[l] = tim[l] /\ touched'[l] = touched[l]
          <6>1. CASE Reset(l) \/ Stop(l)
            <7>1. PICK c : Called(l, c) /\ c.back = pc[l]
              BY <6>1, CallMade
            <7>2. /\ pc'[l] = "config" /\ call'[l].back = pc[l]
                  /\ tim' = tim /\ touched' = touched
              BY <7>1, <1>0 DEF Called, Goto, TypeOK, manage
            <7>. QED BY <3>5, <7>2 DEF InCallback, CallLabels
          <6>2. CASE Config(l)
            <7>1. /\ pc[l] = "config" /\ call[l] \in Call /\ call'[l].back = call[l].back
              <8>1. pc[l] = "config"
                BY <6>2 DEF Config, At
              <8>2. call[l] \in Call
                BY <8>1, CallType DEF CallLabels
              <8>. QED BY <6>2, <8>1, <8>2, <1>0 DEF Config, TypeOK, Call
            <7>2. tim' = tim /\ ~touched[l] /\ ~touched'[l]
              BY <3>5, <6>2, <1>0 DEF Config, TypeOK, manage
            <7>3. touched[l] \in BOOLEAN /\ touched'[l] \in BOOLEAN
              BY DEF IInv, Types
            <7>. QED BY <3>5, <7>1, <7>2, <7>3, <6>2, <1>0 DEF InCallback, CallLabels, Config, Goto, TypeOK
          <6>3. CASE ConfigFails(l) \/ Del(l) \/ Add(l) \/ Publish(l)
            <7>1. /\ pc[l] \in CallLabels /\ tim' = tim /\ touched' = touched
                  /\ \/ pc'[l] = call[l].back /\ call[l].back \in {"idle", "callback"}
                     \/ pc'[l] \in CallLabels /\ call' = call
              <8>1. pc[l] \in CallLabels
                BY <6>3 DEF ConfigFails, Del, Add, Publish, At, CallLabels
              <8>. QED BY <6>3, <8>1, <1>0, CallType DEF ConfigFails, Del, Add, Publish, At, Goto, TypeOK,
                      CallLabels, manage
            <7>. QED BY <3>5, <7>1 DEF InCallback, CallLabels
          <6>4. CASE \/ Manage(l) \/ Skip(l) \/ CallbackReturns(l) \/ AfterCallback(l)
                     \/ Browse(l) \/ Reload(l) \/ ReloadFails(l) \/ ReloadDone(l) \/ ManageReturns(l)
            <7>1. \/ pc'[l] \in {"idle", "collect", "run", "browse", "reload"}
                  \/ pc[l] = "callback" /\ tim' = tim /\ touched' = touched
              BY <6>4, <1>0 DEF Manage, Skip, CallbackReturns, AfterCallback, Browse, Reload,
                 ReloadFails, ReloadDone, ManageReturns, At, Goto, TypeOK, manage
            <7>. QED BY <3>5, <7>1 DEF InCallback, CallLabels
          <6>. QED BY <1>2, <2>3, <4>2, <6>1, <6>2, <6>3, <6>4 DEF Step
        <5>2. expire'[t] = expire[t]
          BY <2>r, <3>5, <5>1
        <5>. QED BY <3>1, <3>5, <5>1, <5>2 DEF DueAt
      <4>. QED BY <4>1, <4>2
    <3>6. \A t \in Listed(expired[l])' : t \in Listed(expired[l])
      BY <3>2 DEF Listed
    <3>e. Listed(<<>>) = {}
      BY DEF Listed
    <3>7. \A t \in Listed(expired[l])' : expire'[t] <= cur_time'[l]
      <4>1. CASE expired[l] = <<>>
        BY <3>6, <3>e, <4>1
      <4>2. CASE expired[l] # <<>>
        BY <2>x, <3>1, <3>3, <3>6, <4>2 DEF DueAt
      <4>. QED BY <4>1, <4>2
    <3>8. cur_time'[l] <= now
      BY <2>n, <3>1, <3>3 DEF DueAt
    <3>9. DueAt(l)'
      BY <2>n, <3>1, <3>2, <3>4, <3>5, <3>7, <3>8 DEF DueAt
    <3>. QED BY <2>1, <3>9 DEF Due
  <2>. QED BY <2>2, <2>3
<1>. QED BY <1>1, <1>2 DEF Next

(* Dropping elements of a sorted list leaves it sorted. *)
LEMMA KeepsSorted ==
  ASSUME LInv, NEW l \in Lcores, pending'[l] \in Seq(Timers), expire' = expire,
         Keeps(pending'[l], pending[l])
  PROVE  \A j, k \in DOMAIN pending'[l] :
           j <= k => expire'[pending'[l][j]] <= expire'[pending'[l][k]]
<1>1. SortedPending /\ pending[l] \in Seq(Timers)
  BY DEF LInv, TypeOK
<1>2. DOMAIN pending[l] = 1 .. Len(pending[l]) /\ DOMAIN pending'[l] = 1 .. Len(pending'[l])
  BY <1>1
<1>3. \A m, n \in 1 .. Len(pending[l]) :
        m <= n => expire[pending[l][m]] <= expire[pending[l][n]]
  BY <1>1, <1>2 DEF SortedPending
<1> SUFFICES ASSUME NEW j \in 1 .. Len(pending'[l]), NEW k \in 1 .. Len(pending'[l]), j <= k
             PROVE  expire'[pending'[l][j]] <= expire'[pending'[l][k]]
  BY <1>2
<1>4. PICK m, n \in 1 .. Len(pending[l]) :
        m <= n /\ pending'[l][j] = pending[l][m] /\ pending'[l][k] = pending[l][n]
  BY DEF Keeps
<1>. QED BY <1>3, <1>4

(* The pending lists stay sorted. *)
LEMMA SortedStep == IInv /\ LInv /\ TypeOK' /\ [Next]_vars => SortedPending'
<1> SUFFICES ASSUME IInv, LInv, TypeOK', [Next]_vars PROVE SortedPending'
  OBVIOUS
<1>0. SortedPending
  BY DEF LInv
<1>1. CASE UNCHANGED <<pending, expire>>
  BY <1>0, <1>1 DEF SortedPending
<1>2. CASE ~UNCHANGED <<pending, expire>>
  <2>1. PICK l \in Lcores : Del(l) \/ Add(l) \/ Collect(l) \/ ReloadDone(l)
    BY <1>2 DEF Next, Step, vars, Tick, Reset, Stop, Called, Manage, Config, ConfigFails, Publish,
       Run, Skip, CallbackReturns, AfterCallback, Browse, Reload, ReloadFails, ManageReturns,
       timers, lists
  <2>2. CASE Add(l) \/ ReloadDone(l)
    BY <2>2, AddEffect, ReloadEffect
  <2>3. CASE Del(l) \/ Collect(l)
    <3>1. expire' = expire
      BY <2>3 DEF Del, Collect, timers
    <3>2. \A p \in Lcores : Keeps(pending'[p], pending[p])
      BY <2>3, DelEffect, CollectEffect
    <3>3. \A p \in Lcores : pending'[p] \in Seq(Timers)
      BY DEF TypeOK
    <3>. QED BY <3>1, <3>2, <3>3, KeepsSorted DEF SortedPending
  <2>. QED BY <2>1, <2>2, <2>3
<1>. QED BY <1>1, <1>2

(* A status is written RUNNING only by Run. *)
LEMMA RunningWritten ==
  ASSUME IInv, LInv, NEW l \in Lcores, Reset(l) \/ Stop(l) \/ Manage(l) \/ Step(l),
         NEW t \in Timers, status'[t].state = "RUNNING"
  PROVE  status'[t] = status[t] \/ (Run(l) /\ status'[t] = Status("RUNNING", l))
<1>0. DOMAIN status = Timers
  BY DEF LInv, TypeOK
<1>1. CASE \/ Reset(l) \/ Stop(l) \/ Manage(l) \/ ConfigFails(l) \/ Del(l) \/ Add(l) \/ Collect(l)
           \/ Skip(l) \/ CallbackReturns(l) \/ Browse(l) \/ ReloadFails(l) \/ ManageReturns(l)
  BY <1>1 DEF Reset, Stop, Called, Manage, ConfigFails, Del, Add, Collect, Skip, CallbackReturns,
     Browse, ReloadFails, ManageReturns, timers
<1>2. CASE Config(l) \/ Publish(l) \/ AfterCallback(l) \/ Reload(l) \/ ReloadDone(l)
  <2>1. \/ status' = status
        \/ \E u : status' = [status EXCEPT ![u] = Status("CONFIG", l)]
        \/ \E u, o : status' = [status EXCEPT ![u] = Status("PENDING", o)]
        \/ \E u : status' = [status EXCEPT ![u] = Status("STOP", NO_OWNER)]
    BY <1>2 DEF Config, Reload, Publish, AfterCallback, ReloadDone, SetStatus
  <2>2. CASE status' = status
    BY <2>2
  <2>3. CASE \E u : status' = [status EXCEPT ![u] = Status("CONFIG", l)]
    BY <1>0, <2>3 DEF Status
  <2>4. CASE \E u, o : status' = [status EXCEPT ![u] = Status("PENDING", o)]
    BY <1>0, <2>4 DEF Status
  <2>5. CASE \E u : status' = [status EXCEPT ![u] = Status("STOP", NO_OWNER)]
    BY <1>0, <2>5 DEF Status
  <2>. QED BY <2>1, <2>2, <2>3, <2>4, <2>5
<1>3. CASE Run(l)
  BY <1>0, <1>3 DEF Run, SetStatus
<1>. QED BY <1>1, <1>2, <1>3 DEF Step

(* A timer that is RUNNING on the lcore that makes the step: the callback   *)
(* goes on, or rte_timer_manage, which does not pass over it.               *)
LEMMA RunningHere ==
  ASSUME IInv, LInv, NEW l \in Lcores, Reset(l) \/ Stop(l) \/ Manage(l) \/ Step(l),
         NEW t \in Timers, status[t] = Status("RUNNING", l), InManage(l, t)
  PROVE  InManage(l, t)'
<1>0. TypeOK /\ In(t, "done", l)
  BY DEF LInv, Placed, PlacedAt, Is, Status
<1>1. \A x : <<x>> # <<>>
  OBVIOUS
<1>2. CASE Run(l)
  BY <1>0, <1>1, <1>2 DEF Run, InManage, TypeOK
<1>3. CASE AfterCallback(l)
  BY <1>0, <1>3 DEF AfterCallback, InManage, At, Goto, TypeOK
<1>4. CASE Browse(l)
  <2>1. todo'[l] = done[l]
    BY <1>0, <1>4 DEF Browse, TypeOK
  <2>. QED BY <1>0, <2>1 DEF InManage, In, List, Listed
<1>5. CASE ReloadFails(l) \/ ReloadDone(l)
  <2>1. /\ pc[l] \in {"browse", "reload"} /\ tim' = tim /\ todo'[l] = Tail(todo[l])
        /\ pc[l] = "browse" => todo[l] # <<>>
    BY <1>0, <1>5 DEF ReloadFails, ReloadDone, At, TypeOK
  <2>2. Head(todo[l]) # t
    <3>1. CASE ReloadFails(l)
      BY <3>1 DEF ReloadFails, Busy, Is, Status
    <3>2. CASE ReloadDone(l)
      <4>1. pc[l] = "reload"
        BY <3>2 DEF ReloadDone, At
      <4>2. Head(todo[l]) = t => status[t] = Status("CONFIG", l)
        BY <4>1 DEF IInv, Configured, Configuring
      <4>. QED BY <4>2 DEF Status
    <3>. QED BY <1>5, <3>1, <3>2
  <2>3. todo[l] # <<>>
    BY <2>1 DEF LInv, Locked, LockedAt
  <2>4. Listed(Tail(todo[l])) = Listed(todo[l]) \ {Head(todo[l])}
    BY <2>1, <2>3, Browsed
  <2>5. t \in Listed(todo[l]) => t \in Listed(todo[l])'
    BY <2>1, <2>2, <2>4 DEF Listed
  <2>. QED BY <2>1, <2>5 DEF InManage, At
<1>6. CASE /\ ~Run(l) /\ ~AfterCallback(l) /\ ~Browse(l) /\ ~ReloadFails(l) /\ ~ReloadDone(l)
  <2>1. UNCHANGED <<tim, todo>>
    BY <1>6 DEF Step, Reset, Stop, Called, Manage, Config, ConfigFails, Del, Add, Publish, Collect,
       Skip, CallbackReturns, Reload, ManageReturns, manage
  <2>2. pc[l] = "run" => pc'[l] = "run"
    BY <1>6 DEF Step, Reset, Stop, Called, Manage, Config, ConfigFails, Del, Add, Publish, Collect,
       Skip, CallbackReturns, Reload, ManageReturns, At
  <2>. QED BY <2>1, <2>2 DEF InManage, At, Listed
<1>. QED BY <1>2, <1>3, <1>4, <1>5, <1>6

LEMMA RunningStep == IInv /\ LInv /\ [Next]_vars => Running'
<1> SUFFICES ASSUME IInv, LInv, [Next]_vars PROVE Running'
  OBVIOUS
<1>0. Running /\ TypeOK
  BY DEF LInv
<1>1. CASE UNCHANGED vars \/ Tick
  <2>1. UNCHANGED <<status, tim, pc, todo>>
    BY <1>1 DEF vars, Tick, timers, manage
  <2>. QED BY <1>0, <2>1 DEF Running, Is, InManage, At, Listed
<1>2. ASSUME NEW l \in Lcores, Reset(l) \/ Stop(l) \/ Manage(l) \/ Step(l)
      PROVE  Running'
  <2> SUFFICES ASSUME NEW t \in Timers, status'[t].state = "RUNNING"
               PROVE  \A o : o = status'[t].owner => InManage(o, t)'
    BY DEF Running, Is, InManage, At
  <2>1. CASE Run(l) /\ status'[t] = Status("RUNNING", l)
    <3>1. status'[t].owner = l
      BY <2>1 DEF Status
    <3>2. \A x : <<x>> # <<>>
      OBVIOUS
    <3>3. tim'[l] # <<>>
      BY <1>0, <2>1, <3>2 DEF Run, TypeOK
    <3>. QED BY <3>1, <3>3 DEF InManage
  <2>2. CASE status'[t] = status[t]
    <3>1. PICK o : o = status[t].owner
      OBVIOUS
    <3>2. o \in Lcores /\ InManage(o, t) /\ status[t] = Status("RUNNING", o)
      BY <1>0, <2>2, <3>1 DEF LInv, Placed, PlacedAt, Running, Is, InUse, TypeOK, Status
    <3>3. CASE o = l
      BY <1>2, <2>2, <3>1, <3>2, <3>3, RunningHere
    <3>4. CASE o # l
      <4>1. pc'[o] = pc[o] /\ tim'[o] = tim[o] /\ todo'[o] = todo[o]
        BY <1>2, <3>2, <3>4, OneMoves
      <4>2. InManage(o, t)'
        BY <3>2, <4>1 DEF InManage, At, Listed
      <4>. QED BY <2>2, <3>1, <4>2
    <3>. QED BY <3>3, <3>4
  <2>. QED BY <1>2, <2>1, <2>2, RunningWritten
<1>. QED BY <1>1, <1>2 DEF Next

(* The lists and the statuses agree in every reachable state.               *)
THEOREM SpecLInv == Spec => [](IInv /\ LInv)
<1>1. Init => IInv /\ LInv
  BY InitIInv, InitLInv
<1>2. IInv /\ LInv /\ [Next]_vars => (IInv /\ LInv)'
  <2> SUFFICES ASSUME IInv, LInv, [Next]_vars PROVE IInv' /\ LInv'
    OBVIOUS
  <2>1. IInv'
    BY NextIInv
  <2>2. TypeOK'
    BY <2>1, TypeStep
  <2>3. NoRepeats' /\ Unique'
    BY UniqueStep
  <2>4. Placed' /\ Moving'
    BY <2>1, PlacedStep
  <2>5. Locked' /\ Due'
    BY <2>1, LockedStep, DueStep
  <2>6. SortedPending' /\ Running'
    BY <2>2, SortedStep, RunningStep
  <2>. QED BY <2>1, <2>2, <2>3, <2>4, <2>5, <2>6 DEF LInv
<1>. QED BY <1>1, <1>2, PTL DEF Spec

(* Every variable keeps its type. *)
THEOREM TypeSafe == Spec => []TypeOK
<1>1. IInv /\ LInv => TypeOK
  BY DEF LInv
<1>. QED BY <1>1, SpecLInv, PTL

(* Where a timer is, as a position in a list. *)
LEMMA PlaceOf ==
  ASSUME LInv, NEW t \in Timers
  PROVE  \A p : p \in Places(t) <=>
                  \E q \in Queues, l \in Lcores : \E k \in 1 .. Len(List(q, l)) :
                    p = <<q, l, k>> /\ List(q, l)[k] = t
<1>1. \A q \in Queues, l \in Lcores : DOMAIN List(q, l) = 1 .. Len(List(q, l))
  BY ListTypes
<1> DEFINE Spots(q, l) == {<<q, l, k>> : k \in {j \in DOMAIN List(q, l) : List(q, l)[j] = t}}
<1>2. Places(t) = UNION {Spots(q, l) : q \in Queues, l \in Lcores}
  BY DEF Places, Queues
<1>3. \A q \in Queues, l \in Lcores : \A p :
        p \in Spots(q, l) <=> \E k \in 1 .. Len(List(q, l)) : p = <<q, l, k>> /\ List(q, l)[k] = t
  BY <1>1
<1> HIDE DEF Spots
<1>4. \A p : p \in Places(t) <=> \E q \in Queues, l \in Lcores : p \in Spots(q, l)
  BY <1>2
<1>. QED BY <1>3, <1>4

(* Whatever the interleaving, the lists agree with the statuses: a timer is *)
(* at most once in at most one list, in none when it is stopped, in one of  *)
(* its owner's when it is in use, in done when its callback is executed,    *)
(* and never left RUNNING by rte_timer_manage; the pending lists are sorted.*)
THEOREM ListsAreSound == Spec => []ListsSound
<1>1. IInv /\ LInv => ListsSound
  <2> SUFFICES ASSUME LInv PROVE ListsSound
    OBVIOUS
  <2>1. SortedPending
    BY DEF LInv
  <2>2. ASSUME NEW t \in Timers
        PROVE  /\ Cardinality(Places(t)) <= 1
               /\ Is(t, "STOP") => Places(t) = {}
               /\ InUse(status[t]) => \E p \in Places(t) : p[2] = status[t].owner
               /\ Is(t, "RUNNING") => /\ \A p \in Places(t) : p[1] = "done"
                                      /\ InManage(status[t].owner, t)
    <3>0. PlacedAt(t)
      BY DEF LInv, Placed
    <3>1. \A q \in Queues, l \in Lcores : \A k \in 1 .. Len(List(q, l)) :
            List(q, l)[k] = t => In(t, q, l)
      BY ListTypes, ListedAt DEF In
    <3>2. \A q \in Queues, l \in Lcores : In(t, q, l) =>
            \E k \in 1 .. Len(List(q, l)) : List(q, l)[k] = t
      BY ListTypes, ListedAt DEF In
    <3>3. \A p, r \in Places(t) : p = r
      <4> SUFFICES ASSUME NEW p \in Places(t), NEW r \in Places(t) PROVE p = r
        OBVIOUS
      <4>1. PICK q \in Queues, l \in Lcores : \E k \in 1 .. Len(List(q, l)) :
              p = <<q, l, k>> /\ List(q, l)[k] = t
        BY PlaceOf
      <4>2. PICK k \in 1 .. Len(List(q, l)) : p = <<q, l, k>> /\ List(q, l)[k] = t
        BY <4>1
      <4>3. PICK q2 \in Queues, l2 \in Lcores : \E m \in 1 .. Len(List(q2, l2)) :
              r = <<q2, l2, m>> /\ List(q2, l2)[m] = t
        BY PlaceOf
      <4>4. PICK m \in 1 .. Len(List(q2, l2)) : r = <<q2, l2, m>> /\ List(q2, l2)[m] = t
        BY <4>3
      <4>5. q = q2 /\ l = l2
        BY <3>1, <4>2, <4>4 DEF LInv, Unique
      <4>6. k = m
        BY <4>2, <4>4, <4>5, ListTypes DEF NoRepeat
      <4>. QED BY <4>2, <4>4, <4>5, <4>6
    <3>4. Cardinality(Places(t)) <= 1
      <4>1. CASE Places(t) = {}
        BY <4>1, FS_EmptySet
      <4>2. CASE Places(t) # {}
        <5>1. PICK p : p \in Places(t)
          BY <4>2
        <5>2. Places(t) = {p}
          BY <3>3, <5>1
        <5>3. Cardinality({p}) = 1
          BY FS_Singleton
        <5>. QED BY <5>2, <5>3
      <4>. QED BY <4>1, <4>2
    <3>5. Is(t, "STOP") => Places(t) = {}
      BY <3>0, <3>1, PlaceOf DEF PlacedAt, Unlisted, OnListOf
    <3>6. ASSUME InUse(status[t]) PROVE \E p \in Places(t) : p[2] = status[t].owner
      <4>1. PICK q \in Queues : status[t].owner \in Lcores /\ In(t, q, status[t].owner)
        BY <3>0, <3>6 DEF PlacedAt, OnListOf
      <4>2. PICK k \in 1 .. Len(List(q, status[t].owner)) : List(q, status[t].owner)[k] = t
        BY <3>2, <4>1
      <4>3. <<q, status[t].owner, k>> \in Places(t)
        BY <4>1, <4>2, PlaceOf
      <4>. QED BY <4>3
    <3>7. ASSUME Is(t, "RUNNING"), NEW p \in Places(t) PROVE p[1] = "done"
      <4>1. PICK q \in Queues, l \in Lcores : \E k \in 1 .. Len(List(q, l)) :
              p = <<q, l, k>> /\ List(q, l)[k] = t
        BY PlaceOf
      <4>2. In(t, q, l) /\ p[1] = q
        BY <3>1, <4>1
      <4>3. In(t, "done", status[t].owner) /\ status[t].owner \in Lcores
        BY <3>0, <3>7 DEF PlacedAt, Is, InUse
      <4>. QED BY <4>2, <4>3 DEF LInv, Unique, Queues
    <3>8. Is(t, "RUNNING") => InManage(status[t].owner, t)
      BY DEF LInv, Running
    <3>. QED BY <3>4, <3>5, <3>6, <3>7, <3>8
  <2>. QED BY <2>1, <2>2 DEF ListsSound
<1>. QED BY <1>1, SpecLInv, PTL

(* No callback starts before the latest expiry time of its timer, and none  *)
(* that has not touched its timer sees it put off.                          *)
THEOREM NeverEarly == Spec => []NotEarly
<1>1. IInv /\ LInv => NotEarly
  <2> SUFFICES ASSUME IInv, LInv, NEW l \in Lcores, NEW t \in Timers, tim[l] = <<t>>, ~touched[l]
               PROVE  expire[t] <= now
    BY DEF NotEarly, Executing
  <2>0. <<t>> # <<>>
    OBVIOUS
  <2>1. InCallback(l)
    BY <2>0 DEF IInv, InHand
  <2>. QED BY <2>1 DEF LInv, Due, DueAt
<1>. QED BY <1>1, SpecLInv, PTL
=============================================================================
