------------------------------- MODULE Timer -------------------------------
(***************************************************************************)
(* lib/librte_timer: timers that any lcore may start or stop and that the   *)
(* lcore which owns them runs from rte_timer_manage.                        *)
(*                                                                         *)
(* The status of a timer, its state and its owner, is one word that is      *)
(* changed by compare-and-set; a timer in use lies in one of three lists of *)
(* its owner (pending, expired, done), and the lists of an lcore are        *)
(* protected by its list_lock.  Every access to a status and every critical *)
(* section is a step of its own.  The lists are sequences, and a callback   *)
(* is whatever its lcore does between two steps of rte_timer_manage: any    *)
(* calls of rte_timer_reset and rte_timer_stop on any timers.               *)
(***************************************************************************)
EXTENDS Naturals, Sequences, FiniteSets

CONSTANTS
  Lcores,
  Timers,
  NO_OWNER,
  Ticks,      \* bound: the delays and periods asked for
  MaxEvents   \* bound: the calls of reset and stop and the steps of the clock

ASSUME TicksAssumption == Ticks \subseteq Nat
ASSUME OwnerAssumption == NO_OWNER \notin Lcores

VARIABLES
  status,     \* of each timer: its state and its owner
  expire,     \* of each timer
  period,     \* of each timer, 0 for a SINGLE one
  pending,    \* the three lists of each lcore
  expired,
  done,
  list_lock,  \* of each lcore: free or held
  updated,    \* of each lcore
  now,        \* rte_get_hpet_cycles
  pc,         \* what each lcore does next
  call,       \* the call of reset or stop it is in
  cur_time,   \* rte_timer_manage: the time it started
  tim,        \* rte_timer_manage: the timer in hand
  todo,       \* rte_timer_manage: what is left of done to browse
  calls,      \* the calls made so far
  touched     \* history, not in the code: the callback in progress on an lcore
              \* has reset or stopped its own timer

timers == <<status, expire, period>>
lists == <<pending, expired, done>>
manage == <<cur_time, tim, todo>>
flags == <<updated, touched>>
vars == <<timers, lists, list_lock, flags, now, pc, call, manage, calls>>

Status(state, owner) == [state |-> state, owner |-> owner]
Stopped == Status("STOP", NO_OWNER)
SetStatus(t, state, owner) == status' = [status EXCEPT ![t] = Status(state, owner)]
Is(t, state) == status[t].state = state

At(l, label) == pc[l] = label
Goto(l, label) == pc' = [pc EXCEPT ![l] = label]

Listed(list) == {list[k] : k \in DOMAIN list}
Without(list, t) ==  \* LIST_REMOVE
  LET k == CHOOSE k \in DOMAIN list : list[k] = t
  IN IF t \in Listed(list) THEN SubSeq(list, 1, k - 1) \o SubSeq(list, k + 1, Len(list))
                           ELSE list
Push(list, t) == <<t>> \o list
Free(l) == list_lock[l] = FALSE

(* rte_timer_subsystem_init and rte_timer_init. *)
Init ==
  /\ status = [t \in Timers |-> Stopped]
  /\ expire = [t \in Timers |-> 0]
  /\ period = [t \in Timers |-> 0]
  /\ pending = [l \in Lcores |-> <<>>]
  /\ expired = [l \in Lcores |-> <<>>]
  /\ done = [l \in Lcores |-> <<>>]
  /\ list_lock = [l \in Lcores |-> FALSE]
  /\ updated = [l \in Lcores |-> FALSE]
  /\ now = 0
  /\ pc = [l \in Lcores |-> "idle"]
  /\ call = [l \in Lcores |-> <<>>]
  /\ cur_time = [l \in Lcores |-> 0]
  /\ tim = [l \in Lcores |-> <<>>]
  /\ todo = [l \in Lcores |-> <<>>]
  /\ calls = 0
  /\ touched = [l \in Lcores |-> FALSE]

Tick == /\ now + calls < MaxEvents
        /\ now' = now + 1
        /\ UNCHANGED <<timers, lists, list_lock, flags, pc, call, manage, calls>>

-----------------------------------------------------------------------------
(* rte_timer_reset and rte_timer_stop, called by an lcore on its own or by  *)
(* a callback it executes; they go back to where they were called.  A timer *)
(* that LCORE_ID_ANY leaves to the round robin may go to any lcore.         *)
Called(l, c) ==
  /\ pc[l] \in {"idle", "callback"}
  /\ now + calls < MaxEvents
  /\ calls' = calls + 1
  /\ call' = [call EXCEPT ![l] = c]
  /\ Goto(l, "config")
  /\ UNCHANGED <<timers, lists, list_lock, flags, now, manage>>

Reset(l) ==
  \E t \in Timers, ticks \in Ticks, PERIODICAL \in BOOLEAN, tim_lcore \in Lcores :
    Called(l, [op |-> "reset", t |-> t, lcore |-> tim_lcore, back |-> pc[l],
               expire |-> now + ticks, period |-> IF PERIODICAL THEN ticks ELSE 0,
               prev |-> Stopped])

(* rte_timer_stop_sync asks again until it succeeds; an lcore that did so   *)
(* in a callback could wait for the callback of an lcore that waits for it. *)
Stop(l) ==
  \E t \in Timers, sync \in BOOLEAN :
    /\ sync => At(l, "idle")
    /\ Called(l, [op |-> IF sync THEN "stop_sync" ELSE "stop", t |-> t, lcore |-> l,
                  back |-> pc[l], expire |-> 0, period |-> 0, prev |-> Stopped])

(* A timer that runs on another lcore or is being configured is left alone. *)
MutantBusy(l, t) == Is(t, "CONFIG")  \* mutant: a running timer is not
MutantBusyOnce(l, t) ==  \* mutant: nor one that is being configured
  Is(t, "RUNNING") /\ status[t].owner # l
Busy(l, t) ==
  \/ Is(t, "RUNNING") /\ status[t].owner # l
  \/ Is(t, "CONFIG")

(* What was PENDING or RUNNING is in a list. *)
InUse(s) == s.state \in {"PENDING", "RUNNING"}

(* timer_set_config_state succeeds.                                         *)
Config(l) ==
  LET c == call[l]
  IN /\ At(l, "config")
     /\ ~Busy(l, c.t)
     /\ SetStatus(c.t, "CONFIG", l)
     /\ updated' = [updated EXCEPT ![l] = TRUE]
     /\ touched' = [touched EXCEPT ![l] = @ \/ tim[l] = <<c.t>>]
     /\ call' = [call EXCEPT ![l].prev = status[c.t]]
     /\ Goto(l, IF InUse(status[c.t]) THEN "del"
                ELSE IF c.op = "reset" THEN "add" ELSE "publish")
     /\ UNCHANGED <<expire, period, lists, list_lock, now, manage, calls>>

(* It fails: rte_timer_reset and rte_timer_stop return.                     *)
ConfigFails(l) ==
  LET c == call[l]
  IN /\ At(l, "config")
     /\ Busy(l, c.t)
     /\ c.op # "stop_sync"
     /\ Goto(l, c.back)
     /\ call' = [call EXCEPT ![l] = <<>>]
     /\ UNCHANGED <<timers, lists, list_lock, flags, now, manage, calls>>

(* timer_del, in a critical section of the previous owner: LIST_REMOVE      *)
(* takes the timer out of whichever list it is in.                          *)
Remove(o, t) ==
  /\ pending' = [pending EXCEPT ![o] = Without(@, t)]
  /\ expired' = [expired EXCEPT ![o] = Without(@, t)]
  /\ done' = [done EXCEPT ![o] = Without(@, t)]

Del(l) ==
  LET c == call[l]
  IN /\ At(l, "del")
     /\ Free(c.prev.owner)
     /\ Remove(c.prev.owner, c.t)
     /\ Goto(l, IF c.op = "reset" THEN "add" ELSE "publish")
     /\ UNCHANGED <<timers, list_lock, flags, now, call, manage, calls>>

(* Where a timer that expires at e goes: before the first that expires      *)
(* later.                                                                   *)
Inserted(list, t, e) ==
  LET k == Cardinality({j \in DOMAIN list : expire[list[j]] <= e})
  IN SubSeq(list, 1, k) \o <<t>> \o SubSeq(list, k + 1, Len(list))

(* timer_add, in a critical section of the target.  The fields of the timer *)
(* were set just before; nobody reads them while it is in CONFIG and in no  *)
(* list.                                                                    *)
Add(l) ==
  LET c == call[l]
  IN /\ At(l, "add")
     /\ Free(c.lcore)
     /\ pending' = [pending EXCEPT ![c.lcore] = Inserted(@, c.t, c.expire)]
     /\ expire' = [expire EXCEPT ![c.t] = c.expire]
     /\ period' = [period EXCEPT ![c.t] = c.period]
     /\ Goto(l, "publish")
     /\ UNCHANGED <<status, expired, done, list_lock, flags, now, call, manage, calls>>

(* Only the lcore that configures a timer writes its status: no             *)
(* compare-and-set.                                                         *)
Publish(l) ==
  LET c == call[l]
  IN /\ At(l, "publish")
     /\ IF c.op = "reset" THEN SetStatus(c.t, "PENDING", c.lcore)
                          ELSE SetStatus(c.t, "STOP", NO_OWNER)
     /\ Goto(l, c.back)
     /\ call' = [call EXCEPT ![l] = <<>>]
     /\ UNCHANGED <<expire, period, lists, list_lock, flags, now, manage, calls>>

-----------------------------------------------------------------------------
(* rte_timer_manage.                                                        *)
Manage(l) ==
  /\ At(l, "idle")
  /\ cur_time' = [cur_time EXCEPT ![l] = now]
  /\ Goto(l, "collect")
  /\ UNCHANGED <<timers, lists, list_lock, flags, now, call, tim, todo, calls>>

(* The timers before the first that has not expired are moved one by one to *)
(* the head of expired.                                                     *)
Expired(l, t) == expire[t] <= cur_time[l]
MutantDueCount(l) == Len(pending[l])  \* mutant: does not look at the time
DueCount(l) ==
  Cardinality({k \in DOMAIN pending[l] : \A j \in 1 .. k : Expired(l, pending[l][j])})

Collect(l) ==
  LET k == DueCount(l)
      due == SubSeq(pending[l], 1, k)
  IN /\ At(l, "collect")
     /\ Free(l)
     /\ list_lock' = [list_lock EXCEPT ![l] = TRUE]
     /\ pending' = [pending EXCEPT ![l] = SubSeq(@, k + 1, Len(@))]
     /\ expired' = [expired EXCEPT ![l] = [j \in 1 .. k |-> due[k + 1 - j]] \o @]
     /\ Goto(l, "run")
     /\ UNCHANGED <<timers, done, flags, now, call, manage, calls>>

(* A timer that is still PENDING is marked RUNNING, and its callback is     *)
(* executed with the lists unlocked.                                        *)
Run(l) ==
  LET t == Head(expired[l])
  IN /\ At(l, "run")
     /\ expired[l] # <<>>
     /\ Is(t, "PENDING")
     /\ SetStatus(t, "RUNNING", l)
     /\ expired' = [expired EXCEPT ![l] = Tail(@)]
     /\ done' = [done EXCEPT ![l] = Push(@, t)]
     /\ list_lock' = [list_lock EXCEPT ![l] = FALSE]
     /\ updated' = [updated EXCEPT ![l] = FALSE]
     /\ tim' = [tim EXCEPT ![l] = <<t>>]
     /\ Goto(l, "callback")
     /\ UNCHANGED <<expire, period, pending, now, call, cur_time, todo, calls, touched>>

(* One that somebody is configuring is left in done.                        *)
MutantSkip(l) ==  \* mutant: dropped
  LET t == Head(expired[l])
  IN /\ At(l, "run")
     /\ expired[l] # <<>>
     /\ ~Is(t, "PENDING")
     /\ expired' = [expired EXCEPT ![l] = Tail(@)]
     /\ UNCHANGED <<timers, pending, done, list_lock, flags, now, pc, call, manage, calls>>
Skip(l) ==
  LET t == Head(expired[l])
  IN /\ At(l, "run")
     /\ expired[l] # <<>>
     /\ ~Is(t, "PENDING")
     /\ expired' = [expired EXCEPT ![l] = Tail(@)]
     /\ done' = [done EXCEPT ![l] = Push(@, t)]
     /\ UNCHANGED <<timers, pending, list_lock, flags, now, pc, call, manage, calls>>

CallbackReturns(l) ==
  /\ At(l, "callback")
  /\ Goto(l, "relock")
  /\ UNCHANGED <<timers, lists, list_lock, flags, now, call, manage, calls>>

(* If the callback has reset or stopped a timer, whichever, nothing is done *)
(* to the one that ran; else a SINGLE timer is stopped and a PERIODICAL one *)
(* is PENDING again, in done.                                               *)
MutantAfterCallback(l) ==  \* mutant: does not look at updated
  LET t == tim[l][1]
  IN /\ At(l, "relock")
     /\ Free(l)
     /\ list_lock' = [list_lock EXCEPT ![l] = TRUE]
     /\ IF period[t] = 0
               THEN /\ SetStatus(t, "STOP", NO_OWNER)
                    /\ done' = [done EXCEPT ![l] = Without(@, t)]
          ELSE /\ SetStatus(t, "PENDING", l)
               /\ UNCHANGED done
     /\ tim' = [tim EXCEPT ![l] = <<>>]
     /\ touched' = [touched EXCEPT ![l] = FALSE]
     /\ Goto(l, "run")
     /\ UNCHANGED <<expire, period, pending, expired, updated, now, call, cur_time, todo, calls>>
AfterCallback(l) ==
  LET t == tim[l][1]
  IN /\ At(l, "relock")
     /\ Free(l)
     /\ list_lock' = [list_lock EXCEPT ![l] = TRUE]
     /\ \/ updated[l] /\ UNCHANGED <<status, done>>
        \/ /\ ~updated[l] /\ period[t] = 0
           /\ SetStatus(t, "STOP", NO_OWNER)
           /\ done' = [done EXCEPT ![l] = Without(@, t)]
        \/ /\ ~updated[l] /\ period[t] > 0
           /\ SetStatus(t, "PENDING", l)
           /\ UNCHANGED done
     /\ tim' = [tim EXCEPT ![l] = <<>>]
     /\ touched' = [touched EXCEPT ![l] = FALSE]
     /\ Goto(l, "run")
     /\ UNCHANGED <<expire, period, pending, expired, updated, now, call, cur_time, todo, calls>>

(* All callbacks done: what is in done is started again, unless somebody is *)
(* configuring it.  The lock is held to the end.                            *)
Browse(l) ==
  /\ At(l, "run")
  /\ expired[l] = <<>>
  /\ todo' = [todo EXCEPT ![l] = done[l]]
  /\ Goto(l, "browse")
  /\ UNCHANGED <<timers, lists, list_lock, flags, now, call, cur_time, tim, calls>>

Reload(l) ==
  LET t == Head(todo[l])
  IN /\ At(l, "browse")
     /\ todo[l] # <<>>
     /\ ~Busy(l, t)
     /\ SetStatus(t, "CONFIG", l)
     /\ updated' = [updated EXCEPT ![l] = TRUE]
     /\ Goto(l, "reload")
     /\ UNCHANGED <<expire, period, lists, list_lock, now, call, manage, calls, touched>>

ReloadFails(l) ==
  /\ At(l, "browse")
  /\ todo[l] # <<>>
  /\ Busy(l, Head(todo[l]))
  /\ todo' = [todo EXCEPT ![l] = Tail(@)]
  /\ UNCHANGED <<timers, lists, list_lock, flags, now, pc, call, cur_time, tim, calls>>

ReloadDone(l) ==
  LET t == Head(todo[l])
      e == cur_time[l] + period[t]
  IN /\ At(l, "reload")
     /\ done' = [done EXCEPT ![l] = Without(@, t)]
     /\ pending' = [pending EXCEPT ![l] = Inserted(@, t, e)]
     /\ expire' = [expire EXCEPT ![t] = e]
     /\ SetStatus(t, "PENDING", l)
     /\ todo' = [todo EXCEPT ![l] = Tail(@)]
     /\ Goto(l, "browse")
     /\ UNCHANGED <<period, expired, list_lock, flags, now, call, cur_time, tim, calls>>

ManageReturns(l) ==
  /\ At(l, "browse")
  /\ todo[l] = <<>>
  /\ list_lock' = [list_lock EXCEPT ![l] = FALSE]
  /\ cur_time' = [cur_time EXCEPT ![l] = 0]
  /\ Goto(l, "idle")
  /\ UNCHANGED <<timers, lists, flags, now, call, tim, todo, calls>>

(* What goes on by itself once it is called.                                *)
Step(l) ==
  \/ Config(l) \/ ConfigFails(l) \/ Del(l) \/ Add(l) \/ Publish(l)
  \/ Collect(l) \/ Run(l) \/ Skip(l) \/ CallbackReturns(l) \/ AfterCallback(l)
  \/ Browse(l) \/ Reload(l) \/ ReloadFails(l) \/ ReloadDone(l) \/ ManageReturns(l)

Next == \/ \E l \in Lcores : Reset(l) \/ Stop(l) \/ Manage(l) \/ Step(l)
        \/ Tick

Spec == Init /\ [][Next]_vars

(* rte_timer_manage must be called periodically, and a callback returns.    *)
(* The spinlock promises no order, and rte_timer_stop_sync tries and tries: *)
(* who spins while the lock (the timer) is free again and again gets it, as *)
(* an lcore that calls rte_timer_manage does other things in between.       *)
Spinning(l) == Config(l) \/ Del(l) \/ Add(l) \/ Collect(l) \/ AfterCallback(l)
FairSpec ==
  Spec /\ \A l \in Lcores : WF_vars(Manage(l) \/ Step(l)) /\ SF_vars(Spinning(l))

-----------------------------------------------------------------------------
Call == [op : {"reset", "stop", "stop_sync"}, t : Timers, lcore : Lcores,
         back : {"idle", "callback"}, expire : Nat, period : Nat,
         prev : [state : {"STOP", "PENDING", "RUNNING"}, owner : Lcores \cup {NO_OWNER}]]

TypeOK ==
  /\ status \in [Timers -> [state : {"STOP", "PENDING", "RUNNING", "CONFIG"},
                            owner : Lcores \cup {NO_OWNER}]]
  /\ expire \in [Timers -> Nat]
  /\ period \in [Timers -> Nat]
  /\ pending \in [Lcores -> Seq(Timers)]
  /\ expired \in [Lcores -> Seq(Timers)]
  /\ done \in [Lcores -> Seq(Timers)]
  /\ list_lock \in [Lcores -> BOOLEAN]
  /\ updated \in [Lcores -> BOOLEAN]
  /\ now \in Nat
  /\ pc \in [Lcores -> {"idle", "config", "del", "add", "publish", "collect", "run",
                        "callback", "relock", "browse", "reload"}]
  /\ call \in [Lcores -> {<<>>} \cup Call]
  /\ \A l \in Lcores : call[l] = <<>> <=> pc[l] \notin {"config", "del", "add", "publish"}
  /\ cur_time \in [Lcores -> Nat]
  /\ tim \in [Lcores -> Seq(Timers)]
  /\ todo \in [Lcores -> Seq(Timers)]
  /\ calls \in Nat
  /\ touched \in [Lcores -> BOOLEAN]

(* rte_timer_manage stops looking at the first timer that has not expired:  *)
(* the pending lists are sorted, although expiry times are computed before  *)
(* the lock is taken.                                                       *)
SortedPending ==
  \A l \in Lcores : \A j, k \in DOMAIN pending[l] :
    j <= k => expire[pending[l][j]] <= expire[pending[l][k]]

(* The lists agree with the statuses whatever the interleaving: a timer is  *)
(* at most once in at most one list; one that is PENDING or RUNNING is in a *)
(* list of its owner, the one whose lock timer_del will take; one that is   *)
(* stopped is in none, so that it cannot run.  The pending lists are sorted.*)
(* One that is RUNNING is about to be looked at by its owner: none is left  *)
(* so when rte_timer_manage returns, where nobody else could reset it.      *)
List(q, l) == IF q = "pending" THEN pending[l] ELSE IF q = "expired" THEN expired[l] ELSE done[l]
Places(t) == UNION {{<<q, l, k>> : k \in {j \in DOMAIN List(q, l) : List(q, l)[j] = t}} :
                      q \in {"pending", "expired", "done"}, l \in Lcores}

InManage(l, t) == tim[l] # <<>> \/ At(l, "run") \/ t \in Listed(todo[l])

ListsSound ==
  /\ \A t \in Timers :
       /\ Cardinality(Places(t)) <= 1
       /\ Is(t, "STOP") => Places(t) = {}
       /\ InUse(status[t]) => \E p \in Places(t) : p[2] = status[t].owner
       /\ Is(t, "RUNNING") => /\ \A p \in Places(t) : p[1] = "done"
                              /\ InManage(status[t].owner, t)
  /\ SortedPending

(* While an lcore executes the callback of a timer that the callback has    *)
(* not itself reset or stopped, whatever it does to other timers, the timer *)
(* is RUNNING there: no other lcore runs it, reconfigures it or has stopped *)
(* it, and a successful rte_timer_stop means that the callback is over.  A  *)
(* callback that has reset its own timer gives it away: another lcore may   *)
(* run it at once.                                                          *)
Executing(l, t) == tim[l] = <<t>> /\ ~touched[l]
RunsAlone == \A l \in Lcores, t \in Timers :
               Executing(l, t) => status[t] = Status("RUNNING", l)

(* No callback starts before its timer's latest expiry time, and none sees  *)
(* that time put off but by itself.                                         *)
NotEarly == \A l \in Lcores, t \in Timers :
              Executing(l, t) => expire[t] <= now

(* A timer that has expired does not stay pending: it runs, is stopped, or  *)
(* is put off.                                                              *)
DueServed == \A t \in Timers :
               (Is(t, "PENDING") /\ expire[t] <= now)
                 ~> (~Is(t, "PENDING") \/ expire[t] > now)
=============================================================================
