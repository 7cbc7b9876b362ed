----------------------------- MODULE Statistics -----------------------------
(***************************************************************************)
(* The time statistics of the tasks of module Tasks.                       *)
(*                                                                         *)
(* Every entry of the kernel charges the time since the task's last stamp  *)
(* to user mode, every exit and every task switch charges it to system     *)
(* mode, and a task that gets the CPU charges it to the time it was ready. *)
(* Stamps are made for the running task only, so a task that is switched   *)
(* out, blocked, woken and created anew lives with the stamp others left.  *)
(*                                                                         *)
(* One step is one handler: the running task spends "u" in user mode, then *)
(* "s" in the handler, which does its work and ends, perhaps on another    *)
(* task.  Time is that of get_ticks, which does not depend on the clock    *)
(* interrupt.                                                              *)
(***************************************************************************)
EXTENDS Tasks

CONSTANTS MaxTime,   \* bound of the instance
          MaxSpent   \* the most that passes in user mode, or in a handler, at once

ASSUME TimeAssumption == MaxTime \in Nat /\ MaxSpent \in Nat

AnyTask == Task \cup {Idle}

VARIABLES
  now,       \* get_ticks()
  idled,     \* the idle task has run: its kernel stack holds what SAVE_ALL saved
  stats,     \* task[t].stats; "stamp" is elapsed_total_ticks, "created" remaining_ticks
  spent,     \* where the time of a task really went, since it was created (history)
  queried    \* the processes sys_getstats was called for (history)

statVars == <<now, idled, stats, spent, queried>>
allVars == <<vars, statVars>>

init_stats(time) == [user |-> 0, system |-> 0, ready |-> 0, stamp |-> time, created |-> time]
Nothing == [user |-> 0, system |-> 0, off |-> 0]

StatInit ==
  /\ Init
  /\ now = 0 /\ idled = FALSE
  /\ stats = [t \in AnyTask |-> init_stats(0)]
  /\ spent = [t \in AnyTask |-> Nothing]
  /\ queried = {}

-----------------------------------------------------------------------------
(* sched.c and the two macros of entry.S *)

Charge(st, t, mode, time) ==
  [st EXCEPT ![t][mode] = @ + (time - st[t].stamp), ![t].stamp = time]
finishUserTime(st, t, time) == Charge(st, t, "user", time)
finishSystemTime(st, t, time) == Charge(st, t, "system", time)
finishReadyTime(st, t, time) == Charge(st, t, "ready", time)

\* SAVE_ALL and RESTORE_ALL: the second for the task the kernel ends on.
user2system(st, time) == finishUserTime(st, running, time)
system2user(st, time) == finishSystemTime(st, running', time)

\* Mutant: the task that gets the CPU is not stamped.
Switched_NoReadyTime(st, time) == finishSystemTime(st, running, time)

\* What sched_next_rr does to the statistics.
Switched(st, time) ==
  LET left == finishSystemTime(st, running, time)
  IN  IF running' # Idle THEN finishReadyTime(left, running', time) ELSE left

\* The same and the way out of the kernel.  The first switch to the idle task enters
\* cpu_idle, past RESTORE_ALL.
Resumed(st, time) ==
  IF running' = Idle /\ ~idled THEN Switched(st, time) ELSE system2user(Switched(st, time), time)

\* How the tasks spend u of user mode and s of system mode of the running one.
Spending(u, s) == [t \in AnyTask |->
  IF t = running THEN [spent[t] EXCEPT !.user = @ + u, !.system = @ + s]
  ELSE [spent[t] EXCEPT !.off = @ + u + s]]

-----------------------------------------------------------------------------
(* The handlers *)

\* A handler that ends on the task it began on, and one that calls sched_next_rr.
Stays(u, s) ==
  /\ stats' = system2user(user2system(stats, now + u), now + u + s)
  /\ spent' = Spending(u, s)
  /\ UNCHANGED queried
Switches(u, s) ==
  /\ stats' = Resumed(user2system(stats, now + u), now + u + s)
  /\ spent' = Spending(u, s)
  /\ UNCHANGED queried

StatClockTick(u, s) ==
  /\ ClockTick
  /\ IF \/ running = Idle /\ readyqueue # <<>>
        \/ running # Idle /\ quantum_left = 1
     THEN Switches(u, s) ELSE Stays(u, s)

\* Mutant: the child keeps the statistics that copy_data gave it.
Newborn_Inherits(st, child, time) == [st EXCEPT ![child] = st[running]]
Newborn(st, child, time) == [st EXCEPT ![child] = init_stats(time)]

StatFork(u, s) ==
  /\ Fork \/ Clone
  /\ \E child \in freequeue \ freequeue':
       /\ stats' = system2user(Newborn(user2system(stats, now + u), child, now + u + s), now + u + s)
       /\ spent' = [Spending(u, s) EXCEPT ![child] = Nothing]
       /\ queried' = queried \ {child}

\* sys_exit enters the kernel with its first step and leaves it with its last.
StatExit(u, s) ==
  /\ \/ ExitBegins /\ stats' = user2system(stats, now + u)
     \/ ExitDestroys /\ u = 0 /\ UNCHANGED stats
     \/ ExitEnds /\ u = 0 /\ stats' = Resumed(stats, now + s)
  /\ spent' = Spending(u, s)
  /\ UNCHANGED queried

StatSemCalls(u, s) == \E n \in SemId:
  \/ /\ \/ \E value \in 0..MaxCount: sem_init(n, value)
        \/ sem_wait_takes(n) \/ sem_signal(n) \/ sem_destroy(n)
     /\ Stays(u, s)
  \/ sem_wait_blocks(n) /\ Switches(u, s)

\* Mutant: the time of creation is not put back.
sys_getstats_NotRestored(t, u, s) ==
  /\ InCall
  /\ UNCHANGED vars
  /\ stats' = LET st == finishSystemTime(user2system(stats, now + u), t, now + u + s)
              IN  system2user([st EXCEPT ![t].stamp = @ - st[t].created,
                                         ![t].created = quantum_left], now + u + s)
  /\ spent' = Spending(u, s)
  /\ queried' = queried \cup {t}

\* sys_getstats charges what it finds to system mode, whoever t is, and takes the
\* time of creation from the stamp, where it stays.
sys_getstats(t, u, s) ==
  /\ InCall
  /\ UNCHANGED vars
  /\ stats' = LET st == finishSystemTime(user2system(stats, now + u), t, now + u + s)
              IN  system2user([st EXCEPT ![t].stamp = @ - st[t].created], now + u + s)
  /\ spent' = Spending(u, s)
  /\ queried' = queried \cup {t}

StatNext ==
  \E u, s \in 0..MaxSpent:
    /\ now + u + s <= MaxTime /\ now' = now + u + s
    /\ \/ StatClockTick(u, s) \/ StatFork(u, s) \/ StatExit(u, s) \/ StatSemCalls(u, s)
       \/ \E t \in AnyTask \ freequeue: sys_getstats(t, u, s)
    /\ idled' = (idled \/ running' = Idle)

StatSpec == StatInit /\ [][StatNext]_allVars

-----------------------------------------------------------------------------
(* Properties *)

\* Types; the differences of unsigned stamps are never below 0, where they would
\* be huge, not even after sys_getstats has moved a stamp back.
StatTypeOK ==
  /\ now \in 0..MaxTime
  /\ stats \in [AnyTask -> [user: Nat, system: Nat, ready: Nat, stamp: 0..now, created: 0..now]]
  /\ queried \subseteq AnyTask

\* As long as nobody has asked for them, the statistics of a process say how its
\* time went: user and system ticks are right at any time, and what is neither is
\* the time it was ready or blocked, which is charged when it gets the CPU back.
\* They add up to the time since its creation, whatever calls, clock ticks and
\* switches came between (the stamps of entry.S and sched_next_rr).
StatsAreTrue == \A t \in Task \ (freequeue \cup queried):
  LET pending == now - stats[t].stamp
  IN  (exiting = NotExiting \/ t # running) =>
        /\ stats[t].user = spent[t].user /\ stats[t].system = spent[t].system
        /\ stats[t].ready + pending = spent[t].off
        /\ t = running => pending = 0
        /\ stats[t].user + stats[t].system + stats[t].ready + pending = now - stats[t].created
=============================================================================
