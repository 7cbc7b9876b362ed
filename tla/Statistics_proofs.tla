-------------------------- MODULE Statistics_proofs --------------------------
(***************************************************************************)
(* Proofs about the time statistics (module Statistics), for any number of *)
(* PCBs and semaphores, any times and any calls.                           *)
(***************************************************************************)
EXTENDS Statistics, Tasks_proofs

\* The statistics of the tasks at time n: no stamp lies in the future.
StatsAt(n) == [AnyTask -> [user: Nat, system: Nat, ready: Nat, stamp: 0..n, created: 0..n]]
Times == [AnyTask -> [user: Nat, system: Nat, off: Nat]]

\* What the statistics of a process say at any point.  The time since the last stamp
\* of the running one is system time (it is in sys_exit), that of others ready time.
TaskStats(t) ==
  /\ stats[t].user = spent[t].user
  /\ t = running => /\ stats[t].ready = spent[t].off
                    /\ stats[t].system + (now - stats[t].stamp) = spent[t].system
                    /\ exiting = NotExiting => stats[t].stamp = now
  /\ t # running => /\ stats[t].system = spent[t].system
                    /\ stats[t].ready + (now - stats[t].stamp) = spent[t].off
  /\ spent[t].user + spent[t].system + spent[t].off = now - stats[t].created

Asked == Task \ (freequeue \cup queried)

StatInv ==
  /\ now \in 0..MaxTime /\ stats \in StatsAt(now) /\ spent \in Times /\ queried \subseteq AnyTask
  /\ \A t \in Asked: TaskStats(t)

-----------------------------------------------------------------------------
(* Stamps *)

LEMMA ChargingOne ==
  ASSUME NEW m \in Nat, NEW n \in Nat, m <= n, NEW a \in Nat,
         NEW y \in [user: Nat, system: Nat, ready: Nat, stamp: 0..m, created: 0..m]
  PROVE  LET u == [y EXCEPT !.user = a, !.stamp = n]
             s == [y EXCEPT !.system = a, !.stamp = n]
             r == [y EXCEPT !.ready = a, !.stamp = n]
             T == [user: Nat, system: Nat, ready: Nat, stamp: 0..n, created: 0..n]
         IN  /\ u \in T /\ u.user = a /\ u.system = y.system /\ u.ready = y.ready
             /\ u.stamp = n /\ u.created = y.created
             /\ s \in T /\ s.user = y.user /\ s.system = a /\ s.ready = y.ready
             /\ s.stamp = n /\ s.created = y.created
             /\ r \in T /\ r.user = y.user /\ r.system = y.system /\ r.ready = a
             /\ r.stamp = n /\ r.created = y.created
<1>1. /\ y.user \in Nat /\ y.system \in Nat /\ y.ready \in Nat /\ y.created \in 0..n
      /\ n \in 0..n
  OBVIOUS
<1> DEFINE T == [user: Nat, system: Nat, ready: Nat, stamp: 0..n, created: 0..n]
<1>2. [y EXCEPT !.user = a, !.stamp = n] \in T
  BY <1>1
<1>3. [y EXCEPT !.system = a, !.stamp = n] \in T
  BY <1>1
<1>4. [y EXCEPT !.ready = a, !.stamp = n] \in T
  BY <1>1
<1> QED
  BY <1>2, <1>3, <1>4

\* Charging a task's time to one mode: the mode gets it, the stamp is renewed.
LEMMA Charging ==
  ASSUME NEW m \in Nat, NEW n \in Nat, m <= n, NEW st \in StatsAt(m), NEW t \in AnyTask,
         NEW mode \in {"user", "system", "ready"}
  PROVE  /\ Charge(st, t, mode, n) \in StatsAt(n)
         /\ \A x \in AnyTask: x # t => Charge(st, t, mode, n)[x] = st[x]
         /\ Charge(st, t, mode, n)[t].stamp = n
         /\ Charge(st, t, mode, n)[t].created = st[t].created
         /\ Charge(st, t, mode, n)[t].user
              = st[t].user + (IF mode = "user" THEN n - st[t].stamp ELSE 0)
         /\ Charge(st, t, mode, n)[t].system
              = st[t].system + (IF mode = "system" THEN n - st[t].stamp ELSE 0)
         /\ Charge(st, t, mode, n)[t].ready
              = st[t].ready + (IF mode = "ready" THEN n - st[t].stamp ELSE 0)
<1> DEFINE r == [st[t] EXCEPT ![mode] = @ + (n - st[t].stamp), !.stamp = n]
<1>1. Charge(st, t, mode, n) = [st EXCEPT ![t] = r]
  BY DEF Charge, StatsAt
<1> HIDE DEF r
<1>2. st[t] \in [user: Nat, system: Nat, ready: Nat, stamp: 0..m, created: 0..m]
  BY DEF StatsAt
<1>3. n - st[t].stamp \in Nat
  BY <1>2
<1>4. /\ r \in [user: Nat, system: Nat, ready: Nat, stamp: 0..n, created: 0..n]
      /\ r.stamp = n /\ r.created = st[t].created
      /\ r.user = st[t].user + (IF mode = "user" THEN n - st[t].stamp ELSE 0)
      /\ r.system = st[t].system + (IF mode = "system" THEN n - st[t].stamp ELSE 0)
      /\ r.ready = st[t].ready + (IF mode = "ready" THEN n - st[t].stamp ELSE 0)
  <2>1. CASE mode = "user"
    <3>1. r = [st[t] EXCEPT !.user = st[t].user + (n - st[t].stamp), !.stamp = n]
      BY <2>1, Zenon DEF r
    <3>2. st[t].user + (n - st[t].stamp) \in Nat
      BY <1>2, <1>3
    <3>3. /\ r \in [user: Nat, system: Nat, ready: Nat, stamp: 0..n, created: 0..n]
          /\ r.stamp = n /\ r.created = st[t].created
          /\ r.user = st[t].user + (n - st[t].stamp)
          /\ r.system = st[t].system /\ r.ready = st[t].ready
      BY <1>2, <3>1, <3>2, ChargingOne
    <3>4. st[t].system \in Nat /\ st[t].ready \in Nat
      BY <1>2
    <3> QED
      BY <2>1, <3>3, <3>4
  <2>2. CASE mode = "system"
    <3>1. r = [st[t] EXCEPT !.system = st[t].system + (n - st[t].stamp), !.stamp = n]
      BY <2>2, Zenon DEF r
    <3>2. st[t].system + (n - st[t].stamp) \in Nat
      BY <1>2, <1>3
    <3>3. /\ r \in [user: Nat, system: Nat, ready: Nat, stamp: 0..n, created: 0..n]
          /\ r.stamp = n /\ r.created = st[t].created
          /\ r.system = st[t].system + (n - st[t].stamp)
          /\ r.user = st[t].user /\ r.ready = st[t].ready
      BY <1>2, <3>1, <3>2, ChargingOne
    <3>4. st[t].user \in Nat /\ st[t].ready \in Nat
      BY <1>2
    <3> QED
      BY <2>2, <3>3, <3>4
  <2>3. CASE mode = "ready"
    <3>1. r = [st[t] EXCEPT !.ready = st[t].ready + (n - st[t].stamp), !.stamp = n]
      BY <2>3, Zenon DEF r
    <3>2. st[t].ready + (n - st[t].stamp) \in Nat
      BY <1>2, <1>3
    <3>3. /\ r \in [user: Nat, system: Nat, ready: Nat, stamp: 0..n, created: 0..n]
          /\ r.stamp = n /\ r.created = st[t].created
          /\ r.ready = st[t].ready + (n - st[t].stamp)
          /\ r.user = st[t].user /\ r.system = st[t].system
      BY <1>2, <3>1, <3>2, ChargingOne
    <3>4. st[t].user \in Nat /\ st[t].system \in Nat
      BY <1>2
    <3> QED
      BY <2>3, <3>3, <3>4
  <2> QED
    BY <2>1, <2>2, <2>3
<1>5. st \in StatsAt(n)
  BY DEF StatsAt
<1> QED
  BY <1>1, <1>4, <1>5 DEF StatsAt

\* The same, mode by mode.
LEMMA UserCharging ==
  ASSUME NEW m \in Nat, NEW n \in Nat, m <= n, NEW st \in StatsAt(m), NEW t \in AnyTask
  PROVE  /\ Charge(st, t, "user", n) \in StatsAt(n)
         /\ \A x \in AnyTask: x # t => Charge(st, t, "user", n)[x] = st[x]
         /\ Charge(st, t, "user", n)[t].stamp = n
         /\ Charge(st, t, "user", n)[t].created = st[t].created
         /\ Charge(st, t, "user", n)[t].user = st[t].user + (n - st[t].stamp)
         /\ Charge(st, t, "user", n)[t].system = st[t].system
         /\ Charge(st, t, "user", n)[t].ready = st[t].ready
<1>1. st[t].system \in Nat /\ st[t].ready \in Nat
  BY DEF StatsAt
<1> DEFINE c == Charge(st, t, "user", n)
<1>2. /\ c \in StatsAt(n) /\ \A x \in AnyTask: x # t => c[x] = st[x]
      /\ c[t].stamp = n /\ c[t].created = st[t].created
      /\ c[t].user = st[t].user + (n - st[t].stamp)
      /\ c[t].system = st[t].system + 0 /\ c[t].ready = st[t].ready + 0
  BY Charging
<1> QED
  BY <1>1, <1>2

LEMMA SystemCharging ==
  ASSUME NEW m \in Nat, NEW n \in Nat, m <= n, NEW st \in StatsAt(m), NEW t \in AnyTask
  PROVE  /\ Charge(st, t, "system", n) \in StatsAt(n)
         /\ \A x \in AnyTask: x # t => Charge(st, t, "system", n)[x] = st[x]
         /\ Charge(st, t, "system", n)[t].stamp = n
         /\ Charge(st, t, "system", n)[t].created = st[t].created
         /\ Charge(st, t, "system", n)[t].system = st[t].system + (n - st[t].stamp)
         /\ Charge(st, t, "system", n)[t].user = st[t].user
         /\ Charge(st, t, "system", n)[t].ready = st[t].ready
<1>1. st[t].user \in Nat /\ st[t].ready \in Nat
  BY DEF StatsAt
<1> DEFINE c == Charge(st, t, "system", n)
<1>2. /\ c \in StatsAt(n) /\ \A x \in AnyTask: x # t => c[x] = st[x]
      /\ c[t].stamp = n /\ c[t].created = st[t].created
      /\ c[t].system = st[t].system + (n - st[t].stamp)
      /\ c[t].user = st[t].user + 0 /\ c[t].ready = st[t].ready + 0
  BY Charging
<1> QED
  BY <1>1, <1>2

LEMMA ReadyCharging ==
  ASSUME NEW m \in Nat, NEW n \in Nat, m <= n, NEW st \in StatsAt(m), NEW t \in AnyTask
  PROVE  /\ Charge(st, t, "ready", n) \in StatsAt(n)
         /\ \A x \in AnyTask: x # t => Charge(st, t, "ready", n)[x] = st[x]
         /\ Charge(st, t, "ready", n)[t].stamp = n
         /\ Charge(st, t, "ready", n)[t].created = st[t].created
         /\ Charge(st, t, "ready", n)[t].ready = st[t].ready + (n - st[t].stamp)
         /\ Charge(st, t, "ready", n)[t].user = st[t].user
         /\ Charge(st, t, "ready", n)[t].system = st[t].system
<1>1. st[t].user \in Nat /\ st[t].system \in Nat
  BY DEF StatsAt
<1> DEFINE c == Charge(st, t, "ready", n)
<1>2. /\ c \in StatsAt(n) /\ \A x \in AnyTask: x # t => c[x] = st[x]
      /\ c[t].stamp = n /\ c[t].created = st[t].created
      /\ c[t].ready = st[t].ready + (n - st[t].stamp)
      /\ c[t].user = st[t].user + 0 /\ c[t].system = st[t].system + 0
  BY Charging
<1> QED
  BY <1>1, <1>2

\* A handler that ends where it began: its task gets the user time before it and
\* the system time of it, nobody else is touched.
LEMMA ChargedTwice ==
  ASSUME NEW m \in Nat, NEW k \in Nat, NEW n \in Nat, m <= k, k <= n, NEW st \in StatsAt(m),
         NEW t \in AnyTask
  PROVE  LET c == Charge(Charge(st, t, "user", k), t, "system", n)
         IN  /\ c \in StatsAt(n)
             /\ \A x \in AnyTask: x # t => c[x] = st[x]
             /\ c[t].user = st[t].user + (k - st[t].stamp)
             /\ c[t].system = st[t].system + (n - k)
             /\ c[t].ready = st[t].ready
             /\ c[t].stamp = n /\ c[t].created = st[t].created
<1> DEFINE d == Charge(st, t, "user", k)
           c == Charge(d, t, "system", n)
<1>1. /\ d \in StatsAt(k) /\ \A x \in AnyTask: x # t => d[x] = st[x]
      /\ d[t].stamp = k /\ d[t].created = st[t].created
      /\ d[t].user = st[t].user + (k - st[t].stamp)
      /\ d[t].system = st[t].system /\ d[t].ready = st[t].ready
  BY UserCharging
<1> HIDE DEF d
<1>2. /\ c \in StatsAt(n) /\ \A x \in AnyTask: x # t => c[x] = d[x]
      /\ c[t].stamp = n /\ c[t].created = d[t].created
      /\ c[t].user = d[t].user /\ c[t].ready = d[t].ready
      /\ c[t].system = d[t].system + (n - d[t].stamp)
  BY <1>1, SystemCharging
<1>3. Charge(Charge(st, t, "user", k), t, "system", n) = c
  BY DEF d
<1> HIDE DEF c
<1> QED
  BY <1>1, <1>2, <1>3

LEMMA StaysCharges ==
  ASSUME NEW m \in Nat, NEW k \in Nat, NEW n \in Nat, m <= k, k <= n, NEW st \in StatsAt(m),
         running \in AnyTask, running' = running
  PROVE  LET c == system2user(user2system(st, k), n)
         IN  /\ c \in StatsAt(n)
             /\ \A x \in AnyTask: x # running => c[x] = st[x]
             /\ c[running].user = st[running].user + (k - st[running].stamp)
             /\ c[running].system = st[running].system + (n - k)
             /\ c[running].ready = st[running].ready
             /\ c[running].stamp = n /\ c[running].created = st[running].created
<1>1. system2user(user2system(st, k), n) = Charge(Charge(st, running, "user", k), running, "system", n)
  BY DEF system2user, user2system, finishSystemTime, finishUserTime
<1> DEFINE c == Charge(Charge(st, running, "user", k), running, "system", n)
<1>2. /\ c \in StatsAt(n)
      /\ \A x \in AnyTask: x # running => c[x] = st[x]
      /\ c[running].user = st[running].user + (k - st[running].stamp)
      /\ c[running].system = st[running].system + (n - k)
      /\ c[running].ready = st[running].ready
      /\ c[running].stamp = n /\ c[running].created = st[running].created
  <2>1. \A t \in AnyTask:
          LET e == Charge(Charge(st, t, "user", k), t, "system", n)
          IN  /\ e \in StatsAt(n)
              /\ \A x \in AnyTask: x # t => e[x] = st[x]
              /\ e[t].user = st[t].user + (k - st[t].stamp)
              /\ e[t].system = st[t].system + (n - k)
              /\ e[t].ready = st[t].ready
              /\ e[t].stamp = n /\ e[t].created = st[t].created
    BY ChargedTwice
  <2> QED
    BY <2>1
<1> QED
  BY <1>1, <1>2

\* sched_next_rr: the task that leaves the CPU gets system time, the one that gets
\* it the time it was ready, nobody else is touched.
LEMMA SwitchCharges ==
  ASSUME NEW m \in Nat, NEW n \in Nat, m <= n, NEW st \in StatsAt(m),
         running \in AnyTask, running' \in AnyTask
  PROVE  LET c == Resumed(st, n)
         IN  /\ c \in StatsAt(n)
             /\ \A x \in AnyTask: c[x].user = st[x].user /\ c[x].created = st[x].created
             /\ \A x \in AnyTask \ {running, running'}: c[x] = st[x]
             /\ running' # Idle => c[running'].stamp = n
             /\ running # Idle \/ running' # Idle =>
                  /\ c[running].system = st[running].system + (n - st[running].stamp)
                  /\ c[running].ready = st[running].ready
                  /\ c[running].stamp = n
             /\ running' \notin {running, Idle} =>
                  /\ c[running'].system = st[running'].system
                  /\ c[running'].ready = st[running'].ready + (n - st[running'].stamp)
<1> DEFINE left == Charge(st, running, "system", n)
           mid == IF running' # Idle THEN Charge(left, running', "ready", n) ELSE left
           last == Charge(mid, running', "system", n)
           c == IF running' = Idle /\ ~idled THEN mid ELSE last
<1>0. n <= n /\ n - n = 0
  OBVIOUS
<1>1. /\ left \in StatsAt(n) /\ \A x \in AnyTask: x # running => left[x] = st[x]
      /\ left[running].stamp = n /\ left[running].created = st[running].created
      /\ left[running].user = st[running].user
      /\ left[running].system = st[running].system + (n - st[running].stamp)
      /\ left[running].ready = st[running].ready
  BY SystemCharging
<1> HIDE DEF left
<1>2. /\ mid \in StatsAt(n) /\ \A x \in AnyTask: x # running' => mid[x] = left[x]
      /\ mid[running'].created = left[running'].created
      /\ mid[running'].user = left[running'].user
      /\ mid[running'].system = left[running'].system
      /\ running' # Idle => /\ mid[running'].stamp = n
                            /\ mid[running'].ready = left[running'].ready + (n - left[running'].stamp)
      /\ running' = Idle => mid = left
  <2>1. CASE running' = Idle
    BY <1>1, <2>1
  <2>2. CASE running' # Idle
    <3>1. mid = Charge(left, running', "ready", n)
      BY <2>2
    <3>2. /\ mid[running'].user = left[running'].user
          /\ mid[running'].system = left[running'].system
      BY <1>0, <1>1, <3>1, ReadyCharging
    <3>3. left[running'].user \in Nat /\ left[running'].system \in Nat
      BY <1>1 DEF StatsAt
    <3> QED
      BY <1>0, <1>1, <2>2, <3>1, <3>2, <3>3, ReadyCharging
  <2> QED
    BY <2>1, <2>2
<1> HIDE DEF mid
<1>3. /\ c \in StatsAt(n) /\ \A x \in AnyTask: x # running' => c[x] = mid[x]
      /\ c[running'].created = mid[running'].created
      /\ c[running'].user = mid[running'].user
      /\ running' # Idle =>
           /\ c[running'].stamp = n /\ c[running'].ready = mid[running'].ready
           /\ c[running'].system = mid[running'].system + (n - mid[running'].stamp)
  <2>1. /\ last \in StatsAt(n) /\ \A x \in AnyTask: x # running' => last[x] = mid[x]
        /\ last[running'].stamp = n /\ last[running'].created = mid[running'].created
        /\ last[running'].user = mid[running'].user /\ last[running'].ready = mid[running'].ready
        /\ last[running'].system = mid[running'].system + (n - mid[running'].stamp)
    BY <1>0, <1>2, SystemCharging
  <2> HIDE DEF last
  <2> QED
    BY <1>2, <2>1
<1>4. Resumed(st, n) = c
  BY DEF Resumed, system2user, Switched, finishSystemTime, finishReadyTime, left, mid
<1> HIDE DEF c
<1>5. \A x \in AnyTask: /\ st[x].user \in Nat /\ st[x].system \in Nat /\ st[x].ready \in Nat
                        /\ st[x].stamp \in Nat
                        /\ left[x].user \in Nat /\ left[x].system \in Nat /\ left[x].ready \in Nat
                        /\ left[x].stamp \in Nat
                        /\ mid[x].user \in Nat /\ mid[x].system \in Nat /\ mid[x].ready \in Nat
                        /\ mid[x].stamp \in Nat
  BY <1>1, <1>2 DEF StatsAt
<1>6. \A x \in AnyTask: c[x].user = st[x].user /\ c[x].created = st[x].created
  BY <1>1, <1>2, <1>3, <1>5
<1>7. \A x \in AnyTask \ {running, running'}: c[x] = st[x]
  BY <1>1, <1>2, <1>3
<1>8. ASSUME running # Idle \/ running' # Idle
      PROVE  /\ c[running].system = st[running].system + (n - st[running].stamp)
             /\ c[running].ready = st[running].ready
             /\ c[running].stamp = n
  <2>1. CASE running # running'
    BY <1>1, <1>2, <1>3, <1>5, <2>1
  <2>2. CASE running = running'
    BY <1>1, <1>2, <1>3, <1>5, <1>8, <2>2
  <2> QED
    BY <2>1, <2>2
<1>9. ASSUME running' \notin {running, Idle}
      PROVE  /\ c[running'].system = st[running'].system
             /\ c[running'].ready = st[running'].ready + (n - st[running'].stamp)
  BY <1>1, <1>2, <1>3, <1>5, <1>9
<1> QED
  BY <1>3, <1>4, <1>6, <1>7, <1>8, <1>9

-----------------------------------------------------------------------------
(* The handlers *)

\* The statistics change nothing of what the tasks do.
LEMMA StatSteps == [StatNext]_allVars => [Next]_vars
<1>1. UNCHANGED allVars => UNCHANGED vars
  BY DEF allVars
<1>2. \A u, s \in 0..MaxSpent: StatClockTick(u, s) => Next
  BY DEF StatClockTick, Next
<1>3. \A u, s \in 0..MaxSpent: StatFork(u, s) => Next
  BY DEF StatFork, Next
<1>4. \A u, s \in 0..MaxSpent: StatExit(u, s) => Next
  BY DEF StatExit, Next, Exit
<1>5. \A u, s \in 0..MaxSpent: StatSemCalls(u, s) => Next
  BY DEF StatSemCalls, Next, SemCalls
<1>6. \A u, s \in 0..MaxSpent, t \in AnyTask: sys_getstats(t, u, s) => UNCHANGED vars
  BY DEF sys_getstats
<1> QED
  BY <1>1, <1>2, <1>3, <1>4, <1>5, <1>6 DEF StatNext

\* The types of one task's numbers.
LEMMA Numbers ==
  ASSUME StatInv, NEW t \in AnyTask
  PROVE  /\ stats[t].user \in Nat /\ stats[t].system \in Nat /\ stats[t].ready \in Nat
         /\ stats[t].stamp \in 0..now /\ stats[t].created \in 0..now
         /\ spent[t].user \in Nat /\ spent[t].system \in Nat /\ spent[t].off \in Nat
  BY DEF StatInv, StatsAt, Times

LEMMA SpendingTimes ==
  ASSUME NEW u \in Nat, NEW s \in Nat, spent \in Times
  PROVE  /\ Spending(u, s) \in Times
         /\ \A t \in AnyTask: t = running =>
              /\ Spending(u, s)[t].user = spent[t].user + u
              /\ Spending(u, s)[t].system = spent[t].system + s
              /\ Spending(u, s)[t].off = spent[t].off
         /\ \A t \in AnyTask: t # running =>
              /\ Spending(u, s)[t].user = spent[t].user
              /\ Spending(u, s)[t].system = spent[t].system
              /\ Spending(u, s)[t].off = spent[t].off + u + s
<1>1. ASSUME NEW t \in AnyTask
      PROVE  /\ [spent[t] EXCEPT !.user = @ + u, !.system = @ + s]
                   \in [user: Nat, system: Nat, off: Nat]
             /\ [spent[t] EXCEPT !.off = @ + u + s] \in [user: Nat, system: Nat, off: Nat]
  <2>1. spent[t] \in [user: Nat, system: Nat, off: Nat]
    BY DEF Times
  <2>2. spent[t].user + u \in Nat /\ spent[t].system + s \in Nat /\ spent[t].off + u + s \in Nat
    BY <2>1
  <2>3. \A a, b, c \in Nat:
          /\ [spent[t] EXCEPT !.user = a, !.system = b] \in [user: Nat, system: Nat, off: Nat]
          /\ [spent[t] EXCEPT !.off = c] \in [user: Nat, system: Nat, off: Nat]
    BY <2>1
  <2> QED
    BY <2>2, <2>3
<1>2. Spending(u, s) \in Times
  BY <1>1 DEF Spending, Times
<1> QED
  BY <1>2 DEF Spending, Times

\* A task that was and stays off the CPU: the time goes on, its statistics do not.
LEMMA OffCpu ==
  ASSUME StatInv, NEW m \in Nat, NEW n \in Nat, now = m, now' = n,
         NEW u \in Nat, NEW s \in Nat, u + s = n - m,
         NEW t \in Asked, t # running, t # running',
         spent'[t] = Spending(u, s)[t], stats'[t] = stats[t]
  PROVE  TaskStats(t)'
<1>1. t \in AnyTask /\ TaskStats(t) /\ spent \in Times
  BY DEF Asked, AnyTask, StatInv
<1>2. /\ stats[t].user \in Nat /\ stats[t].system \in Nat /\ stats[t].ready \in Nat
      /\ stats[t].stamp \in 0..m /\ stats[t].created \in 0..m
      /\ spent[t].user \in Nat /\ spent[t].system \in Nat /\ spent[t].off \in Nat
  BY <1>1, Numbers
<1>3. /\ spent'[t].user = spent[t].user /\ spent'[t].system = spent[t].system
      /\ spent'[t].off = spent[t].off + u + s
  BY <1>1, SpendingTimes
<1>4. /\ stats[t].user = spent[t].user /\ stats[t].system = spent[t].system
      /\ stats[t].ready + (m - stats[t].stamp) = spent[t].off
      /\ spent[t].user + spent[t].system + spent[t].off = m - stats[t].created
  BY <1>1 DEF TaskStats
<1>5. /\ stats[t].ready + (n - stats[t].stamp) = spent[t].off + u + s
      /\ spent[t].user + spent[t].system + (spent[t].off + u + s) = n - stats[t].created
  <2>1. PICK x \in Nat: x = stats[t].stamp
    BY <1>2
  <2>2. PICK r \in Nat: r = stats[t].ready
    BY <1>2
  <2>3. PICK o \in Nat: o = spent[t].off
    BY <1>2
  <2>4. PICK c \in Nat: c = stats[t].created
    BY <1>2
  <2>5. PICK w \in Nat: w = spent[t].user + spent[t].system
    BY <1>2
  <2>6. r + (m - x) = o /\ w + o = m - c
    BY <1>4, <2>1, <2>2, <2>3, <2>4, <2>5
  <2>7. r + (n - x) = o + u + s /\ w + (o + u + s) = n - c
    BY <2>1, <2>2, <2>3, <2>4, <2>5, <2>6
  <2> QED
    BY <2>1, <2>2, <2>3, <2>4, <2>5, <2>7
<1> QED
  BY <1>3, <1>4, <1>5 DEF TaskStats

\* The task that enters the kernel and goes on after the handler.
LEMMA OnCpu ==
  ASSUME StatInv, NEW m \in Nat, NEW k \in Nat, NEW n \in Nat, now = m, now' = n,
         NEW u \in Nat, NEW s \in Nat, u = k - m, s = n - k,
         running \in Asked, running' = running, exiting = NotExiting,
         spent'[running] = Spending(u, s)[running],
         stats'[running].user = stats[running].user + (k - stats[running].stamp),
         stats'[running].system = stats[running].system + (n - k),
         stats'[running].ready = stats[running].ready,
         stats'[running].stamp = n, stats'[running].created = stats[running].created
  PROVE  TaskStats(running)'
<1> DEFINE t == running
<1>1. t \in AnyTask /\ TaskStats(t) /\ spent \in Times
  BY DEF Asked, AnyTask, StatInv
<1>2. /\ stats[t].user \in Nat /\ stats[t].system \in Nat /\ stats[t].ready \in Nat
      /\ stats[t].stamp \in 0..m /\ stats[t].created \in 0..m
      /\ spent[t].user \in Nat /\ spent[t].system \in Nat /\ spent[t].off \in Nat
  BY <1>1, Numbers
<1>3. /\ spent'[t].user = spent[t].user + u /\ spent'[t].system = spent[t].system + s
      /\ spent'[t].off = spent[t].off
  BY <1>1, SpendingTimes
<1>4. /\ stats[t].user = spent[t].user /\ stats[t].ready = spent[t].off
      /\ stats[t].stamp = m /\ stats[t].system = spent[t].system
      /\ spent[t].user + spent[t].system + spent[t].off = m - stats[t].created
  BY <1>1, <1>2 DEF TaskStats
<1>5. /\ stats'[t].user = spent'[t].user /\ stats'[t].ready = spent'[t].off
      /\ stats'[t].system = spent'[t].system
      /\ spent'[t].user + spent'[t].system + spent'[t].off = n - stats'[t].created
  BY <1>2, <1>3, <1>4
<1>6. stats'[t].system + (n - stats'[t].stamp) = spent'[t].system
  BY <1>2, <1>3, <1>5
<1> QED
  BY <1>5, <1>6 DEF TaskStats

\* A handler that ends where it began keeps the invariant.
LEMMA StaysStep ==
  ASSUME StatInv, NEW u \in Nat, NEW s \in Nat, now' = now + u + s, now' \in 0..MaxTime,
         Stays(u, s), running \in AnyTask,
         exiting = NotExiting, UNCHANGED <<running, exiting, freequeue>>
  PROVE  StatInv'
<1>1. now \in Nat /\ stats \in StatsAt(now) /\ spent \in Times
  BY DEF StatInv
<1>2. PICK k \in Nat: k = now + u
  BY <1>1
<1>3. PICK n \in Nat: n = now + u + s
  BY <1>1
<1>4. PICK m \in Nat: m = now
  BY <1>1
<1>5. m <= k /\ k <= n /\ u = k - m /\ s = n - k /\ u + s = n - m /\ now' = n
  BY <1>2, <1>3, <1>4
<1>6. stats' = system2user(user2system(stats, k), n) /\ stats \in StatsAt(m)
  BY <1>1, <1>2, <1>3, <1>4 DEF Stays
<1>7. /\ stats' \in StatsAt(n)
      /\ \A x \in AnyTask: x # running => stats'[x] = stats[x]
      /\ stats'[running].user = stats[running].user + (k - stats[running].stamp)
      /\ stats'[running].system = stats[running].system + (n - k)
      /\ stats'[running].ready = stats[running].ready
      /\ stats'[running].stamp = n /\ stats'[running].created = stats[running].created
  <2> DEFINE c == system2user(user2system(stats, k), n)
  <2>1. m <= k /\ k <= n /\ running \in AnyTask /\ running' = running
    BY <1>5
  <2>2. /\ c \in StatsAt(n)
        /\ \A x \in AnyTask: x # running => c[x] = stats[x]
        /\ c[running].user = stats[running].user + (k - stats[running].stamp)
        /\ c[running].system = stats[running].system + (n - k)
        /\ c[running].ready = stats[running].ready
        /\ c[running].stamp = n /\ c[running].created = stats[running].created
    <3>1. stats \in StatsAt(m)
      BY <1>6
    <3> QED
      BY SMTT(60), <2>1, <3>1, StaysCharges
  <2> HIDE DEF c
  <2>3. stats' = c
    BY <1>6 DEF c
  <2> QED
    BY <2>2, <2>3
<1>8. spent' = Spending(u, s) /\ spent' \in Times /\ queried' = queried
  BY <1>1, SpendingTimes DEF Stays
<1>9. ASSUME NEW t \in Asked PROVE TaskStats(t)'
  <2>1. CASE t = running
    BY <1>2, <1>3, <1>4, <1>5, <1>7, <1>8, <2>1, OnCpu
  <2>2. CASE t # running
    <3>1. stats'[t] = stats[t]
      BY <1>7, <2>2 DEF Asked, AnyTask
    <3> QED
      BY <1>3, <1>4, <1>5, <1>8, <2>2, <3>1, OffCpu
  <2> QED
    BY <2>1, <2>2
<1>10. Asked' = Asked
  BY <1>8 DEF Asked
<1> QED
  BY <1>5, <1>7, <1>8, <1>9, <1>10 DEF StatInv

\* After a switch the statistics of everyone but the task that lost the CPU say
\* what happened to it, whatever was charged to that task.
LEMMA SwitchOthers ==
  ASSUME StatInv, NEW m \in Nat, NEW k \in Nat, NEW n \in Nat, m <= k, k <= n, now = m, now' = n,
         NEW u \in Nat, NEW s \in Nat, u + s = n - m, spent' = Spending(u, s),
         NEW st \in StatsAt(k), \A x \in AnyTask: x # running => st[x] = stats[x],
         stats' = Resumed(st, n), running \in AnyTask, running' \in AnyTask,
         NEW t \in Asked, t # running
  PROVE  TaskStats(t)'
<1>1. t \in AnyTask /\ t # Idle /\ TaskStats(t) /\ st[t] = stats[t] /\ spent \in Times
  BY TasksAssumption DEF Asked, AnyTask, StatInv
<1>2. /\ stats[t].user \in Nat /\ stats[t].system \in Nat /\ stats[t].ready \in Nat
      /\ stats[t].stamp \in 0..m /\ stats[t].created \in 0..m
      /\ spent[t].user \in Nat /\ spent[t].system \in Nat /\ spent[t].off \in Nat
  BY <1>1, Numbers
<1>3. /\ spent'[t].user = spent[t].user /\ spent'[t].system = spent[t].system
      /\ spent'[t].off = spent[t].off + u + s
  BY <1>1, SpendingTimes
<1>4. /\ stats[t].user = spent[t].user /\ stats[t].system = spent[t].system
      /\ stats[t].ready + (m - stats[t].stamp) = spent[t].off
      /\ spent[t].user + spent[t].system + spent[t].off = m - stats[t].created
  BY <1>1 DEF TaskStats
<1>5. stats'[t].user = stats[t].user /\ stats'[t].created = stats[t].created
  BY <1>1, SwitchCharges
<1>6. /\ stats'[t].user = spent'[t].user
      /\ spent'[t].user + spent'[t].system + spent'[t].off = n - stats'[t].created
  BY <1>2, <1>3, <1>4, <1>5
<1>7. CASE t = running'
  <2>1. running' \notin {running, Idle}
    BY <1>1, <1>7
  <2>2. /\ stats'[t].system = stats[t].system /\ stats'[t].stamp = n
        /\ stats'[t].ready = stats[t].ready + (n - stats[t].stamp)
    BY <1>1, <1>7, <2>1, SwitchCharges
  <2>3. stats'[t].ready = spent'[t].off
    <3>1. stats[t].stamp \in Nat
      BY <1>2
    <3>2. PICK x \in Nat: x = stats[t].stamp
      BY <3>1
    <3>3. PICK r \in Nat: r = stats[t].ready
      BY <1>2
    <3>4. PICK o \in Nat: o = spent[t].off
      BY <1>2
    <3>5. r + (m - x) = o
      BY <1>4, <3>2, <3>3, <3>4
    <3>6. r + (n - x) = o + u + s
      BY <3>2, <3>3, <3>4, <3>5
    <3> QED
      BY <1>3, <2>2, <3>2, <3>3, <3>4, <3>6
  <2>4. /\ stats'[t].system = spent'[t].system /\ spent'[t].system \in Nat
        /\ n - stats'[t].stamp = 0
    BY <1>2, <1>3, <1>4, <2>2
  <2>5. stats'[t].system + (n - stats'[t].stamp) = spent'[t].system
    BY <2>4
  <2> QED
    BY <1>6, <1>7, <2>2, <2>3, <2>5 DEF TaskStats
<1>8. CASE t # running'
  <2>1. stats'[t] = stats[t]
    BY <1>1, <1>8, SwitchCharges
  <2> QED
    BY <1>8, <2>1, OffCpu
<1> QED
  BY <1>7, <1>8

\* A handler that calls sched_next_rr keeps the invariant.
LEMMA SwitchesStep ==
  ASSUME StatInv, NEW u \in Nat, NEW s \in Nat, now' = now + u + s, now' \in 0..MaxTime,
         Switches(u, s), running \in AnyTask, running' \in AnyTask,
         exiting = NotExiting, UNCHANGED <<exiting, freequeue>>
  PROVE  StatInv'
<1>1. now \in Nat /\ stats \in StatsAt(now) /\ spent \in Times
  BY DEF StatInv
<1>2. PICK k \in Nat: k = now + u
  BY <1>1
<1>3. PICK n \in Nat: n = now + u + s
  BY <1>1
<1>4. PICK m \in Nat: m = now
  BY <1>1
<1>5. m <= k /\ k <= n /\ k - m = u /\ n - k = s /\ u + s = n - m /\ now' = n /\ n \in 0..MaxTime
  BY <1>2, <1>3, <1>4
<1> DEFINE st == user2system(stats, k)
<1>6. /\ st \in StatsAt(k)
      /\ \A x \in AnyTask: x # running => st[x] = stats[x]
      /\ st[running].user = stats[running].user + (k - stats[running].stamp)
      /\ st[running].system = stats[running].system
      /\ st[running].ready = stats[running].ready
      /\ st[running].stamp = k /\ st[running].created = stats[running].created
  <2>1. \A t \in AnyTask:
          LET c == Charge(stats, t, "user", k)
          IN  /\ c \in StatsAt(k)
              /\ \A x \in AnyTask: x # t => c[x] = stats[x]
              /\ c[t].user = stats[t].user + (k - stats[t].stamp)
              /\ c[t].system = stats[t].system
              /\ c[t].ready = stats[t].ready
              /\ c[t].stamp = k /\ c[t].created = stats[t].created
    BY <1>1, <1>4, <1>5, UserCharging
  <2> QED
    BY <2>1 DEF user2system, finishUserTime
<1>7. stats' = Resumed(st, n)
  BY <1>2, <1>3 DEF Switches
<1> HIDE DEF st
<1>8. stats' \in StatsAt(n)
  BY <1>5, <1>6, <1>7, SwitchCharges
<1>9. spent' = Spending(u, s) /\ spent' \in Times /\ queried' = queried
  BY <1>1, SpendingTimes DEF Switches
<1>10. ASSUME NEW t \in Asked, t = running PROVE TaskStats(t)'
  <2>1. t \in AnyTask /\ t # Idle /\ TaskStats(t)
    BY TasksAssumption DEF Asked, AnyTask, StatInv
  <2>2. /\ stats[t].user \in Nat /\ stats[t].system \in Nat /\ stats[t].ready \in Nat
        /\ stats[t].stamp \in 0..m /\ stats[t].created \in 0..m
        /\ spent[t].user \in Nat /\ spent[t].system \in Nat /\ spent[t].off \in Nat
    BY <1>4, <2>1, Numbers
  <2>3. /\ spent'[t].user = spent[t].user + u /\ spent'[t].system = spent[t].system + s
        /\ spent'[t].off = spent[t].off
    BY <1>1, <1>9, <1>10, <2>1, SpendingTimes
  <2>4. /\ stats[t].user = spent[t].user /\ stats[t].ready = spent[t].off
        /\ stats[t].stamp = m /\ stats[t].system = spent[t].system
        /\ spent[t].user + spent[t].system + spent[t].off = m - stats[t].created
    BY <1>4, <1>10, <2>1, <2>2 DEF TaskStats
  <2>5. /\ stats'[t].user = st[t].user /\ stats'[t].created = st[t].created
        /\ stats'[t].system = st[t].system + (n - st[t].stamp)
        /\ stats'[t].ready = st[t].ready /\ stats'[t].stamp = n
    BY <1>5, <1>6, <1>7, <1>10, <2>1, SwitchCharges
  <2>6. /\ stats'[t].user = spent'[t].user /\ stats'[t].ready = spent'[t].off
        /\ stats'[t].system = spent'[t].system /\ n - stats'[t].stamp = 0
        /\ spent'[t].user + spent'[t].system + spent'[t].off = n - stats'[t].created
    <3>1. /\ stats'[t].user = stats[t].user + (k - m) /\ stats'[t].ready = stats[t].ready
          /\ stats'[t].system = stats[t].system + (n - k)
          /\ stats'[t].stamp = n /\ stats'[t].created = stats[t].created
      BY <1>6, <1>10, <2>4, <2>5
    <3>2. \A a, b, c, d \in Nat: a + b + c = m - d =>
            /\ a + (k - m) = a + u /\ b + (n - k) = b + s /\ n - n = 0
            /\ (a + u) + (b + s) + c = n - d
      BY <1>5
    <3>3. /\ stats[t].created \in Nat /\ spent[t].user + spent[t].system + spent[t].off = m - stats[t].created
      BY <2>2, <2>4
    <3>4. PICK a \in Nat: a = spent[t].user
      BY <2>2
    <3>5. PICK b \in Nat: b = spent[t].system
      BY <2>2
    <3>6. PICK c \in Nat: c = spent[t].off
      BY <2>2
    <3>7. PICK d \in Nat: d = stats[t].created
      BY <2>2
    <3>8. /\ a + (k - m) = a + u /\ b + (n - k) = b + s /\ n - n = 0
          /\ (a + u) + (b + s) + c = n - d
      <4>1. a + b + c = m - d
        BY <3>3, <3>4, <3>5, <3>6, <3>7
      <4> QED
        BY <3>2, <4>1
    <3>9. /\ stats'[t].user = a + (k - m) /\ stats'[t].ready = c /\ stats'[t].system = b + (n - k)
          /\ stats'[t].stamp = n /\ stats'[t].created = d
          /\ spent'[t].user = a + u /\ spent'[t].system = b + s /\ spent'[t].off = c
      BY <2>3, <2>4, <3>1, <3>4, <3>5, <3>6, <3>7
    <3> QED
      BY <3>8, <3>9
  <2>7. /\ stats'[t].system + (n - stats'[t].stamp) = spent'[t].system
        /\ stats'[t].ready + (n - stats'[t].stamp) = spent'[t].off
    BY <2>2, <2>3, <2>6
  <2> QED
    BY <1>5, <2>5, <2>6, <2>7 DEF TaskStats
<1>11. ASSUME NEW t \in Asked, t # running PROVE TaskStats(t)'
  BY <1>4, <1>5, <1>6, <1>7, <1>9, <1>11, SwitchOthers
<1>12. Asked' = Asked
  BY <1>9 DEF Asked
<1> QED
  BY <1>5, <1>8, <1>9, <1>10, <1>11, <1>12 DEF StatInv

\* A child begins anew; its parent goes on.
LEMMA ForkStep ==
  ASSUME StatInv, IInv, NEW u \in Nat, NEW s \in Nat, now' = now + u + s, now' \in 0..MaxTime,
         StatFork(u, s)
  PROVE  StatInv'
<1>1. now \in Nat /\ stats \in StatsAt(now) /\ spent \in Times
  BY DEF StatInv
<1>2. PICK k \in Nat: k = now + u
  BY <1>1
<1>3. PICK n \in Nat: n = now + u + s
  BY <1>1
<1>4. PICK m \in Nat: m = now
  BY <1>1
<1>5. m <= k /\ k <= n /\ u = k - m /\ s = n - k /\ u + s = n - m /\ now' = n
  BY <1>2, <1>3, <1>4
<1>6. PICK child \in freequeue \ freequeue':
        /\ stats' = system2user(Newborn(user2system(stats, k), child, n), n)
        /\ spent' = [Spending(u, s) EXCEPT ![child] = Nothing]
        /\ queried' = queried \ {child}
  BY <1>2, <1>3 DEF StatFork
<1>7. /\ exiting = NotExiting /\ running # Idle
      /\ running' = running /\ exiting' = exiting
      /\ \E c \in freequeue: freequeue' = freequeue \ {c}
  BY DEF StatFork, Fork, Clone, InCall, NewProcess
<1>8. freequeue' = freequeue \ {child}
  BY <1>6, <1>7
<1>9. child \in Task /\ child # running /\ running \in AnyTask
  BY <1>6, RunningIsNowhere DEF IInv, TypeInv, TypeOK, AnyTask
<1> DEFINE a == user2system(stats, k)
           b == Newborn(a, child, n)
<1>10. /\ a \in StatsAt(k) /\ \A x \in AnyTask: x # running => a[x] = stats[x]
       /\ a[running].user = stats[running].user + (k - stats[running].stamp)
       /\ a[running].system = stats[running].system /\ a[running].ready = stats[running].ready
       /\ a[running].stamp = k /\ a[running].created = stats[running].created
  <2>1. \A t \in AnyTask:
          LET c == Charge(stats, t, "user", k)
          IN  /\ c \in StatsAt(k) /\ \A x \in AnyTask: x # t => c[x] = stats[x]
              /\ c[t].user = stats[t].user + (k - stats[t].stamp)
              /\ c[t].system = stats[t].system /\ c[t].ready = stats[t].ready
              /\ c[t].stamp = k /\ c[t].created = stats[t].created
    BY <1>1, <1>2, <1>4, <1>5, UserCharging
  <2> QED
    BY <1>9, <2>1 DEF user2system, finishUserTime
<1> HIDE DEF a
<1>11. /\ b \in StatsAt(n) /\ b[child] = init_stats(n)
       /\ \A x \in AnyTask: x # child => b[x] = a[x]
  <2>1. init_stats(n) \in [user: Nat, system: Nat, ready: Nat, stamp: 0..n, created: 0..n]
    BY <1>3 DEF init_stats
  <2>2. a \in StatsAt(n)
    BY <1>2, <1>3, <1>5, <1>10 DEF StatsAt
  <2> QED
    BY <1>9, <2>1, <2>2 DEF Newborn, StatsAt, AnyTask
<1>12. stats' = Charge(b, running, "system", n)
  BY <1>6, <1>7 DEF a, system2user, finishSystemTime
<1> HIDE DEF b
<1>13. /\ stats' \in StatsAt(n) /\ \A x \in AnyTask: x # running => stats'[x] = b[x]
       /\ stats'[running].stamp = n /\ stats'[running].created = b[running].created
       /\ stats'[running].system = b[running].system + (n - b[running].stamp)
       /\ stats'[running].user = b[running].user /\ stats'[running].ready = b[running].ready
  <2>1. n <= n
    BY <1>3
  <2>2. \A t \in AnyTask:
          LET c == Charge(b, t, "system", n)
          IN  /\ c \in StatsAt(n) /\ \A x \in AnyTask: x # t => c[x] = b[x]
              /\ c[t].stamp = n /\ c[t].created = b[t].created
              /\ c[t].system = b[t].system + (n - b[t].stamp)
              /\ c[t].user = b[t].user /\ c[t].ready = b[t].ready
    BY <1>3, <1>11, <2>1, SystemCharging
  <2> QED
    BY <1>9, <1>12, <2>2
<1>14. /\ stats'[running].user = stats[running].user + (k - stats[running].stamp)
       /\ stats'[running].system = stats[running].system + (n - k)
       /\ stats'[running].ready = stats[running].ready
       /\ stats'[running].stamp = n /\ stats'[running].created = stats[running].created
  BY <1>9, <1>10, <1>11, <1>13
<1>15. \A x \in AnyTask: x \notin {running, child} => stats'[x] = stats[x]
  BY <1>9, <1>10, <1>11, <1>13
<1>16. stats'[child] = init_stats(n)
  BY <1>9, <1>11, <1>13 DEF AnyTask
<1>17. /\ spent' \in Times /\ spent'[child] = Nothing
       /\ \A x \in AnyTask: x # child => spent'[x] = Spending(u, s)[x]
  <2>1. Spending(u, s) \in Times
    BY <1>1, SpendingTimes
  <2> QED
    BY <1>6, <1>9, <2>1 DEF Times, Nothing, AnyTask
<1>18. ASSUME NEW t \in Asked' PROVE TaskStats(t)'
  <2>1. t = child \/ (t # child /\ t \in Asked)
    BY <1>6, <1>8, <1>18 DEF Asked
  <2>2. CASE t = child
    <3>1. /\ stats'[t] = init_stats(n) /\ spent'[t] = Nothing /\ t # running'
      BY <1>7, <1>9, <1>16, <1>17, <2>2
    <3>2. /\ stats'[t].user = 0 /\ stats'[t].system = 0 /\ stats'[t].ready = 0
          /\ stats'[t].stamp = n /\ stats'[t].created = n
          /\ spent'[t].user = 0 /\ spent'[t].system = 0 /\ spent'[t].off = 0
      BY <3>1 DEF init_stats, Nothing
    <3>3. n - n = 0
      BY <1>3
    <3> QED
      BY <1>5, <3>1, <3>2, <3>3 DEF TaskStats
  <2>3. CASE t # child /\ t \in Asked /\ t = running
    BY <1>2, <1>3, <1>4, <1>5, <1>7, <1>9, <1>14, <1>17, <2>3, OnCpu
  <2>4. CASE t # child /\ t \in Asked /\ t # running
    <3>1. stats'[t] = stats[t] /\ spent'[t] = Spending(u, s)[t]
      BY <1>15, <1>17, <2>4 DEF Asked, AnyTask
    <3> QED
      BY SMTT(60), <1>3, <1>4, <1>5, <1>7, <2>4, <3>1, OffCpu
  <2> QED
    BY <2>1, <2>2, <2>3, <2>4
<1> QED
  BY <1>5, <1>6, <1>13, <1>17, <1>18 DEF StatInv

\* sys_getstats moves the stamp of one task, which does not count from then on.
LEMMA GetstatsStep ==
  ASSUME StatInv, IInv, NEW u \in Nat, NEW s \in Nat, now' = now + u + s, now' \in 0..MaxTime,
         NEW t \in AnyTask, sys_getstats(t, u, s)
  PROVE  StatInv'
<1>1. now \in Nat /\ stats \in StatsAt(now) /\ spent \in Times
  BY DEF StatInv
<1>2. PICK k \in Nat: k = now + u
  BY <1>1
<1>3. PICK n \in Nat: n = now + u + s
  BY <1>1
<1>4. PICK m \in Nat: m = now
  BY <1>1
<1>5. m <= k /\ k <= n /\ u = k - m /\ s = n - k /\ u + s = n - m /\ now' = n
  BY <1>2, <1>3, <1>4
<1>6. /\ exiting = NotExiting /\ running # Idle
      /\ running' = running /\ exiting' = exiting /\ freequeue' = freequeue
  BY DEF sys_getstats, InCall, vars
<1>7. running \in AnyTask
  BY DEF IInv, TypeInv, TypeOK, AnyTask
<1> DEFINE a == user2system(stats, k)
           b == finishSystemTime(a, t, n)
           c == [b EXCEPT ![t].stamp = @ - b[t].created]
<1>8. /\ stats' = system2user(c, n) /\ spent' = Spending(u, s) /\ queried' = queried \cup {t}
  BY <1>2, <1>3 DEF sys_getstats
<1>9. /\ a \in StatsAt(k) /\ \A x \in AnyTask: x # running => a[x] = stats[x]
      /\ a[running].user = stats[running].user + (k - stats[running].stamp)
      /\ a[running].system = stats[running].system /\ a[running].ready = stats[running].ready
      /\ a[running].stamp = k /\ a[running].created = stats[running].created
  <2>1. \A x \in AnyTask:
          LET d == Charge(stats, x, "user", k)
          IN  /\ d \in StatsAt(k) /\ \A y \in AnyTask: y # x => d[y] = stats[y]
              /\ d[x].user = stats[x].user + (k - stats[x].stamp)
              /\ d[x].system = stats[x].system /\ d[x].ready = stats[x].ready
              /\ d[x].stamp = k /\ d[x].created = stats[x].created
    BY <1>1, <1>2, <1>4, <1>5, UserCharging
  <2> QED
    BY <1>7, <2>1 DEF user2system, finishUserTime
<1> HIDE DEF a
<1>10. /\ b \in StatsAt(n) /\ \A x \in AnyTask: x # t => b[x] = a[x]
       /\ b[t].stamp = n
  BY <1>2, <1>3, <1>5, <1>9, SystemCharging DEF finishSystemTime
<1> HIDE DEF b
<1>11. c \in StatsAt(n) /\ \A x \in AnyTask: x # t => c[x] = b[x]
  <2>1. b[t] \in [user: Nat, system: Nat, ready: Nat, stamp: 0..n, created: 0..n]
    BY <1>10 DEF StatsAt
  <2>2. b[t].stamp - b[t].created \in 0..n
    BY <1>3, <1>10, <2>1
  <2>3. \A z \in 0..n: [b[t] EXCEPT !.stamp = z]
           \in [user: Nat, system: Nat, ready: Nat, stamp: 0..n, created: 0..n]
    BY <2>1
  <2>4. [b[t] EXCEPT !.stamp = b[t].stamp - b[t].created]
           \in [user: Nat, system: Nat, ready: Nat, stamp: 0..n, created: 0..n]
    BY <2>2, <2>3
  <2>5. c = [b EXCEPT ![t] = [b[t] EXCEPT !.stamp = b[t].stamp - b[t].created]]
    BY <1>10 DEF StatsAt
  <2> QED
    BY <1>10, <2>4, <2>5 DEF StatsAt
<1>12. stats' = Charge(c, running, "system", n)
  BY <1>6, <1>8 DEF system2user, finishSystemTime
<1> HIDE DEF c
<1>13. /\ stats' \in StatsAt(n) /\ \A x \in AnyTask: x # running => stats'[x] = c[x]
       /\ stats'[running].stamp = n /\ stats'[running].created = c[running].created
       /\ stats'[running].system = c[running].system + (n - c[running].stamp)
       /\ stats'[running].user = c[running].user /\ stats'[running].ready = c[running].ready
  <2>1. n <= n
    BY <1>3
  <2>2. \A x \in AnyTask:
          LET d == Charge(c, x, "system", n)
          IN  /\ d \in StatsAt(n) /\ \A y \in AnyTask: y # x => d[y] = c[y]
              /\ d[x].stamp = n /\ d[x].created = c[x].created
              /\ d[x].system = c[x].system + (n - c[x].stamp)
              /\ d[x].user = c[x].user /\ d[x].ready = c[x].ready
    BY <1>3, <1>11, <2>1, SystemCharging
  <2> QED
    BY <1>7, <1>12, <2>2
<1>14. ASSUME running # t
       PROVE  /\ stats'[running].user = stats[running].user + (k - stats[running].stamp)
              /\ stats'[running].system = stats[running].system + (n - k)
              /\ stats'[running].ready = stats[running].ready
              /\ stats'[running].stamp = n /\ stats'[running].created = stats[running].created
  BY <1>7, <1>9, <1>10, <1>11, <1>13, <1>14
<1>15. \A x \in AnyTask: x \notin {running, t} => stats'[x] = stats[x]
  BY <1>9, <1>10, <1>11, <1>13
<1>16. spent' \in Times
  BY <1>1, <1>8, SpendingTimes
<1>17. ASSUME NEW x \in Asked' PROVE TaskStats(x)'
  <2>1. x # t /\ x \in Asked
    BY <1>6, <1>8, <1>17 DEF Asked
  <2>2. CASE x = running
    BY <1>2, <1>3, <1>4, <1>5, <1>6, <1>8, <1>14, <2>1, <2>2, OnCpu
  <2>3. CASE x # running
    <3>1. stats'[x] = stats[x]
      BY <1>15, <2>1, <2>3 DEF Asked, AnyTask
    <3> QED
      BY <1>3, <1>4, <1>5, <1>6, <1>8, <2>1, <2>3, <3>1, OffCpu
  <2> QED
    BY <2>2, <2>3
<1> QED
  BY <1>5, <1>8, <1>13, <1>16, <1>17 DEF StatInv

\* sys_exit, from entering the kernel to the switch away from the process.
LEMMA ExitStep ==
  ASSUME StatInv, IInv, TypeInv', NEW u \in Nat, NEW s \in Nat, now' = now + u + s,
         now' \in 0..MaxTime, StatExit(u, s)
  PROVE  StatInv'
<1>1. now \in Nat /\ stats \in StatsAt(now) /\ spent \in Times
  BY DEF StatInv
<1>2. PICK k \in Nat: k = now + u
  BY <1>1
<1>3. PICK n \in Nat: n = now + u + s
  BY <1>1
<1>4. PICK m \in Nat: m = now
  BY <1>1
<1>5. m <= k /\ k <= n /\ u = k - m /\ s = n - k /\ u + s = n - m /\ now' = n /\ m <= n
  BY <1>2, <1>3, <1>4
<1>6. running \in AnyTask /\ running' \in AnyTask
  BY DEF IInv, TypeInv, TypeOK, AnyTask
<1>7. spent' = Spending(u, s) /\ spent' \in Times /\ queried' = queried
  BY <1>1, SpendingTimes DEF StatExit
<1>8. ASSUME running' = running, exiting' # NotExiting, freequeue' = freequeue,
             stats' \in StatsAt(n), NEW j \in Nat, m <= j, j <= n,
             \A x \in AnyTask: x # running => stats'[x] = stats[x],
             running \in Asked =>
               /\ stats'[running].user = stats[running].user + u
               /\ stats'[running].system + (n - stats'[running].stamp)
                    = stats[running].system + (m - stats[running].stamp) + s
               /\ stats'[running].ready = stats[running].ready
               /\ stats'[running].created = stats[running].created
      PROVE  StatInv'
  <2>1. ASSUME NEW t \in Asked PROVE TaskStats(t)'
    <3>1. CASE t = running
      <4>1. t \in AnyTask /\ TaskStats(t)
        BY DEF Asked, AnyTask, StatInv
      <4>2. /\ stats[t].user \in Nat /\ stats[t].system \in Nat /\ stats[t].ready \in Nat
            /\ stats[t].stamp \in 0..m /\ stats[t].created \in 0..m
            /\ spent[t].user \in Nat /\ spent[t].system \in Nat /\ spent[t].off \in Nat
        BY <1>4, <4>1, Numbers
      <4>3. /\ spent'[t].user = spent[t].user + u /\ spent'[t].system = spent[t].system + s
            /\ spent'[t].off = spent[t].off
        BY <1>1, <1>7, <3>1, <4>1, SpendingTimes
      <4>4. /\ stats[t].user = spent[t].user /\ stats[t].ready = spent[t].off
            /\ stats[t].system + (m - stats[t].stamp) = spent[t].system
            /\ spent[t].user + spent[t].system + spent[t].off = m - stats[t].created
        BY <1>4, <3>1, <4>1 DEF TaskStats
      <4>5. spent'[t].user + spent'[t].system + spent'[t].off = n - stats[t].created
        <5>1. PICK c \in Nat: c = stats[t].created
          BY <1>4, <4>2
        <5>2. PICK w \in Nat: w = spent[t].user + spent[t].system + spent[t].off
          BY <4>2
        <5>3. spent'[t].user + spent'[t].system + spent'[t].off = w + u + s
          BY <4>2, <4>3, <5>2
        <5>4. w + u + s = n - c
          BY <1>3, <1>4, <1>5, <4>4, <5>1, <5>2
        <5> QED
          BY <5>1, <5>3, <5>4
      <4> QED
        BY <1>5, <1>8, <3>1, <4>3, <4>4, <4>5 DEF TaskStats
    <3>2. CASE t # running
      <4>1. stats'[t] = stats[t]
        BY <1>8, <3>2 DEF Asked, AnyTask
      <4> QED
        BY <1>3, <1>4, <1>5, <1>7, <1>8, <3>2, <4>1, OffCpu
    <3> QED
      BY <3>1, <3>2
  <2>2. Asked' = Asked
    BY <1>7, <1>8 DEF Asked
  <2> QED
    BY <1>5, <1>7, <1>8, <2>1, <2>2 DEF StatInv
<1>9. CASE ExitBegins /\ stats' = user2system(stats, now + u)
  <2>1. /\ stats' \in StatsAt(k) /\ \A x \in AnyTask: x # running => stats'[x] = stats[x]
        /\ stats'[running].user = stats[running].user + (k - stats[running].stamp)
        /\ stats'[running].system = stats[running].system
        /\ stats'[running].ready = stats[running].ready
        /\ stats'[running].stamp = k /\ stats'[running].created = stats[running].created
    <3>1. \A x \in AnyTask:
            LET d == Charge(stats, x, "user", k)
            IN  /\ d \in StatsAt(k) /\ \A y \in AnyTask: y # x => d[y] = stats[y]
                /\ d[x].user = stats[x].user + (k - stats[x].stamp)
                /\ d[x].system = stats[x].system /\ d[x].ready = stats[x].ready
                /\ d[x].stamp = k /\ d[x].created = stats[x].created
      BY <1>1, <1>2, <1>4, <1>5, UserCharging
    <3>2. stats' = Charge(stats, running, "user", k)
      BY <1>2, <1>9 DEF user2system, finishUserTime
    <3> QED
      BY <1>6, <3>1, <3>2
  <2>2. exiting = NotExiting /\ exiting' # NotExiting /\ running' = running /\ freequeue' = freequeue
    BY <1>9 DEF ExitBegins, InCall, NotExiting
  <2>3. stats' \in StatsAt(n)
    BY <1>2, <1>3, <1>5, <2>1 DEF StatsAt
  <2>4. ASSUME running \in Asked
        PROVE  /\ stats'[running].user = stats[running].user + u
               /\ stats'[running].system + (n - stats'[running].stamp)
                    = stats[running].system + (m - stats[running].stamp) + s
    <3>1. stats[running].stamp = m /\ stats[running].system \in Nat
      BY <1>4, <1>6, <2>2, <2>4, Numbers DEF StatInv, TaskStats
    <3> QED
      BY <1>2, <1>3, <1>4, <1>5, <2>1, <3>1
  <2> QED
    BY <1>2, <1>5, <1>8, <2>1, <2>2, <2>3, <2>4
<1>10. CASE ExitDestroys /\ u = 0 /\ UNCHANGED stats
  <2>1. exiting' # NotExiting /\ running' = running /\ freequeue' = freequeue
    BY <1>10, NumbersAssumption DEF ExitDestroys, Sem, NotExiting
  <2>2. stats' \in StatsAt(n)
    BY <1>1, <1>3, <1>4, <1>5, <1>10 DEF StatsAt
  <2>3. /\ stats[running].user \in Nat /\ stats[running].system \in Nat
        /\ stats[running].stamp \in 0..m
    BY <1>4, <1>6, Numbers
  <2>4. /\ stats'[running].user = stats[running].user + u
        /\ stats'[running].system + (n - stats'[running].stamp)
             = stats[running].system + (m - stats[running].stamp) + s
    BY <1>3, <1>4, <1>5, <1>10, <2>3
  <2> QED
    BY <1>2, <1>5, <1>8, <1>10, <2>1, <2>2, <2>4
<1>11. CASE ExitEnds /\ u = 0 /\ stats' = Resumed(stats, now + s)
  <2>1. freequeue' = freequeue \cup {running}
    BY <1>11 DEF ExitEnds
  <2>2. stats' = Resumed(stats, n) /\ stats \in StatsAt(m) /\ m <= m
    BY <1>1, <1>3, <1>4, <1>11
  <2>3. stats' \in StatsAt(n)
    BY <1>3, <1>4, <1>5, <1>6, <2>2, SwitchCharges
  <2>4. ASSUME NEW t \in Asked' PROVE TaskStats(t)'
    <3>1. t \in Asked /\ t # running
      BY <1>7, <2>1, <2>4 DEF Asked
    <3> QED
      BY <1>3, <1>4, <1>5, <1>6, <1>7, <2>2, <3>1, SwitchOthers
  <2> QED
    BY <1>5, <1>7, <2>3, <2>4 DEF StatInv
<1> QED
  BY <1>9, <1>10, <1>11 DEF StatExit

LEMMA StatInvInit == StatInit => StatInv
<1> SUFFICES ASSUME StatInit PROVE StatInv
  OBVIOUS
<1>1. /\ now = 0 /\ stats = [t \in AnyTask |-> init_stats(0)] /\ queried = {}
      /\ spent = [t \in AnyTask |-> Nothing]
  BY DEF StatInit
<1>2. init_stats(0) \in [user: Nat, system: Nat, ready: Nat, stamp: 0..0, created: 0..0]
  BY DEF init_stats
<1>3. Nothing \in [user: Nat, system: Nat, off: Nat]
  BY DEF Nothing
<1>4. now \in 0..MaxTime /\ stats \in StatsAt(now) /\ spent \in Times
  BY <1>1, <1>2, <1>3, TimeAssumption DEF StatsAt, Times
<1>5. ASSUME NEW t \in Asked PROVE TaskStats(t)
  <2>1. t \in AnyTask
    BY DEF Asked, AnyTask
  <2>2. stats[t] = init_stats(0) /\ spent[t] = Nothing
    BY <1>1, <2>1
  <2>3. /\ stats[t].user = 0 /\ stats[t].system = 0 /\ stats[t].ready = 0
        /\ stats[t].stamp = 0 /\ stats[t].created = 0
        /\ spent[t].user = 0 /\ spent[t].system = 0 /\ spent[t].off = 0
    BY <2>2 DEF init_stats, Nothing
  <2> QED
    BY <1>1, <2>3 DEF TaskStats
<1> QED
  BY <1>1, <1>4, <1>5 DEF StatInv

LEMMA StatInvNext == IInv /\ StatInv /\ [StatNext]_allVars => StatInv'
<1> SUFFICES ASSUME IInv, StatInv, [StatNext]_allVars PROVE StatInv'
  OBVIOUS
<1>1. TypeInv'
  BY StatSteps, NextTypeInv DEF IInv
<1>2. running \in AnyTask /\ running' \in AnyTask
  BY <1>1 DEF IInv, TypeInv, TypeOK, AnyTask
<1>3. CASE UNCHANGED allVars
  <2>1. UNCHANGED <<now, stats, spent, queried, running, exiting, freequeue>>
    BY <1>3 DEF allVars, statVars, vars
  <2> QED
    BY <2>1 DEF StatInv, StatsAt, Asked, TaskStats
<1>4. ASSUME NEW u \in 0..MaxSpent, NEW s \in 0..MaxSpent,
             now + u + s <= MaxTime, now' = now + u + s,
             \/ StatClockTick(u, s) \/ StatFork(u, s) \/ StatExit(u, s) \/ StatSemCalls(u, s)
             \/ \E t \in AnyTask \ freequeue: sys_getstats(t, u, s)
      PROVE  StatInv'
  <2>1. u \in Nat /\ s \in Nat /\ now' \in 0..MaxTime
    BY <1>4, TimeAssumption DEF StatInv
  <2>2. CASE StatClockTick(u, s)
    <3>1. exiting = NotExiting /\ UNCHANGED <<exiting, freequeue>>
      BY <2>2 DEF StatClockTick, ClockTick, processVars
    <3>2. Switches(u, s) \/ (Stays(u, s) /\ running' = running)
      BY <2>2 DEF StatClockTick, ClockTick
    <3> QED
      BY <1>2, <1>4, <2>1, <3>1, <3>2, StaysStep, SwitchesStep
  <2>3. CASE StatFork(u, s)
    BY <1>4, <2>1, <2>3, ForkStep
  <2>4. CASE StatExit(u, s)
    BY <1>1, <1>4, <2>1, <2>4, ExitStep
  <2>5. CASE StatSemCalls(u, s)
    <3>1. PICK x \in SemId:
            \/ /\ \/ \E value \in 0..MaxCount: sem_init(x, value)
                  \/ sem_wait_takes(x) \/ sem_signal(x) \/ sem_destroy(x)
               /\ Stays(u, s)
            \/ sem_wait_blocks(x) /\ Switches(u, s)
      BY <2>5 DEF StatSemCalls
    <3>2. exiting = NotExiting /\ UNCHANGED <<exiting, freequeue>>
      BY <3>1 DEF sem_init, sem_wait_takes, sem_signal, sem_destroy, sem_wait_blocks,
                  InCall, processVars
    <3>3. Switches(u, s) \/ (Stays(u, s) /\ running' = running)
      BY <3>1 DEF sem_init, sem_wait_takes, sem_signal, sem_destroy
    <3> QED
      BY <1>2, <1>4, <2>1, <3>2, <3>3, StaysStep, SwitchesStep
  <2>6. CASE \E t \in AnyTask \ freequeue: sys_getstats(t, u, s)
    BY <1>4, <2>1, <2>6, GetstatsStep
  <2> QED
    BY <1>4, <2>2, <2>3, <2>4, <2>5, <2>6
<1> QED
  BY <1>3, <1>4 DEF StatNext

\* The tasks with statistics are the tasks of module Tasks, with all its theorems.
LEMMA TasksUnderStatistics == StatSpec => Spec
<1>1. StatInit => Init
  BY DEF StatInit
<1> QED
  BY <1>1, StatSteps, PTL DEF StatSpec, Spec

LEMMA StatInvHolds == StatSpec => []StatInv
<1>1. StatSpec => []IInv
  BY TasksUnderStatistics, InvariantHolds, PTL
<1> QED
  BY <1>1, StatInvInit, StatInvNext, PTL DEF StatSpec

-----------------------------------------------------------------------------
(* The theorems *)

\* No stamp lies in the future, so no difference of unsigned ticks wraps around,
\* not even after sys_getstats has moved a stamp back.
THEOREM StampsAreNeverAhead == StatSpec => []StatTypeOK
<1>1. StatInv => StatTypeOK
  BY DEF StatInv, StatTypeOK, StatsAt
<1> QED
  BY <1>1, StatInvHolds, PTL

\* The statistics of a process nobody asked about say where its time went: what was
\* charged by others' switches, or before it existed, never shows in them.
THEOREM TimeIsCharged == StatSpec => []StatsAreTrue
<1>1. ASSUME StatInv, NEW t \in Asked, exiting = NotExiting \/ t # running
      PROVE  LET pending == now - stats[t].stamp
             IN  /\ stats[t].user = spent[t].user /\ stats[t].system = spent[t].system
                 /\ stats[t].ready + pending = spent[t].off
                 /\ t = running => pending = 0
                 /\ stats[t].user + stats[t].system + stats[t].ready + pending
                      = now - stats[t].created
  <2>1. t \in AnyTask /\ TaskStats(t) /\ now \in Nat
    BY <1>1 DEF Asked, AnyTask, StatInv
  <2>2. /\ stats[t].user \in Nat /\ stats[t].system \in Nat /\ stats[t].ready \in Nat
        /\ stats[t].stamp \in 0..now /\ stats[t].created \in 0..now
        /\ spent[t].user \in Nat /\ spent[t].system \in Nat /\ spent[t].off \in Nat
    BY <1>1, <2>1, Numbers
  <2>3. PICK p \in Nat: p = now - stats[t].stamp
    BY <2>1, <2>2
  <2>4. CASE t = running
    <3>1. /\ stats[t].stamp = now /\ stats[t].user = spent[t].user
          /\ stats[t].ready = spent[t].off /\ stats[t].system + p = spent[t].system
          /\ spent[t].user + spent[t].system + spent[t].off = now - stats[t].created
      BY <1>1, <2>1, <2>3, <2>4 DEF TaskStats
    <3>2. p = 0
      BY <2>1, <2>3, <3>1
    <3> QED
      BY <2>1, <2>2, <2>3, <3>1, <3>2
  <2>5. CASE t # running
    <3>1. /\ stats[t].user = spent[t].user /\ stats[t].system = spent[t].system
          /\ stats[t].ready + p = spent[t].off
          /\ spent[t].user + spent[t].system + spent[t].off = now - stats[t].created
      BY <2>1, <2>3, <2>5 DEF TaskStats
    <3>2. stats[t].user + stats[t].system + stats[t].ready + p = now - stats[t].created
      BY <2>2, <2>3, <3>1
    <3> QED
      BY <2>3, <2>5, <3>1, <3>2
  <2> QED
    BY <2>4, <2>5
<1>2. StatInv => StatsAreTrue
  BY <1>1 DEF StatsAreTrue, Asked
<1> QED
  BY <1>2, StatInvHolds, PTL
=============================================================================
