-------------------------- MODULE SchedulerProofs --------------------------
(***************************************************************************)
(* Theorems about Scheduler, for any jobs, intervals and delay of a start. *)
(* Three clocks are compared: the age in memory and in every copy that can *)
(* still be written, the time since a run, and the sleep that is left.     *)
(***************************************************************************)
EXTENDS Scheduler, TLAPS

USE IntervalAssumption, UptimeAssumption, BoundAssumption

\* The time since the loop's run is counted up to the interval, and is not
\* less than the time since anyone's.
Clocks == \A j \in Jobs : ran[j] <= since[j] /\ since[j] <= Interval[j]

\* What is left of a sleep and the time since the last run make an interval.
SleepsEnough ==
    \A j \in Jobs \ stale :
        /\ stage["loop"][j] = "boot" => age[j] <= since[j]
        /\ stage["loop"][j] = "asleep" => left[j] + since[j] >= Interval[j]

Busy == {"calling", "reading", "writing"}

\* A job is paused, or will be woken within its interval, or is woken now.
InTime(j) ==
    \/ paused[j]
    \/ late[j] + left[j] <= Interval[j]
    \/ left[j] = 0 /\ late[j] <= Interval[j] + BootDelay /\ uptime <= BootDelay

\* A delay is no longer than the time since a run, until that is no longer
\* counted; past an interval it grows by the delay of one start only, which
\* the host is up long enough to end.
DelayBounded ==
    \A j \in Jobs :
        /\ ran[j] < Interval[j] => late[j] <= ran[j]
        /\ paused[j] => late[j] <= Interval[j]
        /\ stage["loop"][j] # "off"
        /\ stage["loop"][j] = "boot" => uptime + left[j] = BootDelay /\ late[j] <= Interval[j] + uptime
        /\ stage["loop"][j] = "asleep" => left[j] <= Interval[j] /\ InTime(j)
        /\ stage["loop"][j] \in Busy => late[j] = 0

Inv == TypeOK /\ NeverAhead /\ Clocks /\ SleepsEnough /\ DelayBounded

----------------------------------------------------------------------------
\* The clocks, one tick later.
LEMMA OlderClock ==
    ASSUME NEW f, NEW j \in Jobs, f[j] \in Nat, f[j] <= Interval[j]
    PROVE  /\ Older(f)[j] \in Nat
           /\ Older(f)[j] <= Interval[j]
           /\ f[j] <= Older(f)[j]
           /\ Older(f)[j] = IF f[j] < Interval[j] THEN f[j] + 1 ELSE Interval[j]
BY DEF Older

LEMMA OlderKeepsOrder ==
    ASSUME NEW f, NEW g, NEW j \in Jobs, f[j] \in Nat, g[j] \in Nat,
           f[j] <= g[j], g[j] <= Interval[j]
    PROVE  Older(f)[j] <= Older(g)[j]
BY DEF Older

LEMMA TroublesBounded ==
    ASSUME troubles \in 0 .. MaxTroubles, Goes \/ Fails PROVE troubles' \in 0 .. MaxTroubles
BY DEF Goes, Fails

LEMMA CommandsBounded ==
    ASSUME commands \in 0 .. MaxCommands, Command PROVE commands' \in 0 .. MaxCommands
BY DEF Command

\* A record of all the jobs, of which one is renewed from memory.
LEMMA MemoryRecord ==
    ASSUME TypeOK
    PROVE  /\ Memory \in Records
           /\ \A r \in Records, j \in Jobs : [r EXCEPT ![j] = Memory[j]] \in Records
           /\ \A j \in Jobs, b \in BOOLEAN : [Memory EXCEPT ![j].paused = b] \in Records
<1>1. \A j \in Jobs : Memory[j] \in [paused : BOOLEAN, age : Nat] /\ Memory[j].age = age[j] /\ age[j] <= Interval[j]
    BY DEF TypeOK, Memory
<1>2. Memory \in [Jobs -> [paused : BOOLEAN, age : Nat]]
    BY <1>1 DEF Memory
<1>3. Memory \in Records
    BY <1>1, <1>2 DEF Records
<1>4. \A r \in Records, j \in Jobs : [r EXCEPT ![j] = Memory[j]] \in Records
    BY <1>1 DEF Records
<1>5. ASSUME NEW j \in Jobs, NEW b \in BOOLEAN PROVE [Memory EXCEPT ![j].paused = b] \in Records
    <2>1. [Memory[j] EXCEPT !.paused = b] \in [paused : BOOLEAN, age : Nat] /\ [Memory[j] EXCEPT !.paused = b].age = Memory[j].age
        BY <1>1
    <2> QED
        BY <1>1, <1>2, <2>1 DEF Records
<1> QED
    BY <1>3, <1>4, <1>5

LEMMA NothingIsNoRecord == ASSUME Jobs # {} PROVE Nothing \notin Records
BY DEF Nothing, Records

LEMMA InvInit == Init => Inv
<1> SUFFICES ASSUME Init PROVE Inv
    OBVIOUS
<1>1. saved \in Records
    <2>1. \A j \in Jobs : Oldest(j) \in [paused : BOOLEAN, age : Nat] /\ Oldest(j).age <= Interval[j]
        BY DEF Oldest
    <2> QED
        BY <2>1 DEF Init, Records
<1>2. TypeOK
    BY <1>1 DEF Init, TypeOK, Drivers, Nothing
<1>3. NeverAhead
    BY DEF Init, NeverAhead, Oldest, Drivers
<1>4. Clocks /\ SleepsEnough /\ DelayBounded
    BY DEF Init, Clocks, SleepsEnough, DelayBounded, Drivers, Busy
<1> QED
    BY <1>2, <1>3, <1>4 DEF Inv

----------------------------------------------------------------------------
\* The loop.

LEMMA BootedStep == ASSUME Inv, NEW j \in Jobs, Booted(j) PROVE Inv'
<1>1. UNCHANGED <<memory, copy, snapshot, saved, uptime, ghosts, commands, troubles>>
    BY DEF Booted
<1>2. /\ stage["loop"][j] = "boot" /\ left[j] = 0
      /\ stage' = [stage EXCEPT !["loop"][j] = "asleep"]
      /\ left' = [left EXCEPT ![j] = Interval[j] - age[j]]
    BY DEF Booted, FirstSleep
<1>3. /\ age[j] \in Nat /\ since[j] \in Nat /\ ran[j] \in Nat /\ late[j] \in Nat /\ uptime \in Nat
      /\ age[j] <= Interval[j] /\ ran[j] <= age[j]
      /\ left \in [Jobs -> Nat]
    BY DEF Inv, TypeOK, NeverAhead
<1>4. Interval[j] - age[j] \in Nat
    BY <1>3
<1>5. /\ stage'["loop"][j] = "asleep"
      /\ \A d \in Drivers, k \in Jobs : <<d, k>> # <<"loop", j>> => stage'[d][k] = stage[d][k]
    BY <1>2 DEF Inv, TypeOK, Drivers
<1>6. TypeOK'
    BY <1>1, <1>2, <1>4, <1>3, <1>5 DEF Inv, TypeOK, Drivers, memory, ghosts
<1>7. NeverAhead'
    BY <1>1, <1>5 DEF Inv, NeverAhead, memory, ghosts
<1>8. left'[j] = Interval[j] - age[j] /\ \A k \in Jobs \ {j} : left'[k] = left[k]
    BY <1>2, <1>3
<1>9. SleepsEnough'
    BY <1>1, <1>2, <1>3, <1>5, <1>8 DEF Inv, SleepsEnough, Drivers, memory, ghosts
<1>10. DelayBounded'
    <2>1. left'[j] <= Interval[j] /\ InTime(j)'
        <3>1. late[j] <= Interval[j] + BootDelay /\ uptime = BootDelay
            BY <1>2, <1>3 DEF Inv, DelayBounded
        <3>2. ran[j] < Interval[j] => late[j] <= ran[j]
            BY DEF Inv, DelayBounded
        <3> QED
            BY <1>1, <1>3, <1>8, <3>1, <3>2 DEF InTime, memory, ghosts
    <2>2. \A k \in Jobs \ {j} : InTime(k)' <=> InTime(k)
        BY <1>1, <1>8 DEF InTime, memory, ghosts
    <2> QED
        BY <1>1, <1>2, <1>5, <1>8, <2>1, <2>2 DEF Inv, DelayBounded, Drivers, Busy, memory, ghosts
<1> QED
    BY <1>1, <1>6, <1>7, <1>9, <1>10 DEF Inv, Clocks, ghosts

LEMMA WakeStep == ASSUME Inv, NEW j \in Jobs, Wake(j) PROVE Inv'
<1>1. UNCHANGED <<memory, copy, snapshot, saved, uptime, told, since, ran, commands, troubles>>
    BY DEF Wake, ghosts
<1>2. /\ since[j] \in Nat /\ late[j] \in Nat /\ left[j] = 0
      /\ left \in [Jobs -> Nat] /\ late \in [Jobs -> Nat] /\ stage["loop"][j] = "asleep"
    BY DEF Inv, TypeOK, Wake
<1>3. CASE left' = [left EXCEPT ![j] = Interval[j]] /\ UNCHANGED <<stage, ghosts>> /\ paused[j]
    <2>1. left' \in [Jobs -> Nat] /\ left'[j] = Interval[j] /\ \A k \in Jobs \ {j} : left'[k] = left[k]
        BY <1>2, <1>3
    <2>2. TypeOK'
        BY <1>1, <1>3, <2>1 DEF Inv, TypeOK, memory, ghosts
    <2>3. SleepsEnough'
        BY <1>1, <1>2, <1>3, <2>1 DEF Inv, SleepsEnough, memory, ghosts
    <2>4. DelayBounded'
        <3>1. InTime(j)' /\ \A k \in Jobs \ {j} : InTime(k)' <=> InTime(k)
            BY <1>1, <1>3, <2>1 DEF InTime, memory, ghosts
        <3> QED
            BY <1>1, <1>2, <1>3, <2>1, <3>1 DEF Inv, DelayBounded, memory, ghosts
    <2> QED
        BY <1>1, <1>3, <2>2, <2>3, <2>4 DEF Inv, NeverAhead, Clocks, memory, ghosts
<1>4. CASE /\ stage' = [stage EXCEPT !["loop"][j] = "calling"]
           /\ late' = [late EXCEPT ![j] = 0]
           /\ stale' = stale \ {j}
           /\ UNCHANGED left
    <2>1. late' \in [Jobs -> Nat] /\ late'[j] = 0 /\ \A k \in Jobs \ {j} : late'[k] = late[k]
        BY <1>2, <1>4
    <2>2. /\ stage'["loop"][j] = "calling"
          /\ \A d \in Drivers, k \in Jobs : <<d, k>> # <<"loop", j>> => stage'[d][k] = stage[d][k]
        BY <1>4 DEF Inv, TypeOK, Drivers
    <2>3. TypeOK'
        BY <1>1, <1>4, <2>1, <2>2 DEF Inv, TypeOK, Drivers, memory
    <2>4. NeverAhead'
        BY <1>1, <2>2 DEF Inv, NeverAhead, memory
    <2>5. SleepsEnough'
        BY <1>1, <1>4, <2>2 DEF Inv, SleepsEnough, Drivers, memory
    <2>6. DelayBounded'
        <3>1. \A k \in Jobs \ {j} : InTime(k)' <=> InTime(k)
            BY <1>1, <1>4, <2>1 DEF InTime, memory
        <3>2. ran[j] \in Nat
            BY DEF Inv, TypeOK
        <3> QED
            BY <1>1, <1>4, <2>1, <2>2, <3>1, <3>2 DEF Inv, DelayBounded, Drivers, Busy, memory
    <2> QED
        BY <1>1, <2>3, <2>4, <2>5, <2>6 DEF Inv, Clocks
<1> QED
    BY <1>3, <1>4 DEF Wake

----------------------------------------------------------------------------
\* A run.

LEMMA CalledStep == ASSUME Inv, NEW d \in Drivers, NEW j \in Jobs, Called(d, j) PROVE Inv'
<1>1. UNCHANGED <<paused, left, copy, snapshot, saved, uptime, told, stale, commands, troubles>>
    BY DEF Called
<1>2. /\ age' = [age EXCEPT ![j] = 0] /\ ran' = [ran EXCEPT ![j] = 0] /\ late' = [late EXCEPT ![j] = 0]
      /\ \/ d = "loop" /\ since' = [since EXCEPT ![j] = 0]
         \/ d # "loop" /\ since' = since
      /\ stage' = [stage EXCEPT ![d][j] = "reading"]
      /\ stage[d][j] = "calling"
    BY DEF Called
<1>3. /\ age \in [Jobs -> Nat] /\ ran \in [Jobs -> Nat] /\ late \in [Jobs -> Nat] /\ since \in [Jobs -> Nat]
      /\ left \in [Jobs -> Nat] /\ 0 <= Interval[j]
    BY DEF Inv, TypeOK
<1>4. /\ age'[j] = 0 /\ ran'[j] = 0 /\ late'[j] = 0 /\ since'[j] \in {0, since[j]}
      /\ \A k \in Jobs \ {j} :
            age'[k] = age[k] /\ ran'[k] = ran[k] /\ late'[k] = late[k] /\ since'[k] = since[k]
    BY <1>2, <1>3
<1>5. /\ stage'[d][j] = "reading"
      /\ \A e \in Drivers, k \in Jobs : <<e, k>> # <<d, j>> => stage'[e][k] = stage[e][k]
    BY <1>2 DEF Inv, TypeOK
<1>6. TypeOK'
    <2>1. /\ age' \in [Jobs -> Nat] /\ ran' \in [Jobs -> Nat] /\ late' \in [Jobs -> Nat]
          /\ since' \in [Jobs -> Nat]
        BY <1>2, <1>3
    <2>2. \A k \in Jobs : age'[k] <= Interval[k]
        BY <1>3, <1>4 DEF Inv, TypeOK
    <2>3. /\ stage' \in [Drivers -> [Jobs -> {"off", "boot", "asleep", "calling", "reading", "writing"}]]
          /\ \A e \in Drivers, k \in Jobs : stage'[e][k] = "writing" => copy'[e][k] \in Records
        BY <1>1, <1>2, <1>5 DEF Inv, TypeOK
    <2> QED
        BY <1>1, <2>1, <2>2, <2>3 DEF Inv, TypeOK
<1>7. NeverAhead'
    <2>1. \A k \in Jobs : ran'[k] <= ran[k]
        BY <1>3, <1>4
    <2>2. \A r \in Records, k \in Jobs : r[k].age \in Nat
        BY DEF Records
    <2>3. \A m, n, i \in Nat : m <= n /\ n <= i => i >= m
        OBVIOUS
    <2>4. \A k \in Jobs : ran[k] \in Nat /\ ran'[k] \in Nat /\ age'[k] \in Nat
        BY <1>3, <1>4
    <2>5. \A k \in Jobs : age'[k] >= ran'[k]
        BY <1>4, <2>4 DEF Inv, NeverAhead
    <2>6. \A k \in Jobs : saved[k].age \in Nat /\ saved[k].age >= ran'[k]
        BY <2>1, <2>2, <2>4 DEF Inv, NeverAhead, TypeOK
    <2>7. ASSUME NEW e \in Drivers, NEW k \in Jobs, NEW l \in Jobs, stage'[e][k] = "writing"
          PROVE  copy[e][k][l].age >= ran'[l]
        <3>1. stage[e][k] = "writing"
            BY <1>5, <2>7
        <3>2. copy[e][k] \in Records
            BY <3>1 DEF Inv, TypeOK
        <3>3. copy[e][k][l].age \in Nat /\ copy[e][k][l].age >= ran[l]
            BY <2>2, <3>1, <3>2 DEF Inv, NeverAhead
        <3> QED
            BY <2>1, <2>4, <3>3
    <2>8. snapshot # Nothing => \A k \in Jobs : snapshot[k].age >= ran'[k]
        <3>1. ASSUME snapshot # Nothing, NEW k \in Jobs PROVE snapshot[k].age >= ran'[k]
            <4>1. snapshot[k].age \in Nat /\ snapshot[k].age >= ran[k]
                BY <2>2, <3>1 DEF Inv, TypeOK, NeverAhead
            <4> QED
                BY <2>1, <2>4, <4>1
        <3> QED
            BY <3>1
    <2> QED
        BY <1>1, <2>5, <2>6, <2>7, <2>8 DEF NeverAhead
<1>8. Clocks'
    BY <1>3, <1>4 DEF Inv, Clocks
<1>9. SleepsEnough'
    BY <1>1, <1>2, <1>3, <1>4, <1>5 DEF Inv, SleepsEnough, Drivers
<1>10. DelayBounded'
    <2>1. \A k \in Jobs \ {j} : InTime(k)' <=> InTime(k)
        BY <1>1, <1>4 DEF InTime
    <2>2. stage["loop"][j] = "asleep" => InTime(j)'
        BY <1>1, <1>3, <1>4 DEF Inv, DelayBounded, InTime
    <2>3. stage["loop"][j] = "boot" => uptime + left[j] = BootDelay /\ uptime \in Nat
        BY DEF Inv, TypeOK, DelayBounded
    <2> QED
        BY <1>1, <1>2, <1>3, <1>4, <1>5, <2>1, <2>2, <2>3 DEF Inv, DelayBounded, Drivers, Busy
<1> QED
    BY <1>6, <1>7, <1>8, <1>9, <1>10 DEF Inv

\* The end of a run, with whatever it has left in Redis.
LEMMA RestStep ==
    ASSUME Inv, NEW d \in Drivers, NEW j \in Jobs, Rest(d, j), stage[d][j] \in Busy,
           UNCHANGED <<memory, snapshot, uptime, ghosts, commands>>, troubles' \in 0 .. MaxTroubles,
           saved' \in Records, \A k \in Jobs : saved'[k].age >= ran[k]
    PROVE  Inv'
<1>1. /\ stage'[d][j] = IF d = "loop" THEN "asleep" ELSE "off"
      /\ \A e \in Drivers, k \in Jobs : <<e, k>> # <<d, j>> => stage'[e][k] = stage[e][k]
    BY DEF Inv, TypeOK, Rest
<1>2. /\ left \in [Jobs -> Nat] /\ Interval[j] \in Nat /\ since \in [Jobs -> Nat]
      /\ left' = IF d = "loop" THEN [left EXCEPT ![j] = Interval[j]] ELSE left
    BY DEF Inv, TypeOK, Rest
<1>3. /\ left' \in [Jobs -> Nat]
      /\ d = "loop" => left'[j] = Interval[j]
      /\ \A k \in Jobs : d # "loop" \/ k # j => left'[k] = left[k]
    BY <1>2
<1>4. /\ copy' = [copy EXCEPT ![d][j] = Nothing]
      /\ \A e \in Drivers, k \in Jobs : <<e, k>> # <<d, j>> => copy'[e][k] = copy[e][k]
    BY DEF Inv, TypeOK, Rest
<1>5. TypeOK'
    <2>1. copy' \in [Drivers -> [Jobs -> Records \cup {Nothing}]]
        BY <1>4 DEF Inv, TypeOK
    <2>2. stage' \in [Drivers -> [Jobs -> {"off", "boot", "asleep", "calling", "reading", "writing"}]]
        BY DEF Inv, TypeOK, Rest
    <2>3. \A e \in Drivers, k \in Jobs : stage'[e][k] = "writing" => copy'[e][k] \in Records
        <3>1. stage'[d][j] # "writing"
            BY <1>1
        <3>2. \A e \in Drivers, k \in Jobs : stage[e][k] = "writing" => copy[e][k] \in Records
            BY DEF Inv, TypeOK
        <3> QED
            BY <1>1, <1>4, <3>1, <3>2
    <2> QED
        BY <1>3, <2>1, <2>2, <2>3 DEF Inv, TypeOK, memory, ghosts
<1>6. NeverAhead'
    <2>1. stage'[d][j] # "writing"
        BY <1>1
    <2> QED
        BY <1>1, <1>4, <2>1 DEF Inv, NeverAhead, memory, ghosts
<1>7. SleepsEnough'
    BY <1>1, <1>2, <1>3 DEF Inv, SleepsEnough, Drivers, memory, ghosts
<1>8. DelayBounded'
    <2>1. \A k \in Jobs : d # "loop" \/ k # j => (InTime(k)' <=> InTime(k))
        BY <1>3 DEF InTime, memory, ghosts
    <2>2. d = "loop" => late[j] = 0 /\ InTime(j)'
        BY <1>2, <1>3 DEF Inv, DelayBounded, InTime, memory, ghosts
    <2> QED
        BY <1>1, <1>2, <1>3, <2>1, <2>2 DEF Inv, DelayBounded, Drivers, Busy, memory, ghosts
<1> QED
    BY <1>5, <1>6, <1>7, <1>8 DEF Inv, Clocks, ghosts

LEMMA ReadStep == ASSUME Inv, NEW d \in Drivers, NEW j \in Jobs, Read(d, j) PROVE Inv'
<1>1. UNCHANGED <<memory, snapshot, saved, uptime, ghosts, commands>> /\ stage[d][j] = "reading"
    BY DEF Read
<1>2. troubles' \in 0 .. MaxTroubles
    BY TroublesBounded DEF Inv, TypeOK, Read
<1>3. CASE Rest(d, j)
    <2>1. saved' \in Records /\ \A k \in Jobs : saved'[k].age >= ran[k]
        BY <1>1 DEF Inv, TypeOK, NeverAhead
    <2> QED
        BY <1>1, <1>2, <1>3, <2>1, RestStep DEF Busy
<1>4. CASE /\ stage' = [stage EXCEPT ![d][j] = "writing"]
           /\ copy' = [copy EXCEPT ![d][j] = [saved EXCEPT ![j] = Memory[j]]]
           /\ UNCHANGED left
    <2> DEFINE new == [saved EXCEPT ![j] = Memory[j]]
    <2>1. new \in Records /\ saved \in Records
        BY MemoryRecord DEF Inv, TypeOK
    <2>2. \A k \in Jobs : new[k].age >= ran[k]
        <3>1. new[j].age = age[j] /\ \A k \in Jobs \ {j} : new[k] = saved[k]
            BY <2>1 DEF Records, Memory
        <3> QED
            BY <3>1 DEF Inv, NeverAhead
    <2> HIDE DEF new
    <2>3. /\ stage'[d][j] = "writing"
          /\ \A e \in Drivers, k \in Jobs : <<e, k>> # <<d, j>> => stage'[e][k] = stage[e][k]
        BY <1>4 DEF Inv, TypeOK
    <2>4. /\ copy'[d][j] = new
          /\ \A e \in Drivers, k \in Jobs : <<e, k>> # <<d, j>> => copy'[e][k] = copy[e][k]
        BY <1>4 DEF Inv, TypeOK, new
    <2>5. TypeOK'
        <3>1. copy' \in [Drivers -> [Jobs -> Records \cup {Nothing}]]
            BY <1>4, <2>1 DEF Inv, TypeOK, new
        <3>2. stage' \in [Drivers -> [Jobs -> {"off", "boot", "asleep", "calling", "reading", "writing"}]]
            BY <1>4 DEF Inv, TypeOK
        <3>3. \A e \in Drivers, k \in Jobs : stage'[e][k] = "writing" => copy'[e][k] \in Records
            <4>1. \A e \in Drivers, k \in Jobs : stage[e][k] = "writing" => copy[e][k] \in Records
                BY DEF Inv, TypeOK
            <4> QED
                BY <2>1, <2>3, <2>4, <4>1
        <3> QED
            BY <1>1, <1>2, <1>4, <3>1, <3>2, <3>3 DEF Inv, TypeOK, memory, ghosts
    <2>6. NeverAhead'
        <3>1. ASSUME NEW e \in Drivers, NEW k \in Jobs, NEW l \in Jobs, stage'[e][k] = "writing"
              PROVE  copy'[e][k][l].age >= ran[l]
            BY <2>2, <2>3, <2>4, <3>1 DEF Inv, NeverAhead
        <3> QED
            BY <1>1, <3>1 DEF Inv, NeverAhead, memory, ghosts
    <2>7. SleepsEnough' /\ DelayBounded'
        <3>1. \A k \in Jobs : InTime(k)' <=> InTime(k)
            BY <1>1, <1>4 DEF InTime, memory, ghosts
        <3> QED
            BY <1>1, <1>4, <2>3, <3>1 DEF Inv, SleepsEnough, DelayBounded, Drivers, Busy, memory, ghosts
    <2> QED
        BY <1>1, <2>5, <2>6, <2>7 DEF Inv, Clocks, ghosts
<1> QED
    BY <1>3, <1>4 DEF Read

LEMMA WriteStep == ASSUME Inv, NEW d \in Drivers, NEW j \in Jobs, Write(d, j) PROVE Inv'
<1>1. UNCHANGED <<memory, snapshot, uptime, ghosts, commands>> /\ stage[d][j] = "writing" /\ Rest(d, j)
    BY DEF Write
<1>2. troubles' \in 0 .. MaxTroubles
    BY TroublesBounded DEF Inv, TypeOK, Write
<1>3. saved' \in Records /\ \A k \in Jobs : saved'[k].age >= ran[k]
    BY <1>1 DEF Inv, TypeOK, NeverAhead, Write
<1> QED
    BY <1>1, <1>2, <1>3, RestStep DEF Busy

LEMMA TriggerStep == ASSUME Inv, NEW j \in Jobs, Trigger(j) PROVE Inv'
<1>1. UNCHANGED <<memory, left, copy, snapshot, saved, uptime, ghosts, troubles>>
    BY DEF Trigger
<1>2. commands' \in 0 .. MaxCommands
    BY CommandsBounded DEF Inv, TypeOK, Trigger
<1>3. /\ stage' = [stage EXCEPT !["hand"][j] = "calling"]
      /\ \A k \in Jobs : stage'["loop"][k] = stage["loop"][k]
      /\ \A e \in Drivers, k \in Jobs : stage'[e][k] = "writing" => stage[e][k] = "writing"
    BY DEF Inv, TypeOK, Trigger, Drivers
<1>4. TypeOK'
    BY <1>1, <1>2, <1>3 DEF Inv, TypeOK, memory, ghosts
<1>5. NeverAhead'
    BY <1>1, <1>3 DEF Inv, NeverAhead, memory, ghosts
<1>6. SleepsEnough' /\ DelayBounded'
    <2>1. \A k \in Jobs : InTime(k)' <=> InTime(k)
        BY <1>1 DEF InTime, memory, ghosts
    <2> QED
        BY <1>1, <1>3, <2>1 DEF Inv, SleepsEnough, DelayBounded, memory, ghosts
<1> QED
    BY <1>1, <1>4, <1>5, <1>6 DEF Inv, Clocks, ghosts

----------------------------------------------------------------------------
\* Pauses.

LEMMA SetPausedStep == ASSUME Inv, NEW j \in Jobs, NEW b \in BOOLEAN, SetPaused(j, b) PROVE Inv'
<1>1. UNCHANGED <<age, stage, left, copy, saved, uptime, told, since, ran, stale, troubles>>
    BY DEF SetPaused
<1>2. commands' \in 0 .. MaxCommands
    BY CommandsBounded DEF Inv, TypeOK, SetPaused
<1>3. /\ paused \in [Jobs -> BOOLEAN] /\ late \in [Jobs -> Nat] /\ left \in [Jobs -> Nat]
      /\ paused' = [paused EXCEPT ![j] = b] /\ late' = [late EXCEPT ![j] = 0]
    BY DEF Inv, TypeOK, SetPaused
<1>4. /\ late'[j] = 0
      /\ \A k \in Jobs \ {j} : paused'[k] = paused[k] /\ late'[k] = late[k]
    BY <1>3
<1>5. snapshot' \in Records /\ \A k \in Jobs : snapshot'[k].age = age[k]
    <2>1. snapshot' = [Memory EXCEPT ![j].paused = b]
        BY DEF SetPaused
    <2>2. snapshot' \in Records
        BY <2>1, MemoryRecord DEF Inv
    <2>3. \A k \in Jobs : snapshot'[k].age = age[k]
        BY <2>1 DEF Memory
    <2> QED
        BY <2>2, <2>3
<1>6. TypeOK'
    BY <1>1, <1>2, <1>3, <1>5 DEF Inv, TypeOK
<1>7. NeverAhead'
    BY <1>1, <1>5 DEF Inv, NeverAhead
<1>8. DelayBounded'
    <2>1. \A k \in Jobs \ {j} : InTime(k)' <=> InTime(k)
        BY <1>1, <1>4 DEF InTime
    <2>2. stage["loop"][j] = "asleep" => InTime(j)'
        BY <1>1, <1>3, <1>4 DEF Inv, DelayBounded, InTime
    <2>3. ran[j] \in Nat /\ uptime \in Nat
        BY DEF Inv, TypeOK
    <2> QED
        BY <1>1, <1>4, <2>1, <2>2, <2>3 DEF Inv, DelayBounded
<1> QED
    BY <1>1, <1>6, <1>7, <1>8 DEF Inv, Clocks, SleepsEnough

LEMMA PersistStep == Inv /\ Persist => Inv'
<1> SUFFICES ASSUME Inv, Persist PROVE Inv'
    OBVIOUS
<1>1. /\ UNCHANGED <<memory, stage, left, copy, uptime, since, ran, late, stale, commands>>
      /\ told' = paused /\ snapshot' = Nothing
    BY DEF Persist
<1>2. troubles' \in 0 .. MaxTroubles
    BY TroublesBounded DEF Inv, TypeOK, Persist
<1>3. saved' \in Records /\ \A k \in Jobs : saved'[k].age >= ran[k]
    BY DEF Inv, TypeOK, NeverAhead, Persist
<1>4. TypeOK'
    BY <1>1, <1>2, <1>3 DEF Inv, TypeOK, memory
<1>5. NeverAhead'
    BY <1>1, <1>3 DEF Inv, NeverAhead, memory
<1>6. DelayBounded'
    <2>1. \A k \in Jobs : InTime(k)' <=> InTime(k)
        BY <1>1 DEF InTime, memory
    <2> QED
        BY <1>1, <2>1 DEF Inv, DelayBounded, memory
<1> QED
    BY <1>1, <1>4, <1>5, <1>6 DEF Inv, Clocks, SleepsEnough, memory

LEMMA ChatSetPausedStep ==
    ASSUME Inv, NEW j \in Jobs, NEW b \in BOOLEAN, ChatSetPaused(j, b) PROVE Inv'
<1>1. UNCHANGED <<memory, stage, left, copy, snapshot, saved, uptime, since, ran, late, stale, troubles>>
    BY DEF ChatSetPaused
<1>2. commands' \in 0 .. MaxCommands
    BY CommandsBounded DEF Inv, TypeOK, ChatSetPaused
<1>3. TypeOK'
    BY <1>1, <1>2 DEF Inv, TypeOK, ChatSetPaused, memory
<1>4. DelayBounded'
    <2>1. \A k \in Jobs : InTime(k)' <=> InTime(k)
        BY <1>1 DEF InTime, memory
    <2> QED
        BY <1>1, <2>1 DEF Inv, DelayBounded, memory
<1> QED
    BY <1>1, <1>3, <1>4 DEF Inv, NeverAhead, Clocks, SleepsEnough, memory

----------------------------------------------------------------------------
\* Time: nobody has anything left to do now, and nothing is being written.

LEMMA TickStep == Inv /\ Tick => Inv'
<1> SUFFICES ASSUME Inv, Tick PROVE Inv'
    OBVIOUS
<1>1. UNCHANGED <<paused, stage, copy, snapshot, told, stale, commands, troubles>> /\ snapshot = Nothing
    BY DEF Tick
<1>2. /\ \A j \in Jobs, d \in Drivers : stage[d][j] \notin {"reading", "writing"}
      /\ \A j \in Jobs : stage["loop"][j] \in {"boot", "asleep"} => left[j] > 0
    BY DEF Tick, Urgent, Inv, TypeOK
<1>3. uptime' \in 0 .. MinUptime /\ (uptime < MinUptime => uptime' = uptime + 1) /\ uptime \in 0 .. MinUptime
    BY DEF Inv, TypeOK, Tick
<1>4. /\ age' = Older(age) /\ since' = Older(since) /\ ran' = Older(ran)
      /\ left' = [j \in Jobs |-> IF left[j] > 0 THEN left[j] - 1 ELSE 0]
      /\ late' = [j \in Jobs |-> Later(j)]
    BY DEF Tick
<1>5. ASSUME NEW j \in Jobs
      PROVE  /\ age[j] \in Nat /\ since[j] \in Nat /\ ran[j] \in Nat /\ left[j] \in Nat /\ late[j] \in Nat
             /\ age[j] <= Interval[j] /\ since[j] <= Interval[j] /\ ran[j] <= age[j] /\ ran[j] <= since[j]
             /\ saved[j].age \in Nat /\ saved[j].age <= Interval[j] /\ ran[j] <= saved[j].age
             /\ saved[j].paused \in BOOLEAN
             /\ Interval[j] \in Nat \ {0} /\ ran[j] <= Interval[j]
    <2>1. age[j] \in Nat /\ since[j] \in Nat /\ ran[j] \in Nat /\ left[j] \in Nat /\ late[j] \in Nat
        BY DEF Inv, TypeOK
    <2>2. age[j] <= Interval[j] /\ since[j] <= Interval[j] /\ ran[j] <= since[j]
        BY DEF Inv, TypeOK, Clocks
    <2>3. saved[j] \in [paused : BOOLEAN, age : Nat] /\ saved[j].age <= Interval[j]
        BY DEF Inv, TypeOK, Records
    <2>4. age[j] >= ran[j] /\ saved[j].age >= ran[j]
        BY DEF Inv, NeverAhead
    <2>5. saved[j].age \in Nat /\ saved[j].paused \in BOOLEAN
        BY <2>3
    <2> QED
        BY <2>1, <2>2, <2>3, <2>4, <2>5
<1>6. ASSUME NEW j \in Jobs
      PROVE  /\ age'[j] \in Nat /\ since'[j] \in Nat /\ ran'[j] \in Nat
             /\ age'[j] <= Interval[j] /\ since'[j] <= Interval[j]
             /\ age'[j] >= ran'[j] /\ ran'[j] <= since'[j]
             /\ since'[j] = IF since[j] < Interval[j] THEN since[j] + 1 ELSE Interval[j]
             /\ ran'[j] = IF ran[j] < Interval[j] THEN ran[j] + 1 ELSE Interval[j]
             /\ age[j] <= since[j] => age'[j] <= since'[j]
    <2>1. /\ age'[j] \in Nat /\ since'[j] \in Nat /\ ran'[j] \in Nat
          /\ age'[j] <= Interval[j] /\ since'[j] <= Interval[j]
        BY <1>4, <1>5, OlderClock
    <2>2. ran'[j] <= age'[j] /\ ran'[j] <= since'[j]
        BY <1>4, <1>5, OlderKeepsOrder
    <2>3. /\ since'[j] = IF since[j] < Interval[j] THEN since[j] + 1 ELSE Interval[j]
          /\ ran'[j] = IF ran[j] < Interval[j] THEN ran[j] + 1 ELSE Interval[j]
        BY <1>4, <1>5, OlderClock
    <2>4. age[j] <= since[j] => age'[j] <= since'[j]
        BY <1>4, <1>5, OlderKeepsOrder
    <2> QED
        BY <2>1, <2>2, <2>3, <2>4
<1>7. /\ saved' \in Records
      /\ \A j \in Jobs : saved'[j].age >= ran'[j]
    <2> DEFINE ages == [k \in Jobs |-> saved[k].age]
    <2>1. \A j \in Jobs : saved'[j] = [paused |-> saved[j].paused, age |-> Older(ages)[j]]
        BY DEF Tick
    <2>2. ASSUME NEW j \in Jobs
          PROVE  Older(ages)[j] \in Nat /\ Older(ages)[j] <= Interval[j] /\ Older(ran)[j] <= Older(ages)[j]
        <3>1. ages[j] = saved[j].age
            OBVIOUS
        <3> HIDE DEF ages
        <3> QED
            BY <1>5, <3>1, OlderClock, OlderKeepsOrder
    <2> HIDE DEF ages
    <2>3. ASSUME NEW j \in Jobs
          PROVE  saved'[j] \in [paused : BOOLEAN, age : Nat] /\ saved'[j].age = Older(ages)[j]
        <3>1. Older(ages)[j] \in Nat /\ saved[j].paused \in BOOLEAN
            BY <1>5, <2>2
        <3>2. PICK b \in BOOLEAN, n \in Nat : b = saved[j].paused /\ n = Older(ages)[j]
            BY <3>1
        <3>3. saved'[j] = [paused |-> b, age |-> n]
            BY <2>1, <3>2
        <3> QED
            BY <3>2, <3>3
    <2>4. saved' \in [Jobs -> [paused : BOOLEAN, age : Nat]]
        BY <2>3 DEF Tick
    <2> QED
        BY <1>4, <1>6, <2>2, <2>3, <2>4 DEF Records
<1>8. ASSUME NEW j \in Jobs
      PROVE  /\ left'[j] \in Nat /\ left'[j] = IF left[j] > 0 THEN left[j] - 1 ELSE 0
             /\ late'[j] \in Nat
             /\ late'[j] = late[j] \/ (late'[j] = late[j] + 1 /\ ~ paused[j] /\ stage["loop"][j] \notin Busy)
    <2>1. late'[j] = Later(j) /\ left'[j] = IF left[j] > 0 THEN left[j] - 1 ELSE 0
        BY <1>4
    <2> QED
        BY <1>5, <2>1 DEF Later, Busy
<1>9. TypeOK'
    <2>1. age' \in [Jobs -> Nat] /\ since' \in [Jobs -> Nat] /\ ran' \in [Jobs -> Nat]
        BY <1>4, <1>6 DEF Older
    <2>2. left' \in [Jobs -> Nat] /\ late' \in [Jobs -> Nat]
        BY <1>4, <1>8
    <2> QED
        BY <1>1, <1>3, <1>6, <1>7, <2>1, <2>2 DEF Inv, TypeOK
<1>10. NeverAhead'
    BY <1>1, <1>2, <1>6, <1>7 DEF NeverAhead
<1>11. Clocks'
    BY <1>6 DEF Clocks
<1>12. SleepsEnough'
    <2>1. ASSUME NEW j \in Jobs, j \notin stale, stage["loop"][j] = "asleep"
          PROVE  left'[j] + since'[j] >= Interval[j]
        <3>1. left[j] + since[j] >= Interval[j] /\ left[j] > 0
            BY <1>2, <2>1 DEF Inv, SleepsEnough
        <3> QED
            BY <1>5, <1>6, <1>8, <3>1
    <2>2. ASSUME NEW j \in Jobs, j \notin stale, stage["loop"][j] = "boot" PROVE age'[j] <= since'[j]
        BY <1>6, <2>2 DEF Inv, SleepsEnough
    <2> QED
        BY <1>1, <2>1, <2>2 DEF SleepsEnough
<1>13. DelayBounded'
    <2>1. ASSUME NEW j \in Jobs, ran'[j] < Interval[j] PROVE late'[j] <= ran'[j]
        <3>1. ran[j] < Interval[j]
            BY <1>5, <1>6, <2>1
        <3>2. late[j] <= ran[j]
            BY <3>1 DEF Inv, DelayBounded
        <3> QED
            BY <1>5, <1>6, <1>8, <3>1, <3>2
    <2>2. ASSUME NEW j \in Jobs, paused[j] PROVE late'[j] <= Interval[j]
        BY <1>8, <2>2 DEF Inv, DelayBounded
    <2>3. ASSUME NEW j \in Jobs, stage["loop"][j] = "boot"
          PROVE  uptime' + left'[j] = BootDelay /\ late'[j] <= Interval[j] + uptime'
        <3>1. uptime + left[j] = BootDelay /\ late[j] <= Interval[j] + uptime /\ left[j] > 0
            BY <1>2, <2>3 DEF Inv, DelayBounded
        <3>2. uptime' = uptime + 1 /\ left'[j] = left[j] - 1
            BY <1>3, <1>5, <1>8, <3>1
        <3> QED
            BY <1>3, <1>5, <1>8, <3>1, <3>2
    <2>4. ASSUME NEW j \in Jobs, stage["loop"][j] = "asleep"
          PROVE  left'[j] <= Interval[j] /\ InTime(j)'
        <3>1. left[j] > 0 /\ left[j] <= Interval[j] /\ (paused[j] \/ late[j] + left[j] <= Interval[j])
            BY <1>2, <2>4 DEF Inv, DelayBounded, InTime
        <3>2. left'[j] <= Interval[j] /\ (paused[j] \/ late'[j] + left'[j] <= Interval[j])
            BY <1>5, <1>8, <3>1
        <3> QED
            BY <1>1, <3>2 DEF InTime
    <2>5. ASSUME NEW j \in Jobs, stage["loop"][j] \in Busy PROVE late'[j] = 0
        BY <1>8, <2>5 DEF Inv, DelayBounded
    <2> QED
        BY <1>1, <2>1, <2>2, <2>3, <2>4, <2>5 DEF Inv, DelayBounded
<1> QED
    BY <1>9, <1>10, <1>11, <1>12, <1>13 DEF Inv

\* A start: what it restores is no younger than the last run, and no job is
\* later than its interval when the host was up for the delay of a start.
LEMMA RestartStep == Inv /\ Restart => Inv'
<1> SUFFICES ASSUME Inv, Restart PROVE Inv'
    OBVIOUS
<1>1. UNCHANGED <<saved, told, since, ran, late, commands>> /\ snapshot' = Nothing /\ uptime' = 0
    BY DEF Restart
<1>2. troubles' \in 0 .. MaxTroubles
    BY TroublesBounded DEF Inv, TypeOK, Restart
<1>3. PICK record \in Records : Restore(record) /\ \A j \in Jobs : ran[j] <= record[j].age
    <2>1. \A j \in Jobs : Oldest(j) \in [paused : BOOLEAN, age : Nat] /\ Oldest(j).age = Interval[j]
        BY DEF Oldest
    <2>2. [j \in Jobs |-> Oldest(j)] \in Records
        <3>1. \A j \in Jobs : Oldest(j).age <= Interval[j]
            <4>1. \A j \in Jobs : Interval[j] <= Interval[j]
                OBVIOUS
            <4> QED
                BY <2>1, <4>1
        <3> QED
            BY <2>1, <3>1 DEF Records
    <2>3. ASSUME NEW j \in Jobs PROVE ran[j] <= Interval[j]
        <3>1. ran[j] \in Nat /\ since[j] \in Nat /\ ran[j] <= since[j] /\ since[j] <= Interval[j]
            BY DEF Inv, TypeOK, Clocks
        <3> QED
            BY <3>1
    <2>4. CASE Restore([j \in Jobs |-> Oldest(j)])
        BY <2>1, <2>2, <2>3, <2>4
    <2>5. CASE Restore(saved)
        <3>1. \A j \in Jobs : saved[j].age \in Nat /\ saved[j].age >= ran[j] /\ ran[j] \in Nat
            BY DEF Inv, TypeOK, NeverAhead, Records
        <3> QED
            BY <2>5, <3>1 DEF Inv, TypeOK
    <2> QED
        BY <2>4, <2>5 DEF Restart
<1>4. /\ paused' \in [Jobs -> BOOLEAN] /\ age' \in [Jobs -> Nat]
      /\ \A j \in Jobs : ran[j] <= age'[j] /\ age'[j] <= Interval[j]
    <2>1. \A j \in Jobs : record[j].paused \in BOOLEAN /\ record[j].age \in Nat /\ record[j].age <= Interval[j]
        BY DEF Records
    <2> QED
        BY <1>3, <2>1 DEF Restore
<1>5. /\ stage' \in [Drivers -> [Jobs -> {"boot", "off"}]]
      /\ \A j \in Jobs : stage'["loop"][j] = "boot"
      /\ left' \in [Jobs -> Nat] /\ \A j \in Jobs : left'[j] = BootDelay
      /\ copy' \in [Drivers -> [Jobs -> {Nothing}]]
    BY DEF Restart, Drivers
<1>6. stale' = {j \in Jobs : age'[j] > ran[j]}
    BY DEF Restart
<1>7. TypeOK'
    <2>1. /\ stage' \in [Drivers -> [Jobs -> {"off", "boot", "asleep", "calling", "reading", "writing"}]]
          /\ \A d \in Drivers, j \in Jobs : stage'[d][j] # "writing"
        BY <1>5
    <2>2. copy' \in [Drivers -> [Jobs -> Records \cup {Nothing}]]
        BY <1>5
    <2>3. stale' \subseteq Jobs /\ 0 \in 0 .. MinUptime
        BY <1>6
    <2> QED
        BY <1>1, <1>2, <1>4, <1>5, <2>1, <2>2, <2>3 DEF Inv, TypeOK
<1>8. NeverAhead'
    <2>1. \A j \in Jobs : age'[j] >= ran[j]
        BY <1>4 DEF Inv, TypeOK
    <2> QED
        BY <1>1, <1>5, <2>1 DEF Inv, NeverAhead
<1>9. SleepsEnough'
    <2>1. ASSUME NEW j \in Jobs, j \notin stale' PROVE age'[j] <= since[j]
        BY <1>4, <1>6, <2>1 DEF Inv, TypeOK, Clocks
    <2> QED
        BY <1>1, <1>5, <2>1 DEF SleepsEnough
<1>10. DelayBounded'
    <2>1. ASSUME NEW j \in Jobs PROVE late[j] <= Interval[j]
        <3>1. /\ late[j] \in Nat /\ left[j] \in Nat /\ uptime = MinUptime
              /\ stage["loop"][j] \in {"off", "boot", "asleep", "calling", "reading", "writing"}
            BY DEF Inv, TypeOK, Drivers, Restart
        <3>2. stage["loop"][j] # "boot" /\ ~ (uptime <= BootDelay)
            BY <3>1 DEF Inv, DelayBounded
        <3>3. CASE stage["loop"][j] = "asleep"
            BY <3>1, <3>2, <3>3 DEF Inv, DelayBounded, InTime
        <3>4. CASE stage["loop"][j] \in Busy
            BY <3>4 DEF Inv, DelayBounded
        <3> QED
            BY <3>1, <3>2, <3>3, <3>4 DEF Inv, DelayBounded, Busy
    <2>2. uptime' + BootDelay = BootDelay /\ \A j \in Jobs : Interval[j] + uptime' = Interval[j]
        BY <1>1
    <2> QED
        BY <1>1, <1>5, <2>1, <2>2 DEF Inv, DelayBounded, Busy
<1> QED
    BY <1>1, <1>7, <1>8, <1>9, <1>10 DEF Inv, Clocks

----------------------------------------------------------------------------
LEMMA InvStep == Inv /\ [Next]_vars => Inv'
<1> SUFFICES ASSUME Inv, [Next]_vars PROVE Inv'
    OBVIOUS
<1>1. CASE UNCHANGED vars
    <2>1. \A j \in Jobs : InTime(j)' <=> InTime(j)
        BY <1>1 DEF InTime, vars, memory, ghosts
    <2> QED
        BY <1>1, <2>1 DEF Inv, vars, memory, ghosts, TypeOK, NeverAhead, Clocks, SleepsEnough, DelayBounded
<1> QED
    BY <1>1, BootedStep, WakeStep, CalledStep, ReadStep, WriteStep, TriggerStep, SetPausedStep,
       ChatSetPausedStep, PersistStep, TickStep, RestartStep DEF Next, Step

LEMMA Invariant == Spec => []Inv
BY InvInit, InvStep, PTL DEF Spec

(* The jobs' state, in memory and in every copy of it, keeps its type.     *)
THEOREM TypeCorrect == Spec => []TypeOK
BY Invariant, PTL DEF Inv

(* No copy of a record that a GET, a SET or a restart may bring back is    *)
(* newer than the last run of its job.                                     *)
THEOREM RecordsNeverAhead == Spec => []NeverAhead
BY Invariant, PTL DEF Inv

(* A job that is not paused runs within its interval and the delay of a    *)
(* start, on a host that is up longer than that delay each time.           *)
THEOREM JobsNeverLate == Spec => []NeverLate
<1>1. Inv => NeverLate
    <2> SUFFICES ASSUME Inv, NEW j \in Jobs PROVE late[j] <= MostLate(j)
        BY DEF NeverLate
    <2>1. /\ late[j] \in Nat /\ left[j] \in Nat /\ uptime \in Nat
          /\ stage["loop"][j] \in {"off", "boot", "asleep", "calling", "reading", "writing"}
        BY DEF Inv, TypeOK, Drivers
    <2>2. CASE stage["loop"][j] = "boot"
        BY <2>1, <2>2 DEF Inv, DelayBounded, MostLate
    <2>3. CASE stage["loop"][j] = "asleep"
        BY <2>1, <2>3 DEF Inv, DelayBounded, InTime, MostLate
    <2>4. CASE stage["loop"][j] \in Busy
        BY <2>1, <2>4 DEF Inv, DelayBounded, MostLate
    <2> QED
        BY <2>1, <2>2, <2>3, <2>4 DEF Inv, DelayBounded, Busy
<1> QED
    BY <1>1, Invariant, PTL

(* A loop that wakes has slept until an interval was over since its last   *)
(* run, unless it started from a record that had lost a run.               *)
THEOREM NoRunIsEarly == Spec => NoEarlyRun
<1> DEFINE Early == \A j \in Jobs :
        stage["loop"][j] = "asleep" /\ stage'["loop"][j] = "calling"
            => since[j] = Interval[j] \/ j \in stale
<1>1. Inv /\ [Next]_vars => [Early]_vars
    <2> SUFFICES ASSUME Inv, [Next]_vars, vars' # vars, NEW j \in Jobs,
                        stage["loop"][j] = "asleep", stage'["loop"][j] = "calling", j \notin stale
                 PROVE  since[j] = Interval[j]
        OBVIOUS
    <2>1. left[j] = 0
        BY DEF Next, Step, Booted, Wake, Called, Read, Write, Rest, Trigger, SetPaused, ChatSetPaused,
           Persist, Tick, Restart, Inv, TypeOK, Drivers
    <2>2. left[j] + since[j] >= Interval[j] /\ since[j] <= Interval[j]
        BY DEF Inv, SleepsEnough, Clocks
    <2>3. since[j] \in Nat
        BY DEF Inv, TypeOK
    <2> QED
        BY <2>1, <2>2, <2>3
<1>2. Spec => [][Early]_vars
    BY <1>1, Invariant, PTL DEF Spec
<1> QED
    BY <1>2 DEF NoEarlyRun
=============================================================================
