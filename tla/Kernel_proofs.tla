--------------------------- MODULE Kernel_proofs ---------------------------
(***************************************************************************)
(* Proofs about Kernel for any tasks, events, capacities, time-outs and    *)
(* handlers: the inductive invariant KernelInv, and that semaphores and    *)
(* queues implement Exchange.                                              *)
(***************************************************************************)
EXTENDS Kernel, TLAPS, FiniteSetTheorems, WellFoundedInduction

\* A nonempty set of numbers up to M has a least one.
LEMMA HasLeast ==
  ASSUME NEW M \in Nat, NEW S, S \subseteq 0 .. M, S # {}
  PROVE  \E x \in S : \A y \in S : x <= y
  <1> DEFINE Below(x) == {z \in S : z < x}
             T == {Below(x) : x \in S}
  <1>1. IsFiniteSet(S)
    <2>1. IsFiniteSet(0 .. M)
      BY FS_Interval
    <2> QED BY <2>1, FS_Subset
  <1>2. T \subseteq FiniteSubsetsOf(S) /\ T # {}
    <2>1. FiniteSubsetsOf(S) = SUBSET S
      BY <1>1, FS_FiniteSubsetsOfFinite
    <2>2. \A u \in T : u \in SUBSET S
      OBVIOUS
    <2>3. PICK x \in S : TRUE
      OBVIOUS
    <2>4. Below(x) \in T
      OBVIOUS
    <2> HIDE DEF T
    <2> QED BY <2>1, <2>2, <2>4
  <1>3. PICK t \in T : \A u \in T : ~(<<u, t>> \in StrictSubsetOrdering(S))
    <2> HIDE DEF T
    <2> QED BY <1>1, <1>2, FS_StrictSubsetOrderingWellFounded, WFMin
  <1>4. PICK x \in S : t = Below(x)
    OBVIOUS
  <1>5. ASSUME NEW y \in S, ~(x <= y) PROVE FALSE
    <2>1. y < x /\ x \in Nat /\ y \in Nat
      BY <1>5
    <2>2. Below(y) \in T
      OBVIOUS
    <2>3. Below(y) \subseteq Below(x)
      <3>1. \A z \in S : z \in Nat
        OBVIOUS
      <3>2. \A z \in Below(y) : z \in S /\ z < x
        BY <2>1, <3>1
      <3> QED BY <3>2
    <2>4. y \in Below(x) /\ y \notin Below(y)
      BY <2>1
    <2>5. <<Below(y), t>> \in StrictSubsetOrdering(S)
      BY <1>4, <2>3, <2>4 DEF StrictSubsetOrdering
    <2> QED BY <1>3, <2>2, <2>5
  <1> QED BY <1>4, <1>5

\* Of any tasks one is the most urgent.
LEMMA HighestIsLeast ==
  ASSUME NEW S, S \subseteq Tasks \cup {Idle}, S # {}
  PROVE  Highest(S) \in S /\ \A u \in S : Highest(S) <= u
  <1>1. S \subseteq 0 .. Idle /\ Idle \in Nat
    BY KernelAssumption
  <1> QED BY <1>1, HasLeast DEF Highest

\* What is pushed lies on top of the rest.
LEMMA Pushed ==
  ASSUME NEW r, NEW T, r \in T, NEW s \in Seq(T), NEW q, q = <<r>> \o s
  PROVE  /\ q \in Seq(T) /\ Len(q) = Len(s) + 1 /\ q # <<>> /\ Head(q) = r /\ Tail(q) = s
         /\ \A n \in 1 .. Len(s) : q[Len(q) + 1 - n] = s[Len(s) + 1 - n]
         /\ q[1] = r
  OBVIOUS

\* A nonempty stack is its head on top of its tail.
LEMMA Popped ==
  ASSUME NEW T, NEW s \in Seq(T), s # <<>>
  PROVE  /\ Tail(s) \in Seq(T) /\ Len(Tail(s)) = Len(s) - 1 /\ Len(s) \in Nat \ {0}
         /\ Head(s) = s[1] /\ Head(s) \in T
         /\ \A n \in 1 .. Len(s) - 1 : Tail(s)[Len(s) - n] = s[Len(s) + 1 - n]
  OBVIOUS

-----------------------------------------------------------------------------
(* The inductive invariant *)

Marked(a, tc) ==
  /\ a \in {"run", "sched"} => tc.stat = "rdy" /\ tc.pend = "ok" /\ tc.ev = None
  /\ a \in {"pended", "back"} =>
       /\ tc.ev \in Events
       /\ tc.stat = "rdy" => tc.dly = 0
       /\ tc.stat = "rdy" /\ tc.pend = "ok" => tc.msg # None
  /\ tc.stat = "pend" => tc.pend = "ok"

\* A task's control block tells what it is doing.
StatusFits == \A t \in Tasks : Marked(at[t], tcb[t])

\* The handlers that have been counted, from the outermost.
CountedPlaces == {n \in 1 .. Len(isr) : isr[Len(isr) + 1 - n].at = "counted"}

\* OSIntNesting is their number.
NestingCounts == nesting = Cardinality(CountedPlaces)

KernelInv ==
  TypeOK /\ ListsAgree /\ StatusFits /\ NothingKeptFromWaiters /\ NestingCounts /\ HighestRuns

TcbType ==
  [stat : {"rdy", "pend"}, pend : {"ok", "to"}, dly : Nat,
   ev : Events \cup {None}, msg : AllContent \cup {None}]
IsrType == [h : Handlers \cup {Tick}, at : {"entered", "counted"}, todo : SUBSET Tasks]

\* What is known of a task that calls the kernel.
LEMMA Caller == ASSUME KernelInv, NEW t \in Tasks, Runs(t), at[t] \in {"run", "back"}
                PROVE  t \in rdy /\ tcb[t].stat = "rdy" /\ tcb[t].dly = 0
  <1>1. cur = Highest(rdy)
    BY DEF KernelInv, HighestRuns, Runs
  <1>2. cur \in rdy
    BY <1>1, HighestIsLeast DEF KernelInv, TypeOK
  <1> QED BY <1>2 DEF Runs, KernelInv, ListsAgree

LEMMA InitInv == Init => KernelInv
  <1> SUFFICES ASSUME Init PROVE KernelInv
    OBVIOUS
  <1> USE DEF Init
  <1>1. cur \in Tasks \cup {Idle} /\ cur = Highest(rdy)
    BY HighestIsLeast
  <1>2. Ready \in TcbType
    BY DEF Ready, TcbType
  <1>3. TypeOK
    <2>1. store \in [Events -> Seq(AllContent)] /\ isr \in Seq(IsrType) /\ nesting \in Nat
      OBVIOUS
    <2>2. wait \in [Events -> SUBSET Tasks] /\ tcb \in [Tasks -> TcbType]
      BY <1>2
    <2> QED BY <1>1, <2>1, <2>2 DEF TypeOK, TcbType, IsrType
  <1>4. ListsAgree /\ StatusFits /\ NothingKeptFromWaiters /\ HighestRuns
    BY <1>1, KernelAssumption DEF ListsAgree, StatusFits, Marked, NothingKeptFromWaiters, HighestRuns, Ready
  <1>5. NestingCounts
    <2>1. CountedPlaces = {}
      BY DEF CountedPlaces
    <2> QED BY <2>1, FS_EmptySet DEF NestingCounts
  <1> QED BY <1>3, <1>4, <1>5 DEF KernelInv

\* The handlers' part of the invariant.
LEMMA StackKept == ASSUME KernelInv, UNCHANGED <<isr, nesting>> PROVE NestingCounts'
  BY DEF KernelInv, NestingCounts, CountedPlaces

LEMMA TakeInv == ASSUME KernelInv, NEW t \in Tasks, NEW e \in Events, Take(t, e) PROVE KernelInv'
  <1> USE DEF KernelInv, Take
  <1>1. store' \in [Events -> Seq(AllContent)]
    BY DEF TypeOK
  <1>2. TypeOK'
    BY <1>1 DEF TypeOK
  <1>3. ListsAgree' /\ StatusFits' /\ HighestRuns'
    BY DEF ListsAgree, StatusFits, Marked, HighestRuns
  <1>4. NothingKeptFromWaiters'
    BY DEF NothingKeptFromWaiters, TypeOK
  <1> QED BY <1>2, <1>3, <1>4, StackKept

LEMMA PendInv == ASSUME KernelInv, NEW t \in Tasks, NEW e \in Events, NEW n \in Timeouts, Pend(t, e, n)
                 PROVE  KernelInv'
  <1> USE DEF KernelInv, Pend, Calls
  <1> DEFINE tc == [stat |-> "pend", pend |-> "ok", dly |-> n, ev |-> e, msg |-> None]
  <1>1. tc \in TcbType
    BY KernelAssumption DEF TcbType
  <1>2. tcb' \in [Tasks -> TcbType] /\ tcb'[t] = tc /\ \A u \in Tasks \ {t} : tcb'[u] = tcb[u]
    BY <1>1 DEF TypeOK, TcbType
  <1>3. at' \in [Tasks -> {"run", "sched", "pended", "back"}] /\ at'[t] = "pended"
        /\ \A u \in Tasks \ {t} : at'[u] = at[u]
    BY DEF TypeOK
  <1>4. wait' \in [Events -> SUBSET Tasks] /\ wait'[e] = wait[e] \cup {t}
        /\ \A f \in Events \ {e} : wait'[f] = wait[f]
    BY DEF TypeOK
  <1>5. t # Idle
    BY KernelAssumption
  <1>6. TypeOK'
    BY <1>2, <1>3, <1>4, <1>5 DEF TypeOK, TcbType
  <1>7. ListsAgree'
    <2>1. \A f \in Events : t \notin wait[f]
      BY KernelAssumption DEF ListsAgree, StatusFits, Marked
    <2> SUFFICES ASSUME NEW u \in Tasks
                 PROVE  /\ u \in rdy' <=> tcb'[u].stat = "rdy" /\ tcb'[u].dly = 0
                        /\ \A f \in Events :
                             u \in wait'[f] <=> tcb'[u].ev = f /\ (tcb'[u].stat = "pend" \/ tcb'[u].pend = "to")
      BY DEF ListsAgree
    <2>2. CASE u = t
      BY <2>1, <2>2, <1>2, <1>4
    <2>3. CASE u # t
      BY <2>3, <1>2, <1>4 DEF ListsAgree
    <2> QED BY <2>2, <2>3
  <1>8. StatusFits'
    BY <1>2, <1>3 DEF StatusFits, Marked
  <1>9. NothingKeptFromWaiters'
    BY <1>4 DEF NothingKeptFromWaiters
  <1>10. HighestRuns'
    BY <1>3 DEF HighestRuns, Runs
  <1> QED BY <1>6, <1>7, <1>8, <1>9, <1>10, StackKept

LEMMA PendReturnsInv == ASSUME KernelInv, NEW t \in Tasks, PendReturns(t) PROVE KernelInv'
  <1> USE DEF KernelInv, PendReturns
  <1>1. t \in rdy /\ tcb[t].stat = "rdy" /\ tcb[t].dly = 0
    BY Caller
  <1>2. tcb[t].ev \in Events /\ tcb[t] \in TcbType
    BY DEF StatusFits, Marked, TypeOK, TcbType
  <1>3. Ready \in TcbType
    BY DEF Ready, TcbType
  <1>4. tcb' \in [Tasks -> TcbType] /\ tcb'[t] = Ready /\ \A u \in Tasks \ {t} : tcb'[u] = tcb[u]
    BY <1>3 DEF TypeOK, TcbType
  <1>5. at' \in [Tasks -> {"run", "sched", "pended", "back"}] /\ at'[t] = "run"
        /\ \A u \in Tasks \ {t} : at'[u] = at[u]
    BY DEF TypeOK
  <1>6. /\ wait' \in [Events -> SUBSET Tasks]
        /\ \A f \in Events : t \notin wait'[f] /\ \A u \in Tasks \ {t} : u \in wait'[f] <=> u \in wait[f]
    <2>1. CASE tcb[t].pend = "ok"
      BY <2>1, <1>1 DEF ListsAgree, TypeOK
    <2>2. CASE tcb[t].pend = "to"
      <3>1. wait \in [Events -> SUBSET Tasks] /\ wait' = [wait EXCEPT ![tcb[t].ev] = @ \ {t}]
        BY <2>2 DEF TypeOK
      <3>2. \A f \in Events : f # tcb[t].ev => t \notin wait[f]
        BY DEF ListsAgree
      <3> QED BY ONLY <3>1, <3>2, <1>2, t \in Tasks
    <2> QED BY <2>1, <2>2, <1>2 DEF TcbType
  <1>7. TypeOK'
    BY <1>4, <1>5, <1>6 DEF TypeOK, TcbType
  <1>8. ListsAgree'
    <2> SUFFICES ASSUME NEW u \in Tasks
                 PROVE  /\ u \in rdy' <=> tcb'[u].stat = "rdy" /\ tcb'[u].dly = 0
                        /\ \A f \in Events :
                             u \in wait'[f] <=> tcb'[u].ev = f /\ (tcb'[u].stat = "pend" \/ tcb'[u].pend = "to")
      BY DEF ListsAgree
    <2>1. CASE u = t
      BY <2>1, <1>1, <1>4, <1>6 DEF Ready
    <2>2. CASE u # t
      BY <2>2, <1>4, <1>6 DEF ListsAgree
    <2> QED BY <2>1, <2>2
  <1>9. StatusFits'
    BY <1>4, <1>5 DEF StatusFits, Marked, Ready
  <1>10. NothingKeptFromWaiters'
    <2> SUFFICES ASSUME NEW f \in Events, wait'[f] # {} PROVE store[f] = <<>>
      BY DEF NothingKeptFromWaiters
    <2>1. PICK u \in Tasks : u \in wait'[f]
      BY <1>6
    <2>2. u \in wait[f]
      BY <1>6, <2>1
    <2> QED BY <2>2 DEF NothingKeptFromWaiters
  <1>11. HighestRuns'
    BY <1>5 DEF HighestRuns, Runs
  <1> QED BY <1>7, <1>8, <1>9, <1>10, <1>11, StackKept

LEMMA TimeDlyInv == ASSUME KernelInv, NEW t \in Tasks, NEW n \in Delays, TimeDly(t, n) PROVE KernelInv'
  <1> USE DEF KernelInv, TimeDly, Calls
  <1>1. n \in Nat \ {0} /\ t # Idle
    BY KernelAssumption
  <1>2. /\ tcb' \in [Tasks -> TcbType] /\ \A u \in Tasks \ {t} : tcb'[u] = tcb[u]
        /\ tcb'[t].stat = tcb[t].stat /\ tcb'[t].pend = tcb[t].pend /\ tcb'[t].ev = tcb[t].ev
        /\ tcb'[t].dly = n
    BY <1>1 DEF TypeOK, TcbType
  <1>3. at' \in [Tasks -> {"run", "sched", "pended", "back"}] /\ at'[t] = "sched"
        /\ \A u \in Tasks \ {t} : at'[u] = at[u]
    BY DEF TypeOK
  <1>4. TypeOK'
    BY <1>1, <1>2, <1>3 DEF TypeOK, TcbType
  <1>5. ListsAgree'
    <2> SUFFICES ASSUME NEW u \in Tasks
                 PROVE  /\ u \in rdy' <=> tcb'[u].stat = "rdy" /\ tcb'[u].dly = 0
                        /\ \A f \in Events :
                             u \in wait'[f] <=> tcb'[u].ev = f /\ (tcb'[u].stat = "pend" \/ tcb'[u].pend = "to")
      BY DEF ListsAgree
    <2>1. CASE u = t
      BY <2>1, <1>1, <1>2 DEF ListsAgree
    <2>2. CASE u # t
      BY <2>2, <1>2 DEF ListsAgree
    <2> QED BY <2>1, <2>2
  <1>6. StatusFits'
    BY <1>2, <1>3 DEF StatusFits, Marked
  <1>7. NothingKeptFromWaiters' /\ HighestRuns'
    BY <1>3 DEF NothingKeptFromWaiters, HighestRuns, Runs
  <1> QED BY <1>4, <1>5, <1>6, <1>7, StackKept

\* A post from anywhere, whatever the poster does next.
LEMMA PostInv ==
  ASSUME KernelInv, NEW e \in Events, NEW m \in Content[e], Post(e, m),
         at' \in [Tasks -> {"run", "sched", "pended", "back"}],
         \A t \in Tasks : at'[t] = at[t] \/ (at[t] = "run" /\ at'[t] = "sched")
  PROVE  /\ rdy' \subseteq Tasks \cup {Idle} /\ Idle \in rdy'
         /\ tcb' \in [Tasks -> TcbType]
         /\ wait' \in [Events -> SUBSET Tasks] /\ store' \in [Events -> Seq(AllContent)]
         /\ ListsAgree' /\ StatusFits' /\ NothingKeptFromWaiters'
  <1> USE DEF KernelInv
  <1>1. CASE wait[e] # {} /\ EventTaskRdy(e, m) /\ UNCHANGED store
    <2> DEFINE h == Highest(wait[e])
               tc == [stat |-> "rdy", pend |-> "ok", dly |-> 0, ev |-> e, msg |-> m]
    <2>1. h \in wait[e] /\ h \in Tasks
      BY <1>1, HighestIsLeast DEF TypeOK
    <2>2. at[h] \in {"pended", "back"} /\ at'[h] = at[h]
      BY <2>1, KernelAssumption DEF ListsAgree, StatusFits, Marked, TypeOK
    <2>3. tc \in TcbType /\ m # None
      BY KernelAssumption DEF TcbType, AllContent
    <2>4. tcb' \in [Tasks -> TcbType] /\ tcb'[h] = tc /\ \A u \in Tasks \ {h} : tcb'[u] = tcb[u]
      BY <1>1, <2>1, <2>3 DEF EventTaskRdy, TypeOK, TcbType
    <2>5. wait' \in [Events -> SUBSET Tasks] /\ wait'[e] = wait[e] \ {h}
          /\ \A f \in Events \ {e} : wait'[f] = wait[f]
      BY <1>1 DEF EventTaskRdy, TypeOK
    <2>6. rdy' = rdy \cup {h}
      BY <1>1 DEF EventTaskRdy
    <2> HIDE DEF h
    <2>7. ListsAgree'
      <3> SUFFICES ASSUME NEW u \in Tasks
                   PROVE  /\ u \in rdy' <=> tcb'[u].stat = "rdy" /\ tcb'[u].dly = 0
                          /\ \A f \in Events :
                               u \in wait'[f] <=> tcb'[u].ev = f /\ (tcb'[u].stat = "pend" \/ tcb'[u].pend = "to")
        BY DEF ListsAgree
      <3>1. CASE u = h
        <4>1. \A f \in Events \ {e} : u \notin wait[f]
          BY <3>1, <2>1 DEF ListsAgree
        <4> QED BY <3>1, <4>1, <2>4, <2>5, <2>6
      <3>2. CASE u # h
        BY <3>2, <2>4, <2>5, <2>6 DEF ListsAgree
      <3> QED BY <3>1, <3>2
    <2>8. StatusFits'
      <3> SUFFICES ASSUME NEW u \in Tasks PROVE Marked(at'[u], tcb'[u])
        BY DEF StatusFits
      <3>1. CASE u = h
        BY <3>1, <2>2, <2>3, <2>4 DEF Marked
      <3>2. CASE u # h
        BY <3>2, <2>4 DEF StatusFits, Marked
      <3> QED BY <3>1, <3>2
    <2>9. NothingKeptFromWaiters'
      BY <1>1, <2>5 DEF NothingKeptFromWaiters
    <2> QED BY <1>1, <2>1, <2>4, <2>5, <2>6, <2>7, <2>8, <2>9 DEF TypeOK
  <1>2. CASE wait[e] = {} /\ UNCHANGED <<rdy, tcb, wait>>
             /\ store' = IF Len(store[e]) < Capacity[e] THEN [store EXCEPT ![e] = Append(@, m)] ELSE store
    <2>1. /\ store' \in [Events -> Seq(AllContent)]
          /\ \A f \in Events \ {e} : store'[f] = store[f]
      <3>1. m \in AllContent
        BY DEF AllContent
      <3> QED BY <1>2, <3>1 DEF TypeOK
    <2>2. ListsAgree'
      BY <1>2 DEF ListsAgree
    <2>3. StatusFits'
      <3> SUFFICES ASSUME NEW u \in Tasks PROVE Marked(at'[u], tcb[u])
        BY <1>2 DEF StatusFits
      <3> QED BY DEF StatusFits, Marked
    <2>4. NothingKeptFromWaiters'
      BY <1>2, <2>1 DEF NothingKeptFromWaiters
    <2> QED BY <1>2, <2>1, <2>2, <2>3, <2>4 DEF TypeOK, TcbType
  <1> QED BY <1>1, <1>2 DEF Post

LEMMA TaskPostsInv ==
  ASSUME KernelInv, NEW t \in Tasks, NEW e \in Events, NEW m \in Content[e], TaskPosts(t, e, m)
  PROVE  KernelInv'
  <1> USE DEF TaskPosts, Calls
  <1>1. /\ at' \in [Tasks -> {"run", "sched", "pended", "back"}]
        /\ at'[t] = IF wait[e] # {} THEN "sched" ELSE "run"
        /\ \A u \in Tasks : u # t => at'[u] = at[u]
    BY DEF KernelInv, TypeOK
  <1>2. \A u \in Tasks : at'[u] = at[u] \/ (at[u] = "run" /\ at'[u] = "sched")
    BY <1>1
  <1>3. /\ rdy' \subseteq Tasks \cup {Idle} /\ Idle \in rdy'
        /\ tcb' \in [Tasks -> TcbType]
        /\ wait' \in [Events -> SUBSET Tasks] /\ store' \in [Events -> Seq(AllContent)]
        /\ ListsAgree' /\ StatusFits' /\ NothingKeptFromWaiters'
    BY <1>1, <1>2, PostInv
  <1>4. TypeOK'
    BY <1>1, <1>3 DEF KernelInv, TypeOK, TcbType
  <1>5. HighestRuns'
    <2>1. CASE wait[e] # {}
      BY <2>1, <1>1 DEF HighestRuns, Runs
    <2>2. CASE wait[e] = {}
      BY <2>2, <1>1 DEF HighestRuns, Runs, Post, KernelInv
    <2> QED BY <2>1, <2>2
  <1> QED BY <1>3, <1>4, <1>5, StackKept DEF KernelInv

LEMMA HandlerPostsInv ==
  ASSUME KernelInv, NEW e \in Events, NEW m \in Content[e], HandlerPosts(e, m)
  PROVE  KernelInv'
  <1> USE DEF HandlerPosts
  <1>1. /\ rdy' \subseteq Tasks \cup {Idle} /\ Idle \in rdy'
        /\ tcb' \in [Tasks -> TcbType]
        /\ wait' \in [Events -> SUBSET Tasks] /\ store' \in [Events -> Seq(AllContent)]
        /\ ListsAgree' /\ StatusFits' /\ NothingKeptFromWaiters'
    <2>1. at' \in [Tasks -> {"run", "sched", "pended", "back"}] /\ at' = at
      BY DEF KernelInv, TypeOK
    <2> QED BY <2>1, PostInv
  <1>2. TypeOK'
    BY <1>1 DEF KernelInv, TypeOK, TcbType
  <1>3. HighestRuns'
    BY DEF HighestRuns, Handling
  <1> QED BY <1>1, <1>2, <1>3, StackKept DEF KernelInv

\* A step that leaves the kernel's lists and the tasks' places in a call alone.
LEMMA ListsKept ==
  ASSUME KernelInv, UNCHANGED <<kernel, at>>
  PROVE  ListsAgree' /\ StatusFits' /\ NothingKeptFromWaiters'
  BY DEF KernelInv, kernel, ListsAgree, StatusFits, Marked, NothingKeptFromWaiters

LEMMA SchedInv == ASSUME KernelInv, NEW t \in Tasks, Sched(t) PROVE KernelInv'
  <1> USE DEF KernelInv, Sched, kernel
  <1>1. /\ at' \in [Tasks -> {"run", "sched", "pended", "back"}]
        /\ at'[t] = IF at[t] = "sched" THEN "run" ELSE "back"
        /\ \A u \in Tasks \ {t} : at'[u] = at[u]
    BY DEF TypeOK
  <1>2. high' = Highest(rdy) /\ high' \in Tasks \cup {Idle} /\ pendsv' = (high' # cur)
    BY HighestIsLeast DEF Schedules, Runs, TypeOK
  <1>3. TypeOK'
    BY <1>1, <1>2 DEF TypeOK
  <1>4. StatusFits'
    BY <1>1 DEF StatusFits, Marked
  <1>5. ListsAgree' /\ NothingKeptFromWaiters'
    BY DEF ListsAgree, NothingKeptFromWaiters
  <1>6. HighestRuns'
    BY <1>2 DEF HighestRuns
  <1> QED BY <1>3, <1>4, <1>5, <1>6, StackKept

LEMMA PendSVInv == ASSUME KernelInv, PendSV PROVE KernelInv'
  <1>1. ListsAgree' /\ StatusFits' /\ NothingKeptFromWaiters'
    BY ListsKept DEF PendSV
  <1>2. TypeOK' /\ HighestRuns'
    BY DEF PendSV, kernel, KernelInv, TypeOK, HighestRuns
  <1> QED BY <1>1, <1>2, StackKept DEF KernelInv, PendSV

\* What becomes of the handlers that are counted.
LEMMA CountedFinite == ASSUME KernelInv PROVE IsFiniteSet(CountedPlaces) /\ nesting \in Nat
  <1>1. IsFiniteSet(1 .. Len(isr))
    BY FS_Interval DEF KernelInv, TypeOK
  <1>2. CountedPlaces \in SUBSET (1 .. Len(isr))
    BY DEF CountedPlaces
  <1> QED BY <1>1, <1>2, FS_Subset DEF KernelInv, TypeOK

LEMMA EnterInv == ASSUME KernelInv, NEW h \in Handlers \cup {Tick}, Enter(h) PROVE KernelInv'
  <1> DEFINE r == [h |-> h, at |-> "entered", todo |-> {}]
  <1>1. r \in IsrType /\ isr \in Seq(IsrType)
    BY DEF IsrType, KernelInv, TypeOK
  <1>2. /\ isr' \in Seq(IsrType) /\ Len(isr') = Len(isr) + 1 /\ isr'[1] = r /\ isr' # <<>>
        /\ \A n \in 1 .. Len(isr) : isr'[Len(isr') + 1 - n] = isr[Len(isr) + 1 - n]
    BY <1>1, Pushed DEF Enter
  <1>3. ListsAgree' /\ StatusFits' /\ NothingKeptFromWaiters'
    BY ListsKept DEF Enter
  <1>4. TypeOK' /\ HighestRuns'
    BY <1>2 DEF Enter, kernel, KernelInv, TypeOK, HighestRuns, IsrType
  <1>5. NestingCounts'
    <2>1. Len(isr) \in Nat
      BY <1>1
    <2>2. isr'[Len(isr') + 1 - (Len(isr) + 1)].at # "counted"
      BY <1>2, <2>1
    <2>3. \A n : n \in 1 .. Len(isr') <=> n \in 1 .. Len(isr) \/ n = Len(isr) + 1
      BY <1>2, <2>1
    <2>4. CountedPlaces' = CountedPlaces
      BY <1>2, <2>2, <2>3 DEF CountedPlaces
    <2> QED BY <2>4 DEF NestingCounts, KernelInv, Enter
  <1> QED BY <1>3, <1>4, <1>5 DEF KernelInv

LEMMA CountInv == ASSUME KernelInv, Count PROVE KernelInv'
  <1> DEFINE r == [Head(isr) EXCEPT !.at = "counted", !.todo = IF Head(isr).h = Tick THEN Tasks ELSE {}]
  <1>1. isr \in Seq(IsrType) /\ isr # <<>> /\ Head(isr).at = "entered"
    BY DEF KernelInv, TypeOK, IsrType, Count
  <1>2. /\ Tail(isr) \in Seq(IsrType) /\ Len(Tail(isr)) = Len(isr) - 1 /\ Len(isr) \in Nat \ {0}
        /\ Head(isr) = isr[1] /\ Head(isr) \in IsrType
        /\ \A n \in 1 .. Len(isr) - 1 : Tail(isr)[Len(isr) - n] = isr[Len(isr) + 1 - n]
    BY <1>1, Popped
  <1>3. r \in IsrType /\ r.at = "counted"
    BY <1>2 DEF IsrType
  <1>4. isr' = <<r>> \o Tail(isr)
    BY DEF Count
  <1> HIDE DEF r
  <1>5. /\ isr' \in Seq(IsrType) /\ Len(isr') = Len(isr) /\ isr'[1] = r /\ isr' # <<>>
        /\ \A n \in 1 .. Len(isr) - 1 : isr'[Len(isr) + 1 - n] = isr[Len(isr) + 1 - n]
    BY <1>2, <1>3, <1>4, Pushed
  <1>6. ListsAgree' /\ StatusFits' /\ NothingKeptFromWaiters'
    BY ListsKept DEF Count
  <1>7. TypeOK' /\ HighestRuns'
    BY <1>5 DEF Count, kernel, KernelInv, TypeOK, HighestRuns, IsrType
  <1>8. NestingCounts'
    <2>1. Len(isr) \notin CountedPlaces
      BY <1>1, <1>2 DEF CountedPlaces
    <2>2. CountedPlaces' = CountedPlaces \cup {Len(isr)}
      BY <1>2, <1>3, <1>5 DEF CountedPlaces
    <2>3. nesting' = nesting + 1
      BY DEF Count
    <2> QED BY <2>1, <2>2, <2>3, CountedFinite, FS_AddElement DEF NestingCounts, KernelInv
  <1> QED BY <1>6, <1>7, <1>8 DEF KernelInv

LEMMA TickTaskInv == ASSUME KernelInv, NEW t \in Tasks, TickTask(t) PROVE KernelInv'
  <1> DEFINE r == [Head(isr) EXCEPT !.todo = @ \ {t}]
  <1>1. isr \in Seq(IsrType) /\ isr # <<>>
    BY DEF KernelInv, TypeOK, IsrType, TickTask, Handling
  <1>2. /\ Tail(isr) \in Seq(IsrType) /\ Len(Tail(isr)) = Len(isr) - 1 /\ Len(isr) \in Nat \ {0}
        /\ Head(isr) = isr[1] /\ Head(isr) \in IsrType
        /\ \A n \in 1 .. Len(isr) - 1 : Tail(isr)[Len(isr) - n] = isr[Len(isr) + 1 - n]
    BY <1>1, Popped
  <1>3. r \in IsrType /\ r.at = isr[1].at
    BY <1>2 DEF IsrType
  <1>4. isr' = <<r>> \o Tail(isr)
    BY DEF TickTask
  <1> HIDE DEF r
  <1>5. /\ isr' \in Seq(IsrType) /\ Len(isr') = Len(isr) /\ isr'[1] = r /\ isr' # <<>>
        /\ \A n \in 1 .. Len(isr) - 1 : isr'[Len(isr) + 1 - n] = isr[Len(isr) + 1 - n]
    BY <1>2, <1>3, <1>4, Pushed
  <1>6. tcb[t] \in TcbType
    BY DEF KernelInv, TypeOK, TcbType
  <1>7. Ticked(tcb[t]) \in TcbType
    <2>1. CASE tcb[t].dly = 0
      BY <1>6, <2>1 DEF Ticked
    <2>2. CASE tcb[t].dly > 1
      <3>1. tcb[t].dly - 1 \in Nat
        BY <1>6, <2>2 DEF TcbType
      <3> QED BY <1>6, <2>2, <3>1 DEF Ticked, TcbType
    <2>3. CASE tcb[t].dly = 1
      <3> DEFINE p == IF tcb[t].stat = "pend" THEN "to" ELSE "ok"
      <3>1. Ticked(tcb[t]) = [tcb[t] EXCEPT !.dly = 0, !.stat = "rdy", !.pend = p] /\ p \in {"ok", "to"}
        BY <2>3 DEF Ticked
      <3>2. Ticked(tcb[t]) = [stat |-> "rdy", pend |-> p, dly |-> 0, ev |-> tcb[t].ev, msg |-> tcb[t].msg]
        <4> HIDE DEF p
        <4> QED BY <1>6, <3>1, Zenon DEF TcbType
      <3> HIDE DEF p
      <3> QED BY <1>6, <3>1, <3>2 DEF TcbType
    <2> QED BY <1>6, <2>1, <2>2, <2>3 DEF TcbType
  <1>8. tcb' \in [Tasks -> TcbType] /\ tcb'[t] = Ticked(tcb[t]) /\ \A u \in Tasks \ {t} : tcb'[u] = tcb[u]
    BY <1>7 DEF KernelInv, TypeOK, TcbType, TickTask
  <1>9. rdy' = IF tcb[t].dly = 1 THEN rdy \cup {t} ELSE rdy
    BY DEF TickTask
  <1>10. UNCHANGED <<wait, store, cur, high, pendsv, nesting, at>>
    BY DEF TickTask
  <1>11. TypeOK'
    BY <1>5, <1>8, <1>9, <1>10 DEF KernelInv, TypeOK, TcbType, IsrType
  <1>12. ListsAgree'
    <2> SUFFICES ASSUME NEW u \in Tasks
                 PROVE  /\ u \in rdy' <=> tcb'[u].stat = "rdy" /\ tcb'[u].dly = 0
                        /\ \A f \in Events :
                             u \in wait[f] <=> tcb'[u].ev = f /\ (tcb'[u].stat = "pend" \/ tcb'[u].pend = "to")
      BY <1>10 DEF ListsAgree
    <2>1. CASE u # t
      BY <2>1, <1>8, <1>9 DEF KernelInv, ListsAgree
    <2>2. CASE u = t
      <3>1. /\ t \in rdy <=> tcb[t].stat = "rdy" /\ tcb[t].dly = 0
            /\ \A f \in Events :
                 t \in wait[f] <=> tcb[t].ev = f /\ (tcb[t].stat = "pend" \/ tcb[t].pend = "to")
        BY DEF KernelInv, ListsAgree
      <3>2. tcb[t].stat = "pend" => tcb[t].pend = "ok"
        BY DEF KernelInv, StatusFits, Marked
      <3>3. tcb[t].stat = "rdy" /\ tcb[t].dly # 0 => tcb[t].pend = "ok"
        BY DEF KernelInv, StatusFits, Marked, TypeOK
      <3>4. CASE tcb[t].dly = 0
        BY <2>2, <3>1, <3>4, <1>8, <1>9 DEF Ticked
      <3>5. CASE tcb[t].dly > 1
        BY <2>2, <3>1, <3>5, <1>6, <1>8, <1>9 DEF Ticked, TcbType
      <3>6. CASE tcb[t].dly = 1
        BY <2>2, <3>1, <3>2, <3>3, <3>6, <1>6, <1>8, <1>9 DEF Ticked, TcbType
      <3> QED BY <3>4, <3>5, <3>6, <1>6 DEF TcbType
    <2> QED BY <2>1, <2>2
  <1>13. StatusFits'
    <2> SUFFICES ASSUME NEW u \in Tasks PROVE Marked(at[u], tcb'[u])
      BY <1>10 DEF StatusFits
    <2>1. Marked(at[u], tcb[u])
      BY DEF KernelInv, StatusFits
    <2>2. CASE u = t
      BY <2>1, <2>2, <1>6, <1>8 DEF Marked, Ticked, TcbType
    <2> QED BY <2>1, <2>2, <1>8
  <1>14. NothingKeptFromWaiters'
    BY <1>10 DEF KernelInv, NothingKeptFromWaiters
  <1>15. HighestRuns'
    BY <1>5 DEF HighestRuns
  <1>16. NestingCounts'
    <2>1. isr'[Len(isr) + 1 - Len(isr)].at = isr[Len(isr) + 1 - Len(isr)].at
      BY <1>2, <1>3, <1>5
    <2>2. \A n \in 1 .. Len(isr) : isr'[Len(isr) + 1 - n].at = isr[Len(isr) + 1 - n].at
      BY <1>2, <1>5, <2>1
    <2>3. CountedPlaces' = CountedPlaces
      BY <1>5, <2>2 DEF CountedPlaces
    <2> QED BY <1>10, <2>3 DEF NestingCounts, KernelInv
  <1> QED BY <1>11, <1>12, <1>13, <1>14, <1>15, <1>16 DEF KernelInv

LEMMA LeaveInv == ASSUME KernelInv, Leave PROVE KernelInv'
  <1>1. isr \in Seq(IsrType) /\ isr # <<>> /\ Head(isr).at = "counted"
    BY DEF KernelInv, TypeOK, IsrType, Leave, Handling
  <1>2. /\ Tail(isr) \in Seq(IsrType) /\ Len(Tail(isr)) = Len(isr) - 1 /\ Len(isr) \in Nat \ {0}
        /\ Head(isr) = isr[1] /\ Head(isr) \in IsrType
        /\ \A n \in 1 .. Len(isr) - 1 : Tail(isr)[Len(isr) - n] = isr[Len(isr) + 1 - n]
    BY <1>1, Popped
  <1>3. isr' = Tail(isr) /\ nesting' = nesting - 1 /\ UNCHANGED <<kernel, cur, at>>
    BY DEF Leave
  <1>4. Len(isr) \in CountedPlaces
    BY <1>1, <1>2 DEF CountedPlaces
  <1>5. NestingCounts' /\ nesting' \in Nat
    <2>1. CountedPlaces' = CountedPlaces \ {Len(isr)}
      <3>1. \A n \in 1 .. Len(isr) - 1 : isr'[Len(isr') + 1 - n] = isr[Len(isr) + 1 - n]
        BY <1>2, <1>3
      <3>2. Len(isr') = Len(isr) - 1
        BY <1>2, <1>3
      <3>3. \A n : n \in 1 .. Len(isr') <=> n \in 1 .. Len(isr) /\ n # Len(isr)
        BY <1>2, <3>2
      <3> QED BY <1>2, <3>1, <3>2, <3>3 DEF CountedPlaces
    <2>2. IsFiniteSet(CountedPlaces) /\ nesting = Cardinality(CountedPlaces)
      BY CountedFinite DEF KernelInv, NestingCounts
    <2>3. nesting' = Cardinality(CountedPlaces') /\ IsFiniteSet(CountedPlaces')
      BY <1>3, <1>4, <2>1, <2>2, FS_RemoveElement
    <2> QED BY <2>3, FS_CardinalityType DEF NestingCounts
  <1>6. ListsAgree' /\ StatusFits' /\ NothingKeptFromWaiters'
    BY <1>3, ListsKept
  <1>7. Highest(rdy) \in Tasks \cup {Idle}
    BY HighestIsLeast DEF KernelInv, TypeOK
  <1>8. TypeOK'
    <2>1. high' \in Tasks \cup {Idle} /\ pendsv' \in BOOLEAN
      BY <1>7 DEF Leave, Schedules, KernelInv, TypeOK
    <2> QED BY <1>2, <1>3, <1>5, <2>1 DEF kernel, KernelInv, TypeOK, IsrType
  <1>9. HighestRuns'
    <2> SUFFICES ASSUME isr' = <<>> PROVE HighestRuns'
      BY DEF HighestRuns
    <2>1. Len(isr) = 1
      <3>1. Len(isr') = 0
        OBVIOUS
      <3>2. Len(isr') = Len(isr) - 1 /\ Len(isr) \in Nat
        BY <1>2, <1>3
      <3> QED BY <3>1, <3>2
    <2>2. CountedPlaces = {1}
      BY <1>4, <2>1 DEF CountedPlaces
    <2>3. nesting = 1
      BY <2>2, FS_Singleton DEF KernelInv, NestingCounts
    <2>4. high' = Highest(rdy) /\ pendsv' = (pendsv \/ high' # cur)
      BY <2>3 DEF Leave, Schedules
    <2> QED BY <1>3, <2>4 DEF kernel, HighestRuns
  <1> QED BY <1>5, <1>6, <1>8, <1>9 DEF KernelInv

LEMMA StutterInv == ASSUME KernelInv, UNCHANGED vars PROVE KernelInv'
  BY DEF vars, KernelInv, TypeOK, ListsAgree, StatusFits, Marked, NothingKeptFromWaiters,
         NestingCounts, CountedPlaces, HighestRuns

LEMMA NextInv == KernelInv /\ [Next]_vars => KernelInv'
  <1> SUFFICES ASSUME KernelInv, [Next]_vars PROVE KernelInv'
    OBVIOUS
  <1>1. ASSUME NEW t \in Tasks, TaskStep(t) PROVE KernelInv'
    BY <1>1, TakeInv, PendInv, TaskPostsInv, TimeDlyInv DEF TaskStep
  <1>2. ASSUME NEW t \in Tasks, Sched(t) \/ PendReturns(t) PROVE KernelInv'
    BY <1>2, SchedInv, PendReturnsInv
  <1>3. ASSUME NEW h \in Handlers \cup {Tick}, Enter(h) \/ Handler(h) PROVE KernelInv'
    BY <1>3, EnterInv, CountInv, LeaveInv, TickTaskInv DEF Handler
  <1>4. ASSUME NEW e \in Events, NEW m \in Content[e], HandlerPosts(e, m) PROVE KernelInv'
    BY <1>4, HandlerPostsInv
  <1> QED BY <1>1, <1>2, <1>3, <1>4, PendSVInv, StutterInv DEF Next

LEMMA AlwaysInv == Spec => []KernelInv
  BY InitInv, NextInv, PTL DEF Spec

\* The types of the kernel's data, for any tasks, events and handlers.
THEOREM TypeCorrect == Spec => []TypeOK
  <1>1. KernelInv => TypeOK
    BY DEF KernelInv
  <1> QED BY <1>1, AlwaysInv, PTL

\* Ready list, wait lists and status agree between any two critical sections.
THEOREM ListsAlwaysAgree == Spec => []ListsAgree
  <1>1. KernelInv => ListsAgree
    BY DEF KernelInv
  <1> QED BY <1>1, AlwaysInv, PTL

\* No event keeps anything while a task waits for it.
THEOREM NothingIsKept == Spec => []NothingKeptFromWaiters
  <1>1. KernelInv => NothingKeptFromWaiters
    BY DEF KernelInv
  <1> QED BY <1>1, AlwaysInv, PTL

\* However handlers nest, and wherever they are interrupted, the task of the
\* highest priority runs when they are through.
THEOREM HighestAlwaysRuns == Spec => []HighestRuns
  <1>1. KernelInv => HighestRuns
    BY DEF KernelInv
  <1> QED BY <1>1, AlwaysInv, PTL

-----------------------------------------------------------------------------
(* Semaphores and queues implement Exchange *)

abstract == <<store, Waits, Grants, out>>

\* What a task waits for and what it has been granted, by its control block.
LEMMA WaitsAre ==
  ASSUME KernelInv, NEW t \in Tasks
  PROVE  /\ Waits[t] = IF at[t] \in {"pended", "back"} THEN tcb[t].ev ELSE None
         /\ Grants[t] = IF at[t] \in {"pended", "back"} /\ tcb[t].stat = "rdy" /\ tcb[t].pend = "ok"
                          THEN tcb[t].msg ELSE None
  BY DEF Waits, Grants

\* A task is on an event's wait list exactly when it waits for it in vain.
LEMMA WaitersAre == ASSUME KernelInv, NEW e \in Events PROVE Abstract!Waiters(e) = wait[e]
  <1>1. e # None /\ wait[e] \subseteq Tasks
    BY KernelAssumption DEF KernelInv, TypeOK
  <1>2. ASSUME NEW t \in Tasks PROVE t \in wait[e] <=> Waits[t] = e /\ Grants[t] = None
    <2>1. t \in wait[e] <=> tcb[t].ev = e /\ (tcb[t].stat = "pend" \/ tcb[t].pend = "to")
      BY DEF KernelInv, ListsAgree
    <2>2. Marked(at[t], tcb[t])
      BY DEF KernelInv, StatusFits
    <2>3. tcb[t].stat \in {"rdy", "pend"} /\ tcb[t].pend \in {"ok", "to"}
          /\ at[t] \in {"run", "sched", "pended", "back"}
      BY DEF KernelInv, TypeOK
    <2> QED BY <1>1, <2>1, <2>2, <2>3, WaitsAre DEF Marked
  <1> QED BY <1>1, <1>2 DEF Abstract!Waiters

\* A function that differs from another in one place.
LEMMA Updated ==
  ASSUME NEW S, NEW f, NEW g, f = [x \in S |-> f[x]], g = [x \in S |-> g[x]],
         NEW y \in S, NEW v, g[y] = v, \A x \in S \ {y} : g[x] = f[x]
  PROVE  g = [f EXCEPT ![y] = v]
  OBVIOUS

\* A step after which every task waits for the same and has been granted the
\* same, and nothing is stored, is of no concern.
LEMMA QuietRefines ==
  ASSUME KernelInv, out' = None, UNCHANGED store,
         \A t \in Tasks : Waits'[t] = Waits[t] /\ Grants'[t] = Grants[t]
  PROVE  Abstract!Next
  <1>1. Waits' = Waits
    BY DEF Waits
  <1>2. Grants' = Grants
    BY DEF Grants
  <1> QED BY <1>1, <1>2 DEF Abstract!Next, Abstract!Quiet

LEMMA TakeRefines == ASSUME KernelInv, NEW t \in Tasks, NEW e \in Events, Take(t, e) PROVE Abstract!Next
  <1>1. Waits' = Waits /\ Grants' = Grants
    BY DEF Take, Waits, Grants
  <1>2. Waits[t] = None
    BY DEF Take, Calls, Waits
  <1>3. Abstract!Take(t, e)
    BY <1>1, <1>2 DEF Take, Abstract!Take
  <1> QED BY <1>3 DEF Abstract!Next

LEMMA PendRefines ==
  ASSUME KernelInv, NEW t \in Tasks, NEW e \in Events, NEW n \in Timeouts, Pend(t, e, n)
  PROVE  Abstract!Next
  <1>1. /\ tcb'[t].stat = "pend" /\ tcb'[t].ev = e /\ at'[t] = "pended"
        /\ \A u \in Tasks \ {t} : tcb'[u] = tcb[u] /\ at'[u] = at[u]
    BY DEF Pend, KernelInv, TypeOK
  <1>2. at[t] = "run"
    BY DEF Pend, Calls
  <1>3. Waits' = [Waits EXCEPT ![t] = e]
    BY <1>1 DEF Waits
  <1>4. Grants' = Grants
    <2>1. \A u \in Tasks : Grants'[u] = Grants[u]
      BY <1>1, <1>2 DEF Grants
    <2> QED BY <2>1 DEF Grants
  <1>5. Waits[t] = None
    BY <1>2 DEF Waits
  <1>6. Abstract!Wait(t, e)
    BY <1>3, <1>4, <1>5 DEF Pend, Abstract!Wait
  <1> QED BY <1>6 DEF Abstract!Next

LEMMA PendReturnsRefines == ASSUME KernelInv, NEW t \in Tasks, PendReturns(t) PROVE Abstract!Next
  <1>1. at[t] = "back" /\ tcb[t].stat = "rdy"
    BY Caller DEF PendReturns
  <1>2. tcb[t].ev \in Events /\ tcb[t].ev # None /\ (tcb[t].pend = "ok" => tcb[t].msg # None)
    BY <1>1, KernelAssumption DEF KernelInv, StatusFits, Marked
  <1>3. at'[t] = "run" /\ \A u \in Tasks \ {t} : tcb'[u] = tcb[u] /\ at'[u] = at[u]
    BY DEF PendReturns, KernelInv, TypeOK
  <1>4. Waits' = [Waits EXCEPT ![t] = None]
    BY <1>3 DEF Waits
  <1>5. Grants' = [Grants EXCEPT ![t] = None]
    BY <1>3 DEF Grants
  <1>6. Waits[t] = tcb[t].ev
    BY <1>1 DEF Waits
  <1>7. UNCHANGED store
    BY DEF PendReturns
  <1>8. CASE tcb[t].pend = "ok"
    <2>1. Grants[t] = tcb[t].msg
      BY <1>1, <1>8 DEF Grants
    <2>2. out' = <<t, tcb[t].msg>>
      BY <1>8 DEF PendReturns
    <2>3. Abstract!Return(t)
      BY <1>2, <1>4, <1>5, <1>6, <1>7, <1>8, <2>1, <2>2 DEF Abstract!Return, Abstract!Finish
    <2> QED BY <2>3 DEF Abstract!Next
  <1>9. CASE tcb[t].pend = "to"
    <2>1. Grants[t] = None
      BY <1>9 DEF Grants
    <2>2. t \in wait[tcb[t].ev]
      BY <1>2, <1>9 DEF KernelInv, ListsAgree
    <2>3. store[tcb[t].ev] = <<>>
      BY <1>2, <2>2 DEF KernelInv, NothingKeptFromWaiters
    <2>4. out' = <<t, Timeout>>
      BY <1>9 DEF PendReturns
    <2>5. Abstract!Expire(t)
      BY <1>2, <1>4, <1>5, <1>6, <1>7, <2>1, <2>3, <2>4 DEF Abstract!Expire, Abstract!Finish
    <2> QED BY <2>5 DEF Abstract!Next
  <1> QED BY <1>8, <1>9 DEF PendReturns

\* A post keeps a message, grants it, or is refused because the event is full.
LEMMA PostRefines ==
  ASSUME KernelInv, NEW e \in Events, NEW m \in Content[e], Post(e, m), Posted(e, m),
         \A t \in Tasks : at'[t] = at[t] \/ (at[t] = "run" /\ at'[t] = "sched")
  PROVE  Abstract!Next
  <1>1. Abstract!Waiters(e) = wait[e]
    BY WaitersAre
  <1>2. CASE wait[e] # {} /\ EventTaskRdy(e, m) /\ UNCHANGED store
    <2> DEFINE h == Highest(wait[e])
    <2>1. h \in wait[e] /\ h \in Tasks /\ \A u \in wait[e] : h <= u
      BY <1>2, HighestIsLeast DEF KernelInv, TypeOK
    <2>2. Waits[h] = e /\ Grants[h] = None /\ e # None
      BY <1>1, <2>1, KernelAssumption DEF Abstract!Waiters
    <2>3. at[h] \in {"pended", "back"} /\ at'[h] = at[h] /\ tcb[h].ev = e
      BY <2>1, <2>2 DEF Waits
    <2>4. tcb'[h] = [stat |-> "rdy", pend |-> "ok", dly |-> 0, ev |-> e, msg |-> m]
          /\ \A u \in Tasks \ {h} : tcb'[u] = tcb[u]
      BY <1>2, <2>1 DEF EventTaskRdy, KernelInv, TypeOK
    <2> HIDE DEF h
    <2>5. Waits' = Waits
      <3>1. \A u \in Tasks : Waits'[u] = Waits[u]
        BY <2>3, <2>4 DEF Waits
      <3> QED BY <3>1 DEF Waits
    <2>6. Grants' = [Grants EXCEPT ![h] = m]
      <3>1. Grants'[h] = m
        BY <2>1, <2>3, <2>4 DEF Grants
      <3>2. \A u \in Tasks \ {h} : Grants'[u] = Grants[u]
        BY <2>4 DEF Grants
      <3>3. Grants = [u \in Tasks |-> Grants[u]] /\ Grants' = [u \in Tasks |-> Grants'[u]]
        BY DEF Grants
      <3> QED BY <2>1, <3>1, <3>2, <3>3, Updated
    <2>7. Abstract!Grant(h, m)
      BY <1>1, <1>2, <2>1, <2>2, <2>5, <2>6 DEF Posted, Abstract!Grant, Abstract!Posted
    <2>8. \E t \in Tasks : Waits[t] # None /\ \E c \in Content[Waits[t]] : Abstract!Grant(t, c)
      BY <2>1, <2>2, <2>7
    <2> QED BY <2>8 DEF Abstract!Next
  <1>3. CASE wait[e] = {} /\ UNCHANGED <<rdy, tcb, wait>>
             /\ store' = IF Len(store[e]) < Capacity[e] THEN [store EXCEPT ![e] = Append(@, m)] ELSE store
    <2>1. \A t \in Tasks : Waits'[t] = Waits[t] /\ Grants'[t] = Grants[t]
      BY <1>3 DEF Waits, Grants
    <2>2. CASE Len(store[e]) < Capacity[e]
      <3>1. Waits' = Waits /\ Grants' = Grants
        BY <2>1 DEF Waits, Grants
      <3>2. Abstract!Keep(e, m)
        BY <1>1, <1>3, <2>2, <3>1 DEF Posted, Abstract!Keep, Abstract!Posted
      <3> QED BY <3>2 DEF Abstract!Next
    <2>3. CASE ~(Len(store[e]) < Capacity[e])
      <3>1. Waits' = Waits /\ Grants' = Grants
        BY <2>1 DEF Waits, Grants
      <3>2. Len(store[e]) \in Nat /\ Capacity[e] \in Nat
        BY KernelAssumption DEF KernelInv, TypeOK
      <3>3. Len(store[e]) >= Capacity[e]
        BY ONLY <2>3, <3>2
      <3>4. Abstract!Refuse(e, m)
        BY <1>1, <1>3, <2>3, <3>1, <3>3 DEF Posted, Abstract!Refuse, Abstract!Posted
      <3> QED BY <3>4 DEF Abstract!Next
    <2> QED BY <2>2, <2>3
  <1> QED BY <1>2, <1>3 DEF Post

\* The steps that neither post nor take anything.
LEMMA OthersRefine ==
  ASSUME KernelInv,
         \/ \E t \in Tasks : Sched(t) \/ \E n \in Delays : TimeDly(t, n)
         \/ PendSV \/ Count \/ Leave \/ \E h \in Handlers \cup {Tick} : Enter(h)
  PROVE  Abstract!Next
  <1>1. ASSUME NEW t \in Tasks, Sched(t) PROVE Abstract!Next
    <2>1. /\ at[t] \in {"sched", "pended"} /\ at'[t] = IF at[t] = "sched" THEN "run" ELSE "back"
          /\ \A u \in Tasks \ {t} : at'[u] = at[u]
      BY <1>1 DEF Sched, KernelInv, TypeOK
    <2>2. tcb' = tcb /\ out' = None /\ UNCHANGED store
      BY <1>1 DEF Sched, kernel
    <2>3. \A u \in Tasks : Waits'[u] = Waits[u] /\ Grants'[u] = Grants[u]
      BY <2>1, <2>2 DEF Waits, Grants
    <2> QED BY <2>2, <2>3, QuietRefines
  <1>2. ASSUME NEW t \in Tasks, NEW n \in Delays, TimeDly(t, n) PROVE Abstract!Next
    <2>1. /\ at[t] = "run" /\ at'[t] = "sched"
          /\ \A u \in Tasks \ {t} : at'[u] = at[u] /\ tcb'[u] = tcb[u]
      BY <1>2 DEF TimeDly, Calls, KernelInv, TypeOK
    <2>2. \A u \in Tasks : Waits'[u] = Waits[u] /\ Grants'[u] = Grants[u]
      BY <2>1 DEF Waits, Grants
    <2> QED BY <1>2, <2>2, QuietRefines DEF TimeDly
  <1>3. ASSUME PendSV \/ Count \/ Leave \/ \E h \in Handlers \cup {Tick} : Enter(h)
        PROVE  Abstract!Next
    <2>1. UNCHANGED <<tcb, store, at>> /\ out' = None
      BY <1>3 DEF PendSV, Count, Leave, Enter, kernel
    <2>2. \A u \in Tasks : Waits'[u] = Waits[u] /\ Grants'[u] = Grants[u]
      BY <2>1 DEF Waits, Grants
    <2> QED BY <2>1, <2>2, QuietRefines
  <1> QED BY <1>1, <1>2, <1>3

LEMMA TickTaskRefines == ASSUME KernelInv, NEW t \in Tasks, TickTask(t) PROVE Abstract!Next
  <1>1. /\ tcb'[t] = Ticked(tcb[t]) /\ \A u \in Tasks \ {t} : tcb'[u] = tcb[u]
        /\ UNCHANGED <<store, at>> /\ out' = None
    BY DEF TickTask, KernelInv, TypeOK
  <1>2. Marked(at[t], tcb[t]) /\ tcb[t] \in TcbType
    BY DEF KernelInv, StatusFits, TypeOK, TcbType
  <1>3. tcb'[t].ev = tcb[t].ev /\ tcb'[t].msg = tcb[t].msg
    BY <1>1, <1>2 DEF Ticked, TcbType
  <1>4. at[t] \in {"pended", "back"} =>
          ((tcb'[t].stat = "rdy" /\ tcb'[t].pend = "ok") <=> (tcb[t].stat = "rdy" /\ tcb[t].pend = "ok"))
    <2>1. CASE tcb[t].dly = 0
      BY <2>1, <1>1 DEF Ticked
    <2>2. CASE tcb[t].dly > 1
      BY <2>2, <1>1, <1>2 DEF Ticked, TcbType
    <2>3. CASE tcb[t].dly = 1
      <3>1. at[t] \in {"pended", "back"} => tcb[t].stat = "pend"
        BY <1>2, <2>3 DEF Marked, TcbType
      <3>2. tcb[t].stat = "pend" => tcb'[t].pend = "to"
        BY <1>1, <1>2, <2>3 DEF Ticked, TcbType
      <3> QED BY <3>1, <3>2
    <2> QED BY <2>1, <2>2, <2>3, <1>2 DEF TcbType
  <1>5. \A u \in Tasks : Waits'[u] = Waits[u] /\ Grants'[u] = Grants[u]
    BY <1>1, <1>3, <1>4 DEF Waits, Grants
  <1> QED BY <1>1, <1>5, QuietRefines

LEMMA StepRefines == ASSUME KernelInv, [Next]_vars PROVE [Abstract!Next]_abstract
  <1>1. ASSUME NEW t \in Tasks, TaskStep(t) PROVE Abstract!Next
    <2>1. ASSUME NEW e \in Events, NEW m \in Content[e], TaskPosts(t, e, m) PROVE Abstract!Next
      <3>1. \A u \in Tasks : at'[u] = at[u] \/ (at[u] = "run" /\ at'[u] = "sched")
        BY <2>1 DEF TaskPosts, Calls, KernelInv, TypeOK
      <3> QED BY <2>1, <3>1, PostRefines DEF TaskPosts
    <2> QED BY <1>1, <2>1, TakeRefines, PendRefines, OthersRefine DEF TaskStep
  <1>2. ASSUME NEW t \in Tasks, Sched(t) \/ PendReturns(t) PROVE Abstract!Next
    BY <1>2, PendReturnsRefines, OthersRefine
  <1>3. ASSUME NEW h \in Handlers \cup {Tick}, Enter(h) \/ Handler(h) PROVE Abstract!Next
    BY <1>3, TickTaskRefines, OthersRefine DEF Handler
  <1>4. ASSUME NEW e \in Events, NEW m \in Content[e], HandlerPosts(e, m) PROVE Abstract!Next
    <2>1. \A u \in Tasks : at'[u] = at[u]
      BY <1>4 DEF HandlerPosts
    <2> QED BY <1>4, <2>1, PostRefines DEF HandlerPosts
  <1>5. CASE PendSV
    BY <1>5, OthersRefine
  <1>6. CASE UNCHANGED vars
    <2>1. Waits' = Waits /\ Grants' = Grants
      BY <1>6 DEF vars, Waits, Grants
    <2> QED BY <1>6, <2>1 DEF vars, abstract
  <1> QED BY <1>1, <1>2, <1>3, <1>4, <1>5, <1>6 DEF Next

\* The kernel's semaphores and queues implement Exchange, for any tasks, events
\* and handlers: however a post, a time-out and a handler fall together, a post
\* goes to the most urgent waiting task or is kept, is refused only when the event
\* is full (OSSemPost, OSQPost), and reaches one task, in order.
THEOREM ImplementsExchange == Spec => Exchanges
  <1>1. Init => Abstract!Init
    BY DEF Init, Abstract!Init, Waits, Grants
  <1>2. KernelInv /\ [Next]_vars => [Abstract!Next]_abstract
    BY StepRefines
  <1> QED BY <1>1, <1>2, AlwaysInv, PTL DEF Spec, Exchanges, Abstract!Spec, abstract
=============================================================================
