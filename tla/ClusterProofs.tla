---------------------------- MODULE ClusterProofs ----------------------------
(***************************************************************************)
(* The control plane neither loses nor invents GPUs, for any cluster, any  *)
(* jobs and every scheduling and placement algorithm of ClusterScheduler.  *)
(* The induction is on ClusterInv; its steps rest on lemmas about the sum  *)
(* of GpusAddUp, which MapThenSumSet computes by recursion over the        *)
(* set: they are proved from the least-number principle.                   *)
(***************************************************************************)
EXTENDS ClusterScheduler, WellFoundedInduction, FiniteSetTheorems, TLAPS

\* Every non-empty set of numbers has a least element.
LEMMA LeastNumber ==
  ASSUME NEW T \in SUBSET Nat, T # {}
  PROVE  \E n \in T : \A m \in T : n <= m
<1>1. PICK R : R = {ss \in Nat \X Nat : ss[1] < ss[2]}
  OBVIOUS
<1>2. IsWellFoundedOn(R, Nat)
  BY <1>1, NatLessThanWellFounded DEF OpToRel
<1>3. T \subseteq Nat
  OBVIOUS
<1>4. PICK x \in T : \A y \in T : ~(<<y, x>> \in R)
  BY <1>2, <1>3, WFMin
<1>5. \A y \in T : ~(y < x)
  BY <1>4, <1>1, <1>3
<1> QED
  BY <1>3, <1>5

-----------------------------------------------------------------------------
(* What the jobs of a set hold of worker w under a configuration c.        *)

Held(c, w, S) == MapThenSumSet(LAMBDA j : c[j][w], S)

\* The element that the sum takes first.
Any(s) == CHOOSE x \in s : TRUE

\* The body of the recursive function of MapThenFoldSet.
Adding(it, c, w, s) == IF s = {} THEN 0 ELSE c[Any(s)][w] + it[s \ {Any(s)}]

Adds(it, c, w, S) == it = [s \in SUBSET S |-> Adding(it, c, w, s)]

LEMMA HeldIs ==
  ASSUME NEW c, NEW w, NEW S
  PROVE  Held(c, w, S) = (CHOOSE it : Adds(it, c, w, S))[S]
  BY DEF Held, MapThenSumSet, MapThenFoldSet, Adds, Adding, Any

LEMMA AnyIs == ASSUME NEW s, s # {} PROVE Any(s) \in s
  BY DEF Any

\* The subsets of S of at most n elements.
Small(S, n) == {s \in SUBSET S : Cardinality(s) <= n}

LEMMA SmallSteps ==
  ASSUME NEW S, IsFiniteSet(S), NEW n \in Nat, NEW s \in Small(S, n + 1), s # {}
  PROVE  s \ {Any(s)} \in Small(S, n)
<1>1. s \in SUBSET S /\ Cardinality(s) <= n + 1
  BY DEF Small
<1>2. IsFiniteSet(s)
  BY <1>1, FS_Subset
<1>3. Cardinality(s \ {Any(s)}) = Cardinality(s) - 1 /\ Cardinality(s) \in Nat
  BY <1>2, AnyIs, FS_RemoveElement, FS_CardinalityType
<1> QED
  BY <1>1, <1>3 DEF Small

\* The recursion over the subsets of a finite set has a solution.
LEMMA SumExists ==
  ASSUME NEW c, NEW w, NEW S, IsFiniteSet(S)
  PROVE  \E it : Adds(it, c, w, S)
<1> DEFINE Solves(it, n) == it = [s \in Small(S, n) |-> Adding(it, c, w, s)]
           T == {n \in Nat : ~ \E it : Solves(it, n)}
<1>1. T = {}
  <2> SUFFICES ASSUME T # {} PROVE FALSE
    OBVIOUS
  <2>1. PICK n \in T : \A m \in T : n <= m
    <3>1. T \in SUBSET Nat
      OBVIOUS
    <3> HIDE DEF T
    <3> QED
      BY <3>1, LeastNumber
  <2>2. CASE n = 0
    <3> DEFINE it == [s \in Small(S, 0) |-> 0]
    <3>1. \A s \in Small(S, 0) : s = {}
      <4> SUFFICES ASSUME NEW s \in Small(S, 0) PROVE s = {}
        OBVIOUS
      <4>1. s \in SUBSET S /\ Cardinality(s) <= 0
        BY DEF Small
      <4>2. IsFiniteSet(s)
        BY <4>1, FS_Subset
      <4>3. Cardinality(s) \in Nat
        BY <4>2, FS_CardinalityType
      <4> QED
        BY <4>1, <4>2, <4>3, FS_EmptySet
    <3>2. Solves(it, 0)
      BY <3>1 DEF Adding
    <3> QED
      BY <2>2, <3>2
  <2>3. CASE n # 0
    <3>1. PICK m \in Nat : n = m + 1
      <4>1. n \in Nat /\ n - 1 \in Nat /\ n = (n - 1) + 1
        BY <2>3
      <4> QED
        BY <4>1
    <3>2. PICK it0 : Solves(it0, m)
      BY <2>1, <3>1
    <3> DEFINE it1 == [s \in Small(S, n) |-> Adding(it0, c, w, s)]
    <3>3. Small(S, m) \subseteq Small(S, n)
      BY <3>1, FS_Subset, FS_CardinalityType DEF Small
    <3>4. \A u \in Small(S, m) : it1[u] = it0[u]
      <4> SUFFICES ASSUME NEW u \in Small(S, m) PROVE it1[u] = it0[u]
        OBVIOUS
      <4>1. it1[u] = Adding(it0, c, w, u)
        BY <3>3
      <4>2. it0[u] = Adding(it0, c, w, u)
        BY <3>2
      <4> QED
        BY <4>1, <4>2
    <3>5. \A s \in Small(S, n) : Adding(it0, c, w, s) = Adding(it1, c, w, s)
      <4> SUFFICES ASSUME NEW s \in Small(S, n), s # {}
                   PROVE  it0[s \ {Any(s)}] = it1[s \ {Any(s)}]
        BY DEF Adding
      <4>1. s \ {Any(s)} \in Small(S, m)
        BY <3>1, SmallSteps
      <4> QED
        BY <3>4, <4>1
    <3>6. Solves(it1, n)
      <4> DEFINE A(s) == Adding(it0, c, w, s)
                 B(s) == Adding(it1, c, w, s)
      <4>1. it1 = [s \in Small(S, n) |-> A(s)]
        OBVIOUS
      <4>2. \A s \in Small(S, n) : A(s) = B(s)
        BY <3>5
      <4> HIDE DEF A, B
      <4>3. [s \in Small(S, n) |-> A(s)] = [s \in Small(S, n) |-> B(s)]
        BY <4>2
      <4> QED
        BY <4>1, <4>3 DEF B
    <3> QED
      BY <3>6
  <2> QED
    BY <2>2, <2>3
<1>2. Cardinality(S) \in Nat
  BY FS_CardinalityType
<1>3. PICK it : Solves(it, Cardinality(S))
  BY <1>1, <1>2
<1>4. Small(S, Cardinality(S)) = SUBSET S
  BY FS_Subset DEF Small
<1> QED
  BY <1>3, <1>4 DEF Adds

\* A family of subsets of a finite set has a member with no smaller one inside:
\* what the sums are proved by, in place of an induction.
LEMMA MinimalSubset ==
  ASSUME NEW S, IsFiniteSet(S), NEW F, \A u \in F : u \in SUBSET S, F # {}
  PROVE  \E u \in F : IsFiniteSet(u) /\ \A x \in u : u \ {x} \notin F
<1> DEFINE N == {Cardinality(u) : u \in F}
<1>1. \A u \in F : IsFiniteSet(u) /\ Cardinality(u) \in Nat
  BY FS_Subset, FS_CardinalityType
<1>2. PICK n \in N : \A m \in N : n <= m
  <2>1. N \in SUBSET Nat /\ N # {}
    BY <1>1
  <2> HIDE DEF N
  <2> QED
    BY <2>1, LeastNumber
<1>3. PICK u \in F : n = Cardinality(u)
  BY <1>2
<1>4. ASSUME NEW x \in u PROVE u \ {x} \notin F
  <2>1. Cardinality(u \ {x}) = Cardinality(u) - 1
    BY <1>1, FS_RemoveElement
  <2>2. Cardinality(u \ {x}) \notin N
    BY <1>1, <1>2, <1>3, <2>1
  <2> QED
    BY <2>2
<1> QED
  BY <1>1, <1>4

\* The solutions for two sets agree on their common subsets.
LEMMA SumAgrees ==
  ASSUME NEW c, NEW w, NEW S, NEW T, IsFiniteSet(S), NEW f, NEW g,
         Adds(f, c, w, S), Adds(g, c, w, T), NEW s \in SUBSET (S \cap T)
  PROVE  f[s] = g[s]
<1> DEFINE Bad == {u \in SUBSET (S \cap T) : f[u] # g[u]}
<1>1. ASSUME Bad # {} PROVE FALSE
  <2>1. \A u \in Bad : u \in SUBSET S
    OBVIOUS
  <2>2. PICK u \in Bad : IsFiniteSet(u) /\ \A x \in u : u \ {x} \notin Bad
    <3> HIDE DEF Bad
    <3> QED
      BY <1>1, <2>1, MinimalSubset
  <2>3. f[u] = Adding(f, c, w, u) /\ g[u] = Adding(g, c, w, u) /\ f[u] # g[u]
    BY <2>2 DEF Adds
  <2>4. u # {} /\ f[u \ {Any(u)}] # g[u \ {Any(u)}]
    BY <2>3 DEF Adding
  <2>5. Any(u) \in u /\ u \ {Any(u)} \in Bad
    BY <2>2, <2>4, AnyIs
  <2> QED
    BY <2>2, <2>5
<1> QED
  BY <1>1

LEMMA HeldNothing == ASSUME NEW c, NEW w PROVE Held(c, w, {}) = 0
<1>1. IsFiniteSet({})
  BY FS_EmptySet
<1> DEFINE it == CHOOSE i : Adds(i, c, w, {})
<1>2. Adds(it, c, w, {})
  BY <1>1, SumExists
<1>3. it[{}] = Adding(it, c, w, {})
  BY <1>2 DEF Adds
<1> QED
  BY <1>3, HeldIs DEF Adding

LEMMA HeldAny ==
  ASSUME NEW c, NEW w, NEW S, IsFiniteSet(S), S # {}
  PROVE  Held(c, w, S) = c[Any(S)][w] + Held(c, w, S \ {Any(S)})
<1> DEFINE U == S \ {Any(S)}
           f == CHOOSE i : Adds(i, c, w, S)
           g == CHOOSE i : Adds(i, c, w, U)
<1>1. IsFiniteSet(U) /\ U \in SUBSET (S \cap U)
  BY FS_Subset
<1>2. Adds(f, c, w, S) /\ Adds(g, c, w, U)
  BY <1>1, SumExists
<1>3. f[U] = g[U]
  BY <1>1, <1>2, SumAgrees
<1>4. f[S] = Adding(f, c, w, S)
  BY <1>2 DEF Adds
<1>5. Held(c, w, S) = f[S] /\ Held(c, w, U) = g[U]
  BY HeldIs
<1> QED
  BY <1>3, <1>4, <1>5 DEF Adding

\* What is held is a number.
LEMMA HeldType ==
  ASSUME NEW c, NEW w, NEW S, IsFiniteSet(S), \A j \in S : c[j][w] \in Nat
  PROVE  Held(c, w, S) \in Nat
<1> DEFINE Bad == {u \in SUBSET S : Held(c, w, u) \notin Nat}
<1>1. ASSUME Bad # {} PROVE FALSE
  <2>1. \A u \in Bad : u \in SUBSET S
    OBVIOUS
  <2>2. PICK u \in Bad : IsFiniteSet(u) /\ \A x \in u : u \ {x} \notin Bad
    <3> HIDE DEF Bad
    <3> QED
      BY <1>1, <2>1, MinimalSubset
  <2>3. Held(c, w, u) \notin Nat /\ u \in SUBSET S
    BY <2>2
  <2>4. u # {}
    BY <2>3, HeldNothing
  <2>5. Any(u) \in u /\ c[Any(u)][w] \in Nat
    BY <2>3, <2>4, AnyIs
  <2>6. Held(c, w, u) = c[Any(u)][w] + Held(c, w, u \ {Any(u)})
    BY <2>2, <2>4, HeldAny
  <2>7. Held(c, w, u \ {Any(u)}) \notin Nat
    BY <2>3, <2>5, <2>6
  <2>8. u \ {Any(u)} \in Bad
    BY <2>3, <2>7
  <2> QED
    BY <2>2, <2>5, <2>8
<1> QED
  BY <1>1

\* The order in which the sum takes its elements does not matter.
LEMMA HeldRemove ==
  ASSUME NEW c, NEW w, NEW S, IsFiniteSet(S), \A j \in S : c[j][w] \in Nat, NEW y \in S
  PROVE  Held(c, w, S) = c[y][w] + Held(c, w, S \ {y})
<1> DEFINE Splits(u, z) == Held(c, w, u) = c[z][w] + Held(c, w, u \ {z})
           Bad == {u \in SUBSET S : \E z \in u : ~Splits(u, z)}
<1>1. ASSUME Bad # {} PROVE FALSE
  <2>1. \A u \in Bad : u \in SUBSET S
    OBVIOUS
  <2>2. PICK u \in Bad : IsFiniteSet(u) /\ \A x \in u : u \ {x} \notin Bad
    <3> HIDE DEF Bad
    <3> QED
      BY <1>1, <2>1, MinimalSubset
  <2>3. u \in SUBSET S
    BY <2>2
  <2>4. PICK z \in u : ~Splits(u, z)
    BY <2>2
  <2> DEFINE x == Any(u)
             uz == u \ {z}
             ux == u \ {x}
             both == u \ {x, z}
  <2>5. x \in u /\ Splits(u, x)
    <3>1. u # {}
      BY <2>4
    <3>2. Any(u) \in u
      BY <3>1, AnyIs
    <3>3. IsFiniteSet(u)
      BY <2>2
    <3> HIDE DEF Bad
    <3>4. Held(c, w, u) = c[Any(u)][w] + Held(c, w, u \ {Any(u)})
      BY <3>1, <3>3, HeldAny
    <3> QED
      BY <3>2, <3>4
  <2>6. x # z
    BY <2>4, <2>5
  <2>7. \A e \in u : \A d \in u \ {e} : Splits(u \ {e}, d)
    BY <2>2, <2>3
  <2>8. both = ux \ {z} /\ both = uz \ {x} /\ z \in ux /\ x \in uz
    BY <2>4, <2>5, <2>6
  <2>9. Splits(ux, z) /\ Splits(uz, x)
    BY <2>4, <2>5, <2>7, <2>8
  <2>10. c[x][w] \in Nat /\ c[z][w] \in Nat /\ Held(c, w, both) \in Nat
    <3>1. IsFiniteSet(both) /\ \A j \in both : c[j][w] \in Nat
      BY <2>2, <2>3, FS_Subset
    <3> HIDE DEF both
    <3>2. Held(c, w, both) \in Nat
      BY <3>1, HeldType
    <3> QED
      BY <2>3, <2>4, <2>5, <3>2
  <2>11. /\ Held(c, w, u) = c[x][w] + Held(c, w, ux)
         /\ Held(c, w, ux) = c[z][w] + Held(c, w, both)
         /\ Held(c, w, uz) = c[x][w] + Held(c, w, both)
         /\ Held(c, w, u) # c[z][w] + Held(c, w, uz)
    BY <2>4, <2>5, <2>8, <2>9
  <2> HIDE DEF x, ux, uz, both
  <2> QED
    BY <2>10, <2>11
<1> QED
  BY <1>1

\* Configurations that agree on the jobs of a set give the same sum.
LEMMA HeldSame ==
  ASSUME NEW c, NEW d, NEW w, NEW S, IsFiniteSet(S), \A j \in S : c[j][w] = d[j][w]
  PROVE  Held(c, w, S) = Held(d, w, S)
<1> DEFINE Bad == {u \in SUBSET S : Held(c, w, u) # Held(d, w, u)}
<1>1. ASSUME Bad # {} PROVE FALSE
  <2>1. \A u \in Bad : u \in SUBSET S
    OBVIOUS
  <2>2. PICK u \in Bad : IsFiniteSet(u) /\ \A x \in u : u \ {x} \notin Bad
    <3> HIDE DEF Bad
    <3> QED
      BY <1>1, <2>1, MinimalSubset
  <2>3. Held(c, w, u) # Held(d, w, u) /\ u \in SUBSET S
    BY <2>2
  <2>4. u # {}
    BY <2>3, HeldNothing
  <2>5. Any(u) \in u /\ c[Any(u)][w] = d[Any(u)][w]
    BY <2>3, <2>4, AnyIs
  <2>6. /\ Held(c, w, u) = c[Any(u)][w] + Held(c, w, u \ {Any(u)})
        /\ Held(d, w, u) = d[Any(u)][w] + Held(d, w, u \ {Any(u)})
    BY <2>2, <2>4, HeldAny
  <2>7. Held(c, w, u \ {Any(u)}) # Held(d, w, u \ {Any(u)})
    BY <2>3, <2>5, <2>6
  <2>8. u \ {Any(u)} \in Bad
    BY <2>3, <2>7
  <2> QED
    BY <2>2, <2>5, <2>8
<1> QED
  BY <1>1

-----------------------------------------------------------------------------
(* The invariant.                                                          *)

\* The jobs that run on a worker.
On(w) == {j \in JobIds : w \in busy[j]}

\* Only a job that was started runs.
BusyIsStarted == \A j \in JobIds : busy[j] # {} => j \in start_time

\* Each flag is set after the one before it, and means what it says.
FlagsInOrder ==
    /\ all_jobs_submitted => jobs = NJobs
    /\ all_jobs_started => jobs = NJobs /\ start_time = JobIds
    /\ all_jobs_finished => finish_time = JobIds

ClusterInv == ClusterTypes /\ BusyIsStarted /\ FlagsInOrder /\ GpusAddUp

\* GpusAddUp by the name that the lemmas have for its sum.
Conserved == \A w \in Worker : gpu[w] + Held(run_config, w, On(w)) = GpusPerNode

LEMMA ConservedIs == GpusAddUp <=> Conserved
  BY DEF GpusAddUp, Conserved, Held, On

LEMMA ConservedIsNext == GpusAddUp' <=> Conserved'
  BY ConservedIs, PTL

LEMMA OnIsFinite == ASSUME ClusterAssumption, NEW T \in SUBSET JobIds PROVE IsFiniteSet(T)
<1>1. NJobs \in Int /\ 1 \in Int
  BY DEF ClusterAssumption
<1>2. IsFiniteSet(JobIds)
  BY <1>1, FS_Interval DEF JobIds
<1> QED
  BY <1>2, FS_Subset

\* A placement gives a job free GPUs, whichever algorithm makes it.
LEMMA PlacementsAreFree ==
  ASSUME ClusterAssumption, ClusterTypes, NEW j \in JobIds, NEW config \in PlaceJobIn(j)
  PROVE  /\ config \in [Worker -> 0 .. GpusPerNode]
         /\ \A w \in Worker : config[w] <= gpu[w]
<1>1. placement_algo \in {"yarn", "yarn_random", "random", "random_distributed",
                          "random_multi_rack"}
  BY DEF ClusterAssumption, ClusterTypes
<1>2. \A n, b : YARNPlacement(n, b) \subseteq Samples(n)
  BY DEF YARNPlacement
<1>3. \A n, d, r : RandomPlacement(n, d, r) \subseteq Samples(n)
  BY DEF RandomPlacement
<1>4. PlaceJobIn(j) \subseteq Samples(Gpus[j])
  BY <1>1, <1>2, <1>3 DEF PlaceJobIn
<1> QED
  BY <1>4 DEF Samples

\* Every scheduling algorithm chooses among the jobs that wait.
LEMMA ChosenWait ==
  ASSUME ClusterAssumption, ClusterTypes
  PROVE  Chosen \subseteq Waiting
<1>1. scheduling_algo \in {"fcfs", "onebyone", "fitfirst"}
  BY DEF ClusterAssumption, ClusterTypes
<1>2. \A b : FirstComeFirst(b) \subseteq Waiting
  BY DEF FirstComeFirst, First
<1>3. FitFirst \subseteq Waiting
  BY DEF FitFirst, First
<1> QED
  BY <1>1, <1>2, <1>3 DEF Chosen

\* A job that waits is one of the jobs, has not started and runs nowhere.
LEMMA WaitingIsIdle ==
  ASSUME ClusterAssumption, ClusterInv, NEW j \in Waiting
  PROVE  j \in JobIds /\ j \notin start_time /\ busy[j] = {}
<1>1. j \in JobIds /\ j \notin start_time
  BY DEF ClusterAssumption, ClusterInv, ClusterTypes, Waiting, JobIds
<1> QED
  BY <1>1 DEF ClusterInv, BusyIsStarted

\* What the jobs hold is a number, and no more than the worker has.
LEMMA HeldOn ==
  ASSUME ClusterAssumption, ClusterTypes, NEW w \in Worker, NEW T \in SUBSET JobIds
  PROVE  Held(run_config, w, T) \in Nat
<1>1. IsFiniteSet(T)
  BY OnIsFinite
<1>2. \A j \in T : run_config[j][w] \in Nat
  BY DEF ClusterTypes, ClusterAssumption
<1> QED
  BY <1>1, <1>2, HeldType

LEMMA InitHolds == ASSUME ClusterAssumption, ClusterInit PROVE ClusterInv
<1>1. ClusterTypes
  <2>1. (CHOOSE w \in Worker : TRUE) \in Worker
    BY DEF ClusterAssumption
  <2>2. gpu \in [Worker -> 0 .. GpusPerNode]
    BY DEF ClusterInit, ClusterAssumption
  <2>3. run_config \in [JobIds -> [Worker -> 0 .. GpusPerNode]]
    BY DEF ClusterInit, ClusterAssumption
  <2>4. rank0 \in [JobIds -> Worker] /\ busy \in [JobIds -> SUBSET Worker]
    <3>1. rank0 \in [JobIds -> Worker]
      BY <2>1 DEF ClusterInit
    <3>2. busy = [j \in JobIds |-> {}]
      BY DEF ClusterInit
    <3> QED
      BY <3>1, <3>2
  <2>5. /\ scheduling_algo \in SchedulingAlgo /\ placement_algo \in PlacementAlgo
        /\ jobs \in 0 .. NJobs /\ all_jobs_submitted = FALSE /\ all_jobs_started = FALSE
        /\ all_jobs_finished = FALSE /\ finish_time = {} /\ start_time = {}
        /\ scheduler = "polling"
    BY DEF ClusterInit, ClusterAssumption
  <2> QED
    BY <2>2, <2>3, <2>4, <2>5 DEF ClusterTypes
<1>2. BusyIsStarted /\ FlagsInOrder
  BY DEF ClusterInit, BusyIsStarted, FlagsInOrder
<1>3. GpusAddUp
  <2>1. \A w \in Worker : On(w) = {} /\ gpu[w] = GpusPerNode
    BY DEF ClusterInit, On
  <2>2. \A w \in Worker : Held(run_config, w, On(w)) = 0
    BY <2>1, HeldNothing
  <2> QED
    BY <2>1, <2>2, ConservedIs DEF Conserved, ClusterAssumption
<1> QED
  BY <1>1, <1>2, <1>3 DEF ClusterInv

\* The actions that leave placements alone leave the sums alone.
LEMMA SameSums ==
  ASSUME GpusAddUp, UNCHANGED <<gpu, run_config, busy>>
  PROVE  GpusAddUp'
<1>1. Conserved
  BY ConservedIs
<1>2. \A w \in Worker : On(w)' = On(w)
  BY DEF On
<1>3. Conserved'
  BY <1>1, <1>2 DEF Conserved
<1> QED
  BY <1>3, ConservedIsNext

LEMMA SubmitKeeps == ASSUME ClusterAssumption, ClusterInv, Submit PROVE ClusterInv'
<1>1. ClusterTypes'
  BY DEF ClusterInv, ClusterTypes, Submit, ClusterAssumption, environment
<1>2. BusyIsStarted'
  BY DEF ClusterInv, BusyIsStarted, Submit
<1>3. FlagsInOrder'
  BY DEF ClusterInv, FlagsInOrder, Submit, ClusterTypes, ClusterAssumption
<1>4. GpusAddUp'
  BY SameSums DEF ClusterInv, Submit
<1> QED
  BY <1>1, <1>2, <1>3, <1>4 DEF ClusterInv

LEMMA GiveUpKeeps ==
  ASSUME ClusterAssumption, ClusterInv, NEW j \in JobIds, GiveUp(j) PROVE ClusterInv'
<1>1. ClusterTypes' /\ BusyIsStarted' /\ FlagsInOrder'
  BY DEF ClusterInv, ClusterTypes, BusyIsStarted, FlagsInOrder, GiveUp, environment, flags
<1>2. GpusAddUp'
  BY SameSums DEF ClusterInv, GiveUp
<1> QED
  BY <1>1, <1>2 DEF ClusterInv

LEMMA StopKeeps == ASSUME ClusterAssumption, ClusterInv, Stop PROVE ClusterInv'
<1>1. ClusterTypes' /\ BusyIsStarted' /\ FlagsInOrder'
  BY DEF ClusterInv, ClusterTypes, BusyIsStarted, FlagsInOrder, Stop, environment, flags
<1>2. GpusAddUp'
  BY SameSums DEF ClusterInv, Stop
<1> QED
  BY <1>1, <1>2 DEF ClusterInv

\* A start moves GPUs from the free ones of each worker to the sum of its jobs.
LEMMA StartConserves ==
  ASSUME ClusterAssumption, ClusterInv, NEW j \in JobIds, Start(j)
  PROVE  ClusterTypes' /\ GpusAddUp' /\ (\A i \in JobIds : i # j => busy'[i] = busy[i])
<1>1. ClusterTypes /\ Conserved /\ j \in Waiting
  BY ConservedIs, ChosenWait DEF ClusterInv, Start
<1>2. j \notin start_time /\ busy[j] = {}
  BY <1>1, WaitingIsIdle
<1>3. PICK config \in PlaceJobIn(j) :
         /\ run_config' = [run_config EXCEPT ![j] = config]
         /\ \E w0 \in Used(config) : rank0' = [rank0 EXCEPT ![j] = w0]
         /\ busy' = [busy EXCEPT ![j] = Used(config)]
         /\ gpu' = [v \in Worker |-> gpu[v] - config[v]]
  BY DEF Start
<1>4. config \in [Worker -> 0 .. GpusPerNode] /\ \A w \in Worker : config[w] <= gpu[w]
  BY <1>1, PlacementsAreFree
<1>5. ClusterTypes'
  <2>1. gpu' \in [Worker -> 0 .. GpusPerNode]
    <3>1. \A w \in Worker : gpu[w] - config[w] \in 0 .. GpusPerNode
      BY <1>1, <1>4 DEF ClusterTypes, ClusterAssumption
    <3> QED
      BY <1>3, <3>1
  <2>2. /\ run_config' \in [JobIds -> [Worker -> 0 .. GpusPerNode]]
        /\ rank0' \in [JobIds -> Worker]
        /\ busy' \in [JobIds -> SUBSET Worker]
    <3>1. Used(config) \in SUBSET Worker
      BY DEF Used
    <3>2. PICK w0 \in Used(config) : rank0' = [rank0 EXCEPT ![j] = w0]
      BY <1>3
    <3> QED
      BY <1>1, <1>3, <1>4, <3>1, <3>2 DEF ClusterTypes
  <2>3. all_jobs_started' \in BOOLEAN
    BY <1>1 DEF Start, AllJobsStarted, ClusterTypes
  <2> QED
    BY <1>1, <2>1, <2>2, <2>3 DEF Start, ClusterTypes, environment
<1>6. ASSUME NEW w \in Worker
      PROVE  gpu'[w] + Held(run_config', w, On(w)') = GpusPerNode
  <2>1. gpu[w] \in Int /\ config[w] \in Nat /\ gpu'[w] = gpu[w] - config[w]
    BY <1>1, <1>3, <1>4 DEF ClusterTypes, ClusterAssumption
  <2>2. On(w) \in SUBSET JobIds /\ On(w)' \in SUBSET JobIds /\ j \notin On(w)
    BY <1>2 DEF On
  <2>3. Held(run_config, w, On(w)) \in Nat
    BY <1>1, <2>2, HeldOn
  <2>4. gpu[w] + Held(run_config, w, On(w)) = GpusPerNode
    BY <1>1 DEF Conserved
  <2>5. IsFiniteSet(On(w)) /\ IsFiniteSet(On(w)')
    BY <2>2, OnIsFinite
  <2>6. \A i \in On(w) : run_config[i][w] = run_config'[i][w]
    BY <1>1, <1>3, <2>2 DEF ClusterTypes
  <2>7. Held(run_config, w, On(w)) = Held(run_config', w, On(w))
    BY <2>5, <2>6, HeldSame
  <2>8. CASE config[w] > 0
    <3>1. On(w)' = On(w) \union {j}
      BY <1>1, <1>3, <2>8 DEF On, Used, ClusterTypes
    <3>2. run_config'[j][w] = config[w]
      BY <1>1, <1>3 DEF ClusterTypes
    <3>3. \A i \in On(w)' : run_config'[i][w] \in Nat
      BY <1>5, <2>2 DEF ClusterTypes, ClusterAssumption
    <3>4. j \in On(w)' /\ On(w)' \ {j} = On(w)
      BY <2>2, <3>1
    <3>5. Held(run_config', w, On(w)') =
              run_config'[j][w] + Held(run_config', w, On(w)' \ {j})
      BY <2>5, <3>3, <3>4, HeldRemove
    <3>6. Held(run_config', w, On(w)') = config[w] + Held(run_config, w, On(w))
      BY <2>7, <3>2, <3>4, <3>5
    <3> QED
      BY <2>1, <2>3, <2>4, <3>6
  <2>9. CASE ~(config[w] > 0)
    <3>1. On(w)' = On(w)
      BY <1>1, <1>2, <1>3, <2>9 DEF On, Used, ClusterTypes
    <3>2. config[w] = 0
      BY <2>1, <2>9
    <3>3. Held(run_config', w, On(w)') = Held(run_config, w, On(w))
      BY <2>7, <3>1
    <3> QED
      BY <2>1, <2>3, <2>4, <3>2, <3>3
  <2> QED
    BY <2>8, <2>9
<1>7. GpusAddUp'
  BY <1>6, ConservedIsNext DEF Conserved
<1> QED
  BY <1>1, <1>3, <1>5, <1>7 DEF ClusterTypes

LEMMA StartKeeps ==
  ASSUME ClusterAssumption, ClusterInv, NEW j \in JobIds, Start(j) PROVE ClusterInv'
<1>1. ClusterTypes' /\ GpusAddUp' /\ (\A i \in JobIds : i # j => busy'[i] = busy[i])
  BY StartConserves
<1>2. start_time' = start_time \union {j}
  BY DEF Start
<1>3. BusyIsStarted'
  BY <1>1, <1>2 DEF ClusterInv, BusyIsStarted
<1>4. FlagsInOrder'
  <2>1. /\ jobs' = jobs /\ all_jobs_submitted' = all_jobs_submitted
        /\ all_jobs_finished' = all_jobs_finished /\ finish_time' = finish_time
        /\ all_jobs_started' = (all_jobs_submitted /\ 1 .. jobs \subseteq start_time')
    BY <1>2 DEF Start, AllJobsStarted
  <2>2. start_time' \subseteq JobIds
    BY <1>1 DEF ClusterTypes
  <2> QED
    BY <2>1, <2>2 DEF ClusterInv, FlagsInOrder, JobIds
<1> QED
  BY <1>1, <1>3, <1>4 DEF ClusterInv

\* The end of a job on a worker moves its GPUs back.
LEMMA EndJobConserves ==
  ASSUME ClusterAssumption, ClusterInv, NEW j \in JobIds, NEW w \in Worker, EndJob(j, w)
  PROVE  ClusterTypes' /\ GpusAddUp'
<1>1. ClusterTypes /\ Conserved /\ j \in start_time
  BY ConservedIs DEF ClusterInv, BusyIsStarted, EndJob
<1>2. /\ w \in busy[j]
      /\ busy' = [busy EXCEPT ![j] = busy[j] \ {w}]
      /\ gpu' = [gpu EXCEPT ![w] = gpu[w] + run_config[j][w]]
      /\ run_config' = run_config
  BY DEF EndJob, GivenBack
<1>3. \A v \in Worker : /\ On(v) \in SUBSET JobIds
                        /\ On(v)' = IF v = w THEN On(v) \ {j} ELSE On(v)
  BY <1>1, <1>2 DEF On, ClusterTypes
<1>4. /\ Held(run_config, w, On(w)) = run_config[j][w] + Held(run_config, w, On(w) \ {j})
      /\ Held(run_config, w, On(w) \ {j}) \in Nat
      /\ run_config[j][w] \in Nat
  <2>1. j \in On(w) /\ On(w) \ {j} \in SUBSET JobIds
    BY <1>2 DEF On
  <2>2. IsFiniteSet(On(w))
    BY <1>3, OnIsFinite
  <2>3. \A i \in On(w) : run_config[i][w] \in Nat
    BY <1>1, <1>3 DEF ClusterTypes, ClusterAssumption
  <2>4. Held(run_config, w, On(w) \ {j}) \in Nat
    BY <1>1, <2>1, HeldOn
  <2>5. Held(run_config, w, On(w)) = run_config[j][w] + Held(run_config, w, On(w) \ {j})
    BY <2>1, <2>2, <2>3, HeldRemove
  <2> QED
    BY <2>1, <2>3, <2>4, <2>5
<1>5. gpu[w] + Held(run_config, w, On(w)) = GpusPerNode /\ gpu[w] \in Nat
  BY <1>1 DEF Conserved, ClusterTypes, ClusterAssumption
<1>6. gpu[w] + run_config[j][w] \in 0 .. GpusPerNode
  BY <1>4, <1>5 DEF ClusterAssumption
<1>7. GpusAddUp'
  <2>1. ASSUME NEW v \in Worker
        PROVE  gpu'[v] + Held(run_config', v, On(v)') = GpusPerNode
    <3>1. CASE v = w
      <4>1. gpu'[v] = gpu[w] + run_config[j][w]
        BY <1>1, <1>2, <3>1 DEF ClusterTypes
      <4>2. Held(run_config', v, On(v)') = Held(run_config, w, On(w) \ {j})
        BY <1>2, <1>3, <3>1
      <4> QED
        BY <1>4, <1>5, <4>1, <4>2
    <3>2. CASE v # w
      <4>1. gpu'[v] = gpu[v]
        BY <1>1, <1>2, <3>2 DEF ClusterTypes
      <4>2. Held(run_config', v, On(v)') = Held(run_config, v, On(v))
        BY <1>2, <1>3, <3>2
      <4> QED
        BY <1>1, <4>1, <4>2 DEF Conserved
    <3> QED
      BY <3>1, <3>2
  <2> QED
    BY <2>1, ConservedIsNext DEF Conserved
<1>8. ClusterTypes'
  <2>1. gpu' \in [Worker -> 0 .. GpusPerNode] /\ busy' \in [JobIds -> SUBSET Worker]
    BY <1>1, <1>2, <1>6 DEF ClusterTypes
  <2>2. finish_time' \subseteq start_time /\ all_jobs_finished' \in BOOLEAN
    <3>1. CASE w = rank0[j]
      BY <1>1, <3>1 DEF EndJob, AllJobsFinished, ClusterTypes
    <3>2. CASE w # rank0[j]
      BY <1>1, <3>2 DEF EndJob, ClusterTypes
    <3> QED
      BY <3>1, <3>2
  <2> QED
    BY <1>1, <2>1, <2>2 DEF EndJob, ClusterTypes, environment
<1> QED
  BY <1>7, <1>8

LEMMA EndJobKeeps ==
  ASSUME ClusterAssumption, ClusterInv, NEW j \in JobIds, NEW w \in Worker, EndJob(j, w)
  PROVE  ClusterInv'
<1>1. ClusterTypes' /\ GpusAddUp'
  BY EndJobConserves
<1>2. BusyIsStarted'
  BY DEF ClusterInv, ClusterTypes, BusyIsStarted, EndJob
<1>3. FlagsInOrder'
  <2>1. /\ jobs' = jobs /\ all_jobs_submitted' = all_jobs_submitted
        /\ all_jobs_started' = all_jobs_started /\ start_time' = start_time
    BY DEF EndJob
  <2>2. finish_time' \subseteq JobIds
    BY <1>1 DEF ClusterTypes
  <2>3. CASE w # rank0[j]
    BY <2>1, <2>3 DEF EndJob, ClusterInv, FlagsInOrder
  <2>4. CASE w = rank0[j]
    <3>1. /\ finish_time' = finish_time \union {j}
          /\ all_jobs_finished' =
               (all_jobs_finished \/ (all_jobs_started /\ 1 .. jobs \subseteq finish_time'))
      BY <2>4 DEF EndJob, AllJobsFinished
    <3> QED
      BY <2>1, <2>2, <3>1 DEF ClusterInv, FlagsInOrder, JobIds
  <2> QED
    BY <2>3, <2>4
<1> QED
  BY <1>1, <1>2, <1>3 DEF ClusterInv

LEMMA StutterKeeps == ASSUME ClusterInv, UNCHANGED clusterVars PROVE ClusterInv'
<1>1. ClusterTypes' /\ BusyIsStarted' /\ FlagsInOrder'
  BY DEF ClusterInv, ClusterTypes, BusyIsStarted, FlagsInOrder, clusterVars, environment, flags
<1>2. GpusAddUp'
  BY SameSums DEF ClusterInv, clusterVars
<1> QED
  BY <1>1, <1>2 DEF ClusterInv

-----------------------------------------------------------------------------
\* Every reachable state of the control plane satisfies ClusterInv.
THEOREM ClusterInvariant == ASSUME ClusterAssumption PROVE ClusterSpec => []ClusterInv
<1>1. ClusterInit => ClusterInv
  BY InitHolds
<1>2. ClusterInv /\ [ClusterNext]_clusterVars => ClusterInv'
  <2> SUFFICES ASSUME ClusterInv, [ClusterNext]_clusterVars PROVE ClusterInv'
    OBVIOUS
  <2>1. CASE Submit
    BY <2>1, SubmitKeeps
  <2>2. CASE Stop
    BY <2>2, StopKeeps
  <2>3. ASSUME NEW j \in JobIds, Start(j) PROVE ClusterInv'
    BY <2>3, StartKeeps
  <2>4. ASSUME NEW j \in JobIds, GiveUp(j) PROVE ClusterInv'
    BY <2>4, GiveUpKeeps
  <2>5. ASSUME NEW j \in JobIds, NEW w \in Worker, EndJob(j, w) PROVE ClusterInv'
    BY <2>5, EndJobKeeps
  <2>6. CASE ClusterOver \/ UNCHANGED clusterVars
    BY <2>6, StutterKeeps DEF ClusterOver
  <2> QED
    BY <2>1, <2>2, <2>3, <2>4, <2>5, <2>6 DEF ClusterNext, Scheduler
<1> QED
  BY <1>1, <1>2, PTL DEF ClusterSpec

\* The variables of the cluster keep their types: no worker is ever promised more
\* GPUs than it has free, or given back more than it has.
THEOREM ClusterTypeOK == ASSUME ClusterAssumption PROVE ClusterSpec => []ClusterTypes
<1>1. ClusterInv => ClusterTypes
  BY DEF ClusterInv
<1>2. ClusterSpec => []ClusterInv
  BY ClusterInvariant
<1> QED
  BY <1>1, <1>2, PTL

\* No worker gives GPUs it does not have, and what it has free and what the jobs that
\* run on it hold add up to its GPUs, for every cluster, every list of jobs and every
\* algorithm (execute_job, cluster.cpp and scheduling/*.cpp).
THEOREM GpusAreConserved == ASSUME ClusterAssumption PROVE ClusterSpec => []GpusConserved
<1>1. ClusterInv => GpusConserved
  BY DEF ClusterInv, ClusterTypes, GpusConserved
<1>2. ClusterSpec => []ClusterInv
  BY ClusterInvariant
<1> QED
  BY <1>1, <1>2, PTL

\* all_jobs_finished is never set early: when it is, every job has finished, the
\* jobs that were still to be submitted included.
THEOREM FinishedMeansFinished ==
  ASSUME ClusterAssumption PROVE ClusterSpec => []FinishedIsFinished
<1>1. ClusterInv => FinishedIsFinished
  BY DEF ClusterInv, FlagsInOrder, FinishedIsFinished
<1>2. ClusterSpec => []ClusterInv
  BY ClusterInvariant
<1> QED
  BY <1>1, <1>2, PTL
=============================================================================
