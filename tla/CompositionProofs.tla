------------------------- MODULE CompositionProofs -------------------------
(***************************************************************************)
(* The schedulers as main chooses one: what SchedulerProofs proves of each, *)
(* in Schedulers.  Composed says which invariant holds under the choice.    *)
(* The lemmas that only unfold definitions state that an instance of a      *)
(* scheduler in Schedulers and the one in SchedulerProofs are the same.     *)
(***************************************************************************)
EXTENDS Schedulers, TLAPS

P == INSTANCE SchedulerProofs
W == INSTANCE SchedulerProofs WITH Chunks <- Whole

\* The jobs are what SchedulerProofs assumes of them, with their chunks ...
LEMMA Assumed == P!TrainingAssumption
BY SMTT(30), SchedulersAssumption DEF IsFiniteSet, P!TrainingAssumption, P!Layer, P!IsFiniteSet

\* ... and with whole tensors.
LEMMA AssumedWhole == W!TrainingAssumption
<1>1. Whole \in [0 .. NLayers - 1 -> Nat \ {0}]
  BY DEF Whole
<1> QED
  BY SMTT(30), <1>1, SchedulersAssumption DEF IsFiniteSet, W!TrainingAssumption, W!Layer, W!IsFiniteSet

\* ReadyAndGo and ByteScheduler train one of them.
LEMMA OneJobIsTrained ==
    ASSUME cs \in Schedulers, cs = "ready" \/ cs = "byte"
    PROVE  W!OneJob /\ P!OneJob
BY SchedulersAssumption DEF W!OneJob, P!OneJob

-----------------------------------------------------------------------------
\* FirstInFirstOutOneByOne, and the rounds of the first tensor of one of its jobs.
LEMMA FifoInit == F!Init => W!Init
BY DEF
    F!Layer, F!Job, F!Zero, F!TrainingInit, F!Key, F!Coroutine, F!Init, F!Lock!Init,
    F!IsFiniteSet, W!Layer, W!Job, W!Zero, W!TrainingInit, W!Key, W!Coroutine, W!Init,
    W!Lock!Init, W!IsFiniteSet

LEMMA FifoVars == UNCHANGED F!vars => UNCHANGED W!vars
BY DEF
    F!trainingVars, F!schedulerVars, F!vars, W!trainingVars, W!schedulerVars, W!vars

LEMMA FifoNext == F!Next => W!Next
BY ZenonT(60) DEF
    F!Layer, F!Job, F!trainingVars, F!Workers, F!NWorkers, F!Plus, F!MayForward, F!Forward,
    F!MoreIterations, F!Advance, F!BackwardAlone, F!StartAllreduce, F!LastChunk,
    F!CompleteAllreduce, F!Drained, F!Drain, F!Leave, F!LoopsOver, F!RoundsOver, F!Full,
    F!Occurrences, F!InvokedOn, F!AwaitedOf, F!AllDone, F!Key, F!Coroutine, F!lockVars,
    F!schedulerVars, F!vars, F!KeyOf, F!Backward, F!Invoke, F!Finish, F!Over, F!LoopStep,
    F!RoundStep, F!SchedulerStep, F!Next, F!Lock!Live, F!Lock!Popped, F!Lock!UnitsTaken,
    F!Lock!Remaining, F!Lock!TriggerEvs, F!Lock!Queued, F!Lock!Request, F!Lock!Resume,
    F!Lock!Release, F!Lock!Cardinality, F!IsFiniteSet, F!Cardinality, W!Layer, W!Job,
    W!trainingVars, W!Workers, W!NWorkers, W!Plus, W!MayForward, W!Forward,
    W!MoreIterations, W!Advance, W!BackwardAlone, W!StartAllreduce, W!LastChunk,
    W!CompleteAllreduce, W!Drained, W!Drain, W!Leave, W!LoopsOver, W!RoundsOver, W!Full,
    W!Occurrences, W!InvokedOn, W!AwaitedOf, W!AllDone, W!Key, W!Coroutine, W!lockVars,
    W!schedulerVars, W!vars, W!KeyOf, W!Backward, W!Invoke, W!Finish, W!Over, W!LoopStep,
    W!RoundStep, W!SchedulerStep, W!Next, W!Lock!Live, W!Lock!Popped, W!Lock!UnitsTaken,
    W!Lock!Remaining, W!Lock!TriggerEvs, W!Lock!Queued, W!Lock!Request, W!Lock!Resume,
    W!Lock!Release, W!Lock!Cardinality, W!IsFiniteSet, W!Cardinality

LEMMA FifoOneTensorInNetwork == F!OneTensorInNetwork <=> W!OneTensorInNetwork
BY DEF
    F!Layer, F!KeyOf, F!OneTensorInNetwork, W!Layer, W!KeyOf, W!OneTensorInNetwork

LEMMA FifoRoundsAreGated == F!RoundsAreGated <=> W!RoundsAreGated
BY DEF
    F!Layer, F!RoundsAreGated, W!Layer, W!RoundsAreGated

LEMMA FifoEnqueuesKept == F!EnqueuesKept <=> W!EnqueuesKept
BY DEF
    F!Layer, F!Workers, F!NWorkers, F!Enqueued, F!Kept, F!Occurrences, F!KeyOf,
    F!EnqueuesKept, F!Cardinality, W!Layer, W!Workers, W!NWorkers, W!Enqueued, W!Kept,
    W!Occurrences, W!KeyOf, W!EnqueuesKept, W!Cardinality

\* The steps of the program under FirstInFirstOutOneByOne are its steps.
LEMMA FifoStepsAre ==
    ASSUME cs = "fifo", [Next]_vars
    PROVE  [W!Next]_(W!vars)
<1>1. [F!Next]_(F!vars)
  BY DEF Next, ByFifo, ByReady, ByByte, ByDrr, BySincronia, vars, lockVars,
      F!vars, F!trainingVars, F!schedulerVars
<1> QED
  BY ZenonT(60), <1>1, FifoVars, FifoNext

\* Its invariant holds at the start and is kept.
LEMMA FifoStarts == Init /\ cs = "fifo" => W!FifoInv
BY FifoInit, W!FifoInit, AssumedWhole DEF Init

LEMMA FifoSteps ==
    ASSUME cs = "fifo", W!FifoInv, [Next]_vars
    PROVE  W!FifoInv'
BY ZenonT(60), FifoStepsAre, W!FifoStep, AssumedWhole

\* What its invariant promises.
LEMMA FifoKeeps == W!FifoInv => F!OneTensorInNetwork /\ F!RoundsAreGated /\ F!EnqueuesKept
<1>1. \A i \in W!Layer : Whole[i] = 1
  BY DEF Whole, W!Layer
<1> QED
  BY <1>1, W!InvOneTensor, W!InvGated, W!FifoKept, AssumedWhole,
     FifoOneTensorInNetwork, FifoRoundsAreGated, FifoEnqueuesKept

\* No round has started, whichever scheduler is chosen.
LEMMA FabricInits == Init => Fabric!Init
<1> SUFFICES ASSUME Init PROVE Fabric!Init
  OBVIOUS
<1>1. CASE cs = "fifo"
  <2>1. F!Init
    BY <1>1 DEF Init
  <2>2. started = F!Zero /\ done = F!Zero
    BY <2>1 DEF F!Init, F!TrainingInit
  <2>3. 0 \in F!Layer
    BY SMTT(60), SchedulersAssumption DEF F!Layer
  <2> QED
    BY <1>1, <2>2, <2>3 DEF Fabric!Init, F!Zero, F!Workers
<1>2. CASE cs # "fifo"
  BY <1>2 DEF Fabric!Init
<1> QED
  BY <1>1, <1>2

\* A step under FirstInFirstOutOneByOne is a step of the gated AllReduce of the observed
\* job; under another scheduler that AllReduce stays as it is.
LEMMA FabricSteps ==
    ASSUME cs = "fifo" => W!FifoInv, [Next]_vars
    PROVE  [Fabric!Next]_(Fabric!vars)
<1>1. cs' = cs
  BY DEF Next, ByFifo, ByReady, ByByte, ByDrr, BySincronia, vars
<1>2. CASE cs = "fifo"
  <2>1. [W!Next]_(W!vars)
    BY ZenonT(60), <1>2, FifoStepsAre
  <2>2. Observed \in W!Job /\ 0 \in W!Layer
    BY SMTT(60), SchedulersAssumption DEF W!Job, W!Layer
  <2>3. \/ W!Fabric(Observed, 0, NIter)!Next
        \/ UNCHANGED W!Fabric(Observed, 0, NIter)!vars
    BY ZenonT(60), <1>2, <2>1, <2>2, W!FifoFabric, AssumedWhole
  <2> QED
    BY ZenonT(60), <1>1, <1>2, <2>3
    DEF F!Workers, W!Workers, Fabric!Next, Fabric!Start, Fabric!Complete, Fabric!vars,
        W!Fabric!Next, W!Fabric!Start, W!Fabric!Complete, W!Fabric!vars
<1>3. CASE cs # "fifo"
  BY <1>1, <1>3 DEF Fabric!vars
<1> QED
  BY ZenonT(60), <1>2, <1>3

-----------------------------------------------------------------------------
\* ReadyAndGo.
LEMMA ReadyInit == G!Init => W!Ready!Init
BY DEF
    G!Layer, G!Zero, G!TrainingInit, G!Init, G!Lock!Init, W!Ready!Layer, W!Ready!Zero,
    W!Ready!TrainingInit, W!Ready!Init, W!Ready!Lock!Init

LEMMA ReadyVars == UNCHANGED G!vars => UNCHANGED W!Ready!vars
BY DEF
    G!trainingVars, G!schedulerVars, G!vars, W!Ready!trainingVars, W!Ready!schedulerVars,
    W!Ready!vars

LEMMA ReadyNext == G!Next => W!Ready!Next
BY ZenonT(60) DEF
    G!Layer, G!trainingVars, G!Workers, G!NWorkers, G!Plus, G!MayForward, G!Forward,
    G!MoreIterations, G!Advance, G!StartAllreduce, G!LastChunk, G!CompleteAllreduce,
    G!Drained, G!Drain, G!Leave, G!LoopsOver, G!RoundsOver, G!Full, G!Occurrences,
    G!InvokedOn, G!AwaitedOf, G!AllDone, G!lockVars, G!schedulerVars, G!vars, G!Backward,
    G!Invoke, G!Finish, G!Over, G!LoopStep, G!RoundStep, G!SchedulerStep, G!Next,
    G!Lock!Live, G!Lock!Popped, G!Lock!UnitsTaken, G!Lock!Remaining, G!Lock!TriggerEvs,
    G!Lock!Queued, G!Lock!Request, G!Lock!Resume, G!Lock!Release, G!Lock!Cardinality,
    G!Cardinality, W!Ready!Layer, W!Ready!trainingVars, W!Ready!Workers, W!Ready!NWorkers,
    W!Ready!Plus, W!Ready!MayForward, W!Ready!Forward, W!Ready!MoreIterations,
    W!Ready!Advance, W!Ready!StartAllreduce, W!Ready!LastChunk, W!Ready!CompleteAllreduce,
    W!Ready!Drained, W!Ready!Drain, W!Ready!Leave, W!Ready!LoopsOver, W!Ready!RoundsOver,
    W!Ready!Full, W!Ready!Occurrences, W!Ready!InvokedOn, W!Ready!AwaitedOf,
    W!Ready!AllDone, W!Ready!lockVars, W!Ready!schedulerVars, W!Ready!vars,
    W!Ready!Backward, W!Ready!Invoke, W!Ready!Finish, W!Ready!Over, W!Ready!LoopStep,
    W!Ready!RoundStep, W!Ready!SchedulerStep, W!Ready!Next, W!Ready!Lock!Live,
    W!Ready!Lock!Popped, W!Ready!Lock!UnitsTaken, W!Ready!Lock!Remaining,
    W!Ready!Lock!TriggerEvs, W!Ready!Lock!Queued, W!Ready!Lock!Request, W!Ready!Lock!Resume,
    W!Ready!Lock!Release, W!Ready!Lock!Cardinality, W!Ready!Cardinality

LEMMA ReadyOneTensorInNetwork == G!OneTensorInNetwork <=> W!Ready!OneTensorInNetwork
BY DEF
    G!Layer, G!OneTensorInNetwork, W!Ready!Layer, W!Ready!OneTensorInNetwork

LEMMA ReadyRoundsAreGated == G!RoundsAreGated <=> W!RoundsAreGated
BY DEF
    G!Layer, G!RoundsAreGated, W!Layer, W!RoundsAreGated

LEMMA ReadyStarts == Init /\ cs = "ready" => W!ReadyInv
BY ReadyInit, W!ReadyInit, AssumedWhole DEF Init

LEMMA ReadySteps ==
    ASSUME cs = "ready", cs \in Schedulers, W!ReadyInv, [Next]_vars
    PROVE  W!ReadyInv'
<1>1. [G!Next]_(G!vars)
  BY DEF Next, ByFifo, ByReady, ByByte, ByDrr, BySincronia, vars, lockVars,
      readyVars, byteVars, G!vars, G!trainingVars, G!schedulerVars
<1> QED
  BY ZenonT(60), <1>1, ReadyVars, ReadyNext, W!ReadyStep, AssumedWhole, OneJobIsTrained

LEMMA ReadyKeeps == W!ReadyInv => G!OneTensorInNetwork /\ G!RoundsAreGated
BY W!ReadyOne, W!ReadyGated, AssumedWhole, ReadyOneTensorInNetwork, ReadyRoundsAreGated

-----------------------------------------------------------------------------
\* ByteScheduler.
LEMMA ByteInit == Y!Init => P!Byte!Init
BY DEF
    Y!Layer, Y!Zero, Y!TrainingInit, Y!Init, P!Byte!Layer, P!Byte!Zero, P!Byte!TrainingInit,
    P!Byte!Init

LEMMA ByteVars == UNCHANGED Y!vars => UNCHANGED P!Byte!vars
BY DEF
    Y!trainingVars, Y!schedulerVars, Y!vars, P!Byte!trainingVars, P!Byte!schedulerVars,
    P!Byte!vars

LEMMA ByteNext == Y!Next => P!Byte!Next
BY ZenonT(60) DEF
    Y!Layer, Y!trainingVars, Y!Workers, Y!NWorkers, Y!Plus, Y!MayForward, Y!Forward,
    Y!MoreIterations, Y!Advance, Y!StartAllreduce, Y!LastChunk, Y!CompleteAllreduce,
    Y!Drained, Y!Drain, Y!Leave, Y!LoopsOver, Y!RoundsOver, Y!Full, Y!Occurrences,
    Y!InvokedOn, Y!AwaitedOf, Y!AllDone, Y!schedulerVars, Y!vars, Y!IterOf, Y!GoesBefore,
    Y!Backward, Y!LastInvoked, Y!Popped, Y!Erased, Y!Quiet, Y!InvokeChunk, Y!Turn,
    Y!CleanUp, Y!Over, Y!LoopStep, Y!RoundStep, Y!Next, Y!Cardinality, P!Byte!Layer,
    P!Byte!trainingVars, P!Byte!Workers, P!Byte!NWorkers, P!Byte!Plus, P!Byte!MayForward,
    P!Byte!Forward, P!Byte!MoreIterations, P!Byte!Advance, P!Byte!StartAllreduce,
    P!Byte!LastChunk, P!Byte!CompleteAllreduce, P!Byte!Drained, P!Byte!Drain, P!Byte!Leave,
    P!Byte!LoopsOver, P!Byte!RoundsOver, P!Byte!Full, P!Byte!Occurrences, P!Byte!InvokedOn,
    P!Byte!AwaitedOf, P!Byte!AllDone, P!Byte!schedulerVars, P!Byte!vars, P!Byte!IterOf,
    P!Byte!GoesBefore, P!Byte!Backward, P!Byte!LastInvoked, P!Byte!Popped, P!Byte!Erased,
    P!Byte!Quiet, P!Byte!InvokeChunk, P!Byte!Turn, P!Byte!CleanUp, P!Byte!Over,
    P!Byte!LoopStep, P!Byte!RoundStep, P!Byte!Next, P!Byte!Cardinality

LEMMA ByteOneTensorInNetwork == Y!OneTensorInNetwork <=> P!Byte!OneTensorInNetwork
BY DEF
    Y!Layer, Y!OneTensorInNetwork, P!Byte!Layer, P!Byte!OneTensorInNetwork

LEMMA ByteRoundsAreGated == Y!RoundsAreGated <=> P!RoundsAreGated
BY DEF
    Y!Layer, Y!RoundsAreGated, P!Layer, P!RoundsAreGated

LEMMA ByteChunksInvokedOnce == Y!ChunksInvokedOnce <=> P!Byte!ChunksInvokedOnce
BY DEF
    Y!Layer, Y!Enqueued, Y!ChunksInvokedOnce, P!Byte!Layer, P!Byte!Enqueued,
    P!Byte!ChunksInvokedOnce

LEMMA ByteStarts == Init /\ cs = "byte" => P!ByteInv
BY ByteInit, P!ByteInit, Assumed DEF Init

LEMMA ByteSteps ==
    ASSUME cs = "byte", cs \in Schedulers, P!ByteInv, [Next]_vars
    PROVE  P!ByteInv'
<1>1. [Y!Next]_(Y!vars)
  BY DEF Next, ByFifo, ByReady, ByByte, ByDrr, BySincronia, vars, lockVars,
      readyVars, byteVars, Y!vars, Y!trainingVars, Y!schedulerVars
<1> QED
  BY ZenonT(60), <1>1, ByteVars, ByteNext, P!ByteStep, Assumed, OneJobIsTrained

LEMMA ByteKeeps ==
    P!ByteInv => Y!OneTensorInNetwork /\ Y!RoundsAreGated /\ Y!ChunksInvokedOnce
BY P!ByteOne, P!ByteGated, P!ByteOnce, Assumed, ByteOneTensorInNetwork, ByteRoundsAreGated,
   ByteChunksInvokedOnce

-----------------------------------------------------------------------------
\* DeficitRoundRobin.
LEMMA DrrInit == D!Init => P!D!Init
BY DEF
    D!Layer, D!Job, D!Zero, D!TrainingInit, D!NoQuantums, D!Init, D!IsFiniteSet, P!D!Layer,
    P!D!Job, P!D!Zero, P!D!TrainingInit, P!D!NoQuantums, P!D!Init, P!D!IsFiniteSet

LEMMA DrrVars == UNCHANGED D!vars => UNCHANGED P!D!vars
BY DEF
    D!trainingVars, D!schedulerVars, D!vars, P!D!trainingVars, P!D!schedulerVars, P!D!vars

LEMMA DrrNext == D!Next => P!D!Next
BY ZenonT(60) DEF
    D!Layer, D!Job, D!trainingVars, D!Workers, D!NWorkers, D!Plus, D!MayForward, D!Forward,
    D!MoreIterations, D!Advance, D!BackwardAlone, D!StartAllreduce, D!LastChunk,
    D!CompleteAllreduce, D!Drained, D!Drain, D!Leave, D!LoopsOver, D!RoundsOver, D!Full,
    D!AllDone, D!WidsAllocated, D!Uplinks, D!Accommodate, D!Wids, D!schedulerVars, D!vars,
    D!KeyOf, D!NoQuantums, D!Entry, D!Known, D!Push, D!UpdateMaps, D!IterOf, D!Top,
    D!Filled, D!AllEmpty, D!Backward, D!Addable, D!Joined, D!Involved, D!TopOf,
    D!LastInvoked, D!InvokeChunks, D!NextIdx, D!Turn, D!LeaveLoop, D!Without, D!CleanUp,
    D!Over, D!LoopStep, D!RoundStep, D!Next, D!Range, D!IsFiniteSet, D!Cardinality,
    P!D!Layer, P!D!Job, P!D!trainingVars, P!D!Workers, P!D!NWorkers, P!D!Plus,
    P!D!MayForward, P!D!Forward, P!D!MoreIterations, P!D!Advance, P!D!BackwardAlone,
    P!D!StartAllreduce, P!D!LastChunk, P!D!CompleteAllreduce, P!D!Drained, P!D!Drain,
    P!D!Leave, P!D!LoopsOver, P!D!RoundsOver, P!D!Full, P!D!AllDone, P!D!WidsAllocated,
    P!D!Uplinks, P!D!Accommodate, P!D!Wids, P!D!schedulerVars, P!D!vars, P!D!KeyOf,
    P!D!NoQuantums, P!D!Entry, P!D!Known, P!D!Push, P!D!UpdateMaps, P!D!IterOf, P!D!Top,
    P!D!Filled, P!D!AllEmpty, P!D!Backward, P!D!Addable, P!D!Joined, P!D!Involved,
    P!D!TopOf, P!D!LastInvoked, P!D!InvokeChunks, P!D!NextIdx, P!D!Turn, P!D!LeaveLoop,
    P!D!Without, P!D!CleanUp, P!D!Over, P!D!LoopStep, P!D!RoundStep, P!D!Next, P!D!Range,
    P!D!IsFiniteSet, P!D!Cardinality

LEMMA DrrLinksAreExclusive == D!LinksAreExclusive <=> P!LinksAreExclusive
BY DEF
    D!Layer, D!Job, D!Workers, D!WidsAllocated, D!Uplinks, D!InNetwork,
    D!LinksAreExclusive, D!IsFiniteSet, D!Cardinality, P!Layer, P!Job, P!Workers,
    P!WidsAllocated, P!Uplinks, P!InNetwork, P!LinksAreExclusive, P!IsFiniteSet,
    P!Cardinality

LEMMA DrrRoundsAreGated == D!RoundsAreGated <=> P!RoundsAreGated
BY DEF
    D!Layer, D!RoundsAreGated, P!Layer, P!RoundsAreGated

LEMMA DrrChunksInvokedOnce == D!ChunksInvokedOnce <=> P!D!ChunksInvokedOnce
BY DEF
    D!Layer, D!Enqueued, D!ChunksInvokedOnce, P!D!Layer, P!D!Enqueued, P!D!ChunksInvokedOnce

LEMMA DrrEnqueuesKept == D!EnqueuesKept <=> P!D!EnqueuesKept
BY DEF
    D!Layer, D!Workers, D!NWorkers, D!Enqueued, D!Kept, D!Occurrences, D!KeyOf,
    D!EnqueuesKept, D!Range, D!Cardinality, P!D!Layer, P!D!Workers, P!D!NWorkers,
    P!D!Enqueued, P!D!Kept, P!D!Occurrences, P!D!KeyOf, P!D!EnqueuesKept, P!D!Range,
    P!D!Cardinality

LEMMA DrrStarts == Init /\ cs = "drr" => P!DrrInv
BY DrrInit, P!DrrInit, Assumed DEF Init

LEMMA DrrSteps ==
    ASSUME cs = "drr", P!DrrInv, [Next]_vars
    PROVE  P!DrrInv'
<1>1. [D!Next]_(D!vars)
  BY DEF Next, ByFifo, ByReady, ByByte, ByDrr, BySincronia, vars, lockVars,
      drrVars, readyVars, D!vars, D!trainingVars, D!schedulerVars
<1> QED
  BY ZenonT(60), <1>1, DrrVars, DrrNext, P!DrrStep, Assumed

LEMMA DrrKeeps ==
    P!DrrInv =>
        D!LinksAreExclusive /\ D!RoundsAreGated /\ D!ChunksInvokedOnce /\ D!EnqueuesKept
BY P!DrrLinks, P!DrrGated, P!DrrOnce, P!DrrKept, Assumed, DrrLinksAreExclusive, DrrRoundsAreGated,
   DrrChunksInvokedOnce, DrrEnqueuesKept

-----------------------------------------------------------------------------
\* Sincronia.
LEMMA SincInit == S!Init => P!Sinc!Init
BY DEF
    S!Layer, S!Job, S!Zero, S!TrainingInit, S!Key, S!Init, S!IsFiniteSet, P!Sinc!Layer,
    P!Sinc!Job, P!Sinc!Zero, P!Sinc!TrainingInit, P!Sinc!Key, P!Sinc!Init,
    P!Sinc!IsFiniteSet

LEMMA SincVars == UNCHANGED S!vars => UNCHANGED P!Sinc!vars
BY DEF
    S!trainingVars, S!schedulerVars, S!vars, P!Sinc!trainingVars, P!Sinc!schedulerVars,
    P!Sinc!vars

LEMMA SincNext == S!Next => P!Sinc!Next
BY ZenonT(60) DEF
    S!Layer, S!Job, S!trainingVars, S!Workers, S!NWorkers, S!Plus, S!MayForward, S!Forward,
    S!MoreIterations, S!Advance, S!BackwardAlone, S!StartAllreduce, S!LastChunk,
    S!CompleteAllreduce, S!Drained, S!Drain, S!Leave, S!LoopsOver, S!RoundsOver,
    S!Occurrences, S!AllDone, S!WidsAllocated, S!Uplinks, S!Accommodate, S!Wids, S!Key,
    S!schedulerVars, S!vars, S!KeyOf, S!BecomesReady, S!Backward, S!Cleanable, S!Left,
    S!Selections, S!Shortened, S!Cleaned, S!Involved, S!LastInvoked, S!Without, S!Invoke,
    S!Continue, S!Orders, S!Turn, S!LeaveLoop, S!CleanUp, S!Over, S!LoopStep, S!RoundStep,
    S!Next, S!IsInjective, S!Injection, S!IsFiniteSet, S!Cardinality, P!Sinc!Layer,
    P!Sinc!Job, P!Sinc!trainingVars, P!Sinc!Workers, P!Sinc!NWorkers, P!Sinc!Plus,
    P!Sinc!MayForward, P!Sinc!Forward, P!Sinc!MoreIterations, P!Sinc!Advance,
    P!Sinc!BackwardAlone, P!Sinc!StartAllreduce, P!Sinc!LastChunk, P!Sinc!CompleteAllreduce,
    P!Sinc!Drained, P!Sinc!Drain, P!Sinc!Leave, P!Sinc!LoopsOver, P!Sinc!RoundsOver,
    P!Sinc!Occurrences, P!Sinc!AllDone, P!Sinc!WidsAllocated, P!Sinc!Uplinks,
    P!Sinc!Accommodate, P!Sinc!Wids, P!Sinc!Key, P!Sinc!schedulerVars, P!Sinc!vars,
    P!Sinc!KeyOf, P!Sinc!BecomesReady, P!Sinc!Backward, P!Sinc!Cleanable, P!Sinc!Left,
    P!Sinc!Selections, P!Sinc!Shortened, P!Sinc!Cleaned, P!Sinc!Involved,
    P!Sinc!LastInvoked, P!Sinc!Without, P!Sinc!Invoke, P!Sinc!Continue, P!Sinc!Orders,
    P!Sinc!Turn, P!Sinc!LeaveLoop, P!Sinc!CleanUp, P!Sinc!Over, P!Sinc!LoopStep,
    P!Sinc!RoundStep, P!Sinc!Next, P!Sinc!IsInjective, P!Sinc!Injection, P!Sinc!IsFiniteSet,
    P!Sinc!Cardinality

LEMMA SincLinksAreExclusive == S!LinksAreExclusive <=> P!LinksAreExclusive
BY DEF
    S!Layer, S!Job, S!Workers, S!WidsAllocated, S!Uplinks, S!InNetwork,
    S!LinksAreExclusive, S!IsFiniteSet, S!Cardinality, P!Layer, P!Job, P!Workers,
    P!WidsAllocated, P!Uplinks, P!InNetwork, P!LinksAreExclusive, P!IsFiniteSet,
    P!Cardinality

LEMMA SincRoundsAreGated == S!RoundsAreGated <=> P!RoundsAreGated
BY DEF
    S!Layer, S!RoundsAreGated, P!Layer, P!RoundsAreGated

LEMMA SincChunksInvokedOnce == S!ChunksInvokedOnce <=> P!Sinc!ChunksInvokedOnce
BY DEF
    S!Layer, S!Enqueued, S!ChunksInvokedOnce, P!Sinc!Layer, P!Sinc!Enqueued,
    P!Sinc!ChunksInvokedOnce

LEMMA SincEnqueuesKept == S!EnqueuesKept <=> P!Sinc!EnqueuesKept
BY DEF
    S!Layer, S!Workers, S!NWorkers, S!Enqueued, S!Kept, S!Occurrences, S!KeyOf,
    S!EnqueuesKept, S!Cardinality, P!Sinc!Layer, P!Sinc!Workers, P!Sinc!NWorkers,
    P!Sinc!Enqueued, P!Sinc!Kept, P!Sinc!Occurrences, P!Sinc!KeyOf, P!Sinc!EnqueuesKept,
    P!Sinc!Cardinality

LEMMA SincStarts == Init /\ cs = "sincronia" => P!SincInv
BY SincInit, P!SincInit, Assumed DEF Init

LEMMA SincSteps ==
    ASSUME cs = "sincronia", P!SincInv, [Next]_vars
    PROVE  P!SincInv'
<1>1. [S!Next]_(S!vars)
  BY DEF Next, ByFifo, ByReady, ByByte, ByDrr, BySincronia, vars, lockVars,
      drrVars, readyVars, S!vars, S!trainingVars, S!schedulerVars
<1> QED
  BY ZenonT(60), <1>1, SincVars, SincNext, P!SincStep, Assumed

LEMMA SincKeeps ==
    P!SincInv =>
        S!LinksAreExclusive /\ S!RoundsAreGated /\ S!ChunksInvokedOnce /\ S!EnqueuesKept
BY P!SincLinks, P!SincGated, P!SincOnce, P!SincKept, Assumed, SincLinksAreExclusive, SincRoundsAreGated,
   SincChunksInvokedOnce, SincEnqueuesKept

-----------------------------------------------------------------------------
(* The choice of a scheduler.                                                *)

\* The invariant of the chosen scheduler.
Composed ==
    /\ cs \in Schedulers
    /\ cs = "fifo" => W!FifoInv
    /\ cs = "ready" => W!ReadyInv
    /\ cs = "byte" => P!ByteInv
    /\ cs = "drr" => P!DrrInv
    /\ cs = "sincronia" => P!SincInv

LEMMA ComposedInit == Init => Composed
BY FifoStarts, ReadyStarts, ByteStarts, DrrStarts, SincStarts DEF Init, Composed

\* The choice is kept, and with it the invariant.
LEMMA ComposedStep == Composed /\ [Next]_vars => Composed'
<1> SUFFICES ASSUME Composed, [Next]_vars PROVE Composed'
  OBVIOUS
<1>1. cs' = cs
  BY DEF Next, ByFifo, ByReady, ByByte, ByDrr, BySincronia, vars
<1> QED
  BY <1>1, FifoSteps, ReadySteps, ByteSteps, DrrSteps, SincSteps DEF Composed

\* It implies what the run checks.
LEMMA ComposedKeeps ==
    Composed => /\ OneTensorInNetwork /\ LinksAreExclusive /\ RoundsAreGated
                /\ ChunksInvokedOnce /\ EnqueuesKept
<1> SUFFICES ASSUME Composed
             PROVE  /\ OneTensorInNetwork /\ LinksAreExclusive /\ RoundsAreGated
                    /\ ChunksInvokedOnce /\ EnqueuesKept
  OBVIOUS
<1>1. cs \in {"fifo", "ready", "byte", "drr", "sincronia"}
  BY SchedulersAssumption DEF Composed
<1>2. CASE cs = "fifo"
  BY <1>2, FifoKeeps
  DEF Composed, OneTensorInNetwork, LinksAreExclusive, RoundsAreGated, ChunksInvokedOnce,
      EnqueuesKept
<1>3. CASE cs = "ready"
  BY <1>3, ReadyKeeps
  DEF Composed, OneTensorInNetwork, LinksAreExclusive, RoundsAreGated, ChunksInvokedOnce,
      EnqueuesKept
<1>4. CASE cs = "byte"
  BY <1>4, ByteKeeps
  DEF Composed, OneTensorInNetwork, LinksAreExclusive, RoundsAreGated, ChunksInvokedOnce,
      EnqueuesKept
<1>5. CASE cs = "drr"
  BY <1>5, DrrKeeps
  DEF Composed, OneTensorInNetwork, LinksAreExclusive, RoundsAreGated, ChunksInvokedOnce,
      EnqueuesKept
<1>6. CASE cs = "sincronia"
  BY <1>6, SincKeeps
  DEF Composed, OneTensorInNetwork, LinksAreExclusive, RoundsAreGated, ChunksInvokedOnce,
      EnqueuesKept
<1> QED
  BY <1>1, <1>2, <1>3, <1>4, <1>5, <1>6

LEMMA AlwaysComposed == Spec => []Composed
BY ComposedInit, ComposedStep, PTL DEF Spec

LEMMA AlwaysKept ==
    Spec => [](/\ OneTensorInNetwork /\ LinksAreExclusive /\ RoundsAreGated
               /\ ChunksInvokedOnce /\ EnqueuesKept)
BY AlwaysComposed, ComposedKeeps, PTL

\* Under the schedulers that send one tensor at a time, the allreduces in the network
\* belong to one tensor of one job.
THEOREM SchedulersSendOneTensor == Spec => []OneTensorInNetwork
BY AlwaysKept, PTL

\* Under the schedulers that let jobs share the network, the jobs in it together share no
\* worker and no link.
THEOREM SchedulersKeepLinksApart == Spec => []LinksAreExclusive
BY AlwaysKept, PTL

\* Whichever scheduler main chooses, no worker calls a round of a tensor before every
\* worker of the job has ended the one before it: what Worker::allreduce assumes.
THEOREM SchedulersGateRounds == Spec => []RoundsAreGated
BY AlwaysKept, PTL

\* Under the schedulers that split a tensor, a worker invokes each chunk once per iteration.
THEOREM SchedulersInvokeChunksOnce == Spec => []ChunksInvokedOnce
BY AlwaysKept, PTL

\* Under all but ReadyAndGo and ByteScheduler, no enqueue is lost or invoked twice.
THEOREM SchedulersKeepEnqueues == Spec => []EnqueuesKept
BY AlwaysKept, PTL

\* FirstInFirstOutOneByOne implements the gate that AllReduce can put on its rounds.
THEOREM SchedulersImplementGatedFabric == Spec => GatedFabricSpec
<1>1. Composed /\ [Next]_vars => [Fabric!Next]_(Fabric!vars)
  BY FabricSteps DEF Composed
<1> QED
  BY AlwaysComposed, FabricInits, <1>1, PTL DEF Spec, GatedFabricSpec, Fabric!Spec
=============================================================================
