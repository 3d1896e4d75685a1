---------------------------- MODULE BackupPipeline ----------------------------
(***************************************************************************)
(* The backup command of pkg/backup. Command.Run takes the workload types  *)
(* one after the other; for each, runPipeline starts three stages in an    *)
(* errgroup: discovery, a pool of dependency resolvers (an errgroup of its *)
(* own) and a writer, joined by two buffered channels of MaxWorkers        *)
(* elements. A stage blocks in a select on its channel and on its context. *)
(*                                                                         *)
(* There are three contexts, each derived from the one before: the root,   *)
(* which a deadline cancels; the pipeline's, which also the first stage to *)
(* return an error cancels; and the pool's, which also the first worker to *)
(* return an error cancels. Cancelling a context and passing it on to the  *)
(* next one are separate steps. When a select finds several of its cases   *)
(* ready it takes any of them, so a cancelled stage may go on for a while. *)
(*                                                                         *)
(* A request made under a cancelled context fails. One that was answered   *)
(* just before is modelled by its step being taken just before.            *)
(***************************************************************************)
EXTENDS BackupInputs

CONSTANTS
    MaxWorkers,   \* --max-workers, after Complete: workers and buffer size
    Resolvable,   \* types with a dependency resolver (none: --dependencies=false)
    ConfigMaps, PVCs, Secrets,     \* the kinds of Deps
    Verbose,      \* --verbose
    DryRun,       \* --dry-run, which Complete makes verbose
    Nobody        \* the item of a goroutine that has none

ASSUME PipelineAssumption ==
    /\ MaxWorkers \in Nat \ {0}
    /\ Resolvable \subseteq Types
    /\ Deps = ConfigMaps \cup PVCs \cup Secrets
    /\ Verbose \in BOOLEAN
    /\ DryRun \in BOOLEAN
    /\ DryRun => Verbose
    /\ Nobody \notin Workloads

Workers == 1 .. MaxWorkers

(* WorkloadWithDeps: the dependencies that were fetched, and those whose   *)
(* Error is set.                                                           *)
Resolved == [item : Workloads, found : SUBSET Deps, errors : SUBSET Deps]
Unresolved(w) == [item |-> w, found |-> {}, errors |-> {}]

VARIABLES
    turn,            \* how many types have been started
    running,         \* runPipeline is executing for Includes[turn]
    result,          \* how each type ended
    root, ctx, poolCtx,            \* which contexts are cancelled
    disc, instances,               \* discovery: its state, what is unsent
    workloadCh, workloadClosed,
    pool, workers,                 \* the resolver stage and its goroutines
    resolvedCh, resolvedClosed,
    writer, writing,               \* the writer, the element it writes
    files,           \* objects written (with --dry-run: named as to be written)
    warned,          \* objects a warning names
    logged,          \* dependencies listed in the verbose output as failed
    listing          \* how each type's listing ended

contexts == <<root, ctx, poolCtx>>
discovery == <<disc, instances>>
channels == <<workloadCh, workloadClosed, resolvedCh, resolvedClosed>>
resolvers == <<pool, workers>>
writes == <<writer, writing>>
outputs == <<files, warned, logged>>
outcome == <<turn, result, running>>
vars == <<contexts, discovery, channels, resolvers, writes, outputs, outcome,
           listing>>

Ended == {"nil", "err"}
WorkerStates == {"recv", "resolve", "send"} \cup Ended
Listings == {"none", "ok", "denied", "error", "cancelled"}

TypeOK ==
    /\ turn \in 0 .. Len(Includes)
    /\ running \in BOOLEAN
    /\ running => turn # 0
    /\ result \in [Turns -> Results]
    /\ listing \in [Turns -> Listings]
    /\ root \in BOOLEAN /\ ctx \in BOOLEAN /\ poolCtx \in BOOLEAN
    /\ disc \in {"list", "send"} \cup Ended
    /\ instances \in Seq(Workloads)
    /\ workloadCh \in Seq(Workloads) /\ Len(workloadCh) <= MaxWorkers
    /\ resolvedCh \in Seq(Resolved) /\ Len(resolvedCh) <= MaxWorkers
    /\ workloadClosed \in BOOLEAN /\ resolvedClosed \in BOOLEAN
    /\ pool \in {"run"} \cup Ended
    /\ workers \in [Workers -> [pc : WorkerStates,
                                job : Resolved \cup {Unresolved(Nobody)}]]
    /\ \A p \in Workers :
         workers[p].pc \in {"resolve", "send"} => workers[p].job \in Resolved
    /\ writer \in {"recv", "write"} \cup Ended
    /\ writing \in Resolved \cup {Unresolved(Nobody)}
    /\ writer = "write" => writing \in Resolved
    /\ files \subseteq Workloads \cup Deps
    /\ warned \subseteq Workloads \cup Deps
    /\ logged \subseteq Deps

Idle == [pc |-> "recv", job |-> Unresolved(Nobody)]

Init ==
    /\ turn = 0
    /\ running = FALSE
    /\ result = [i \in Turns |-> "pending"]
    /\ listing = [i \in Turns |-> "none"]
    /\ root = FALSE /\ ctx = FALSE /\ poolCtx = FALSE
    /\ disc = "nil" /\ instances = <<>>
    /\ workloadCh = <<>> /\ workloadClosed = TRUE
    /\ resolvedCh = <<>> /\ resolvedClosed = TRUE
    /\ pool = "nil" /\ workers = [p \in Workers |-> Idle]
    /\ writer = "nil" /\ writing = Unresolved(Nobody)
    /\ files = {} /\ warned = {} /\ logged = {}

-----------------------------------------------------------------------------
(* The command: runPipeline, type after type.                              *)

(* A mutant: the errgroup's context of the type before is used again.      *)
StartSharedContext ==
    /\ ~running
    /\ turn < Len(Includes)
    /\ turn' = turn + 1
    /\ running' = TRUE
    /\ disc' = "list" /\ instances' = <<>>
    /\ workloadCh' = <<>> /\ workloadClosed' = FALSE
    /\ resolvedCh' = <<>> /\ resolvedClosed' = FALSE
    /\ pool' = "run" /\ workers' = [p \in Workers |-> Idle]
    /\ writer' = "recv" /\ writing' = Unresolved(Nobody)
    /\ UNCHANGED <<contexts, outputs, result, listing>>

(* Fresh channels, a fresh errgroup and context, the goroutines started.   *)
Start ==
    /\ ~running
    /\ turn < Len(Includes)
    /\ turn' = turn + 1
    /\ running' = TRUE
    /\ ctx' = root /\ poolCtx' = root
    /\ disc' = "list" /\ instances' = <<>>
    /\ workloadCh' = <<>> /\ workloadClosed' = FALSE
    /\ resolvedCh' = <<>> /\ resolvedClosed' = FALSE
    /\ pool' = "run" /\ workers' = [p \in Workers |-> Idle]
    /\ writer' = "recv" /\ writing' = Unresolved(Nobody)
    /\ UNCHANGED <<root, outputs, result, listing>>

(* g.Wait returns once the three stages have; an error of any of them is a *)
(* warning, and the loop goes on with the next type.                       *)
Wait ==
    /\ running
    /\ {disc, pool, writer} \subseteq Ended
    /\ running' = FALSE
    /\ result' = [result EXCEPT ![turn] =
                    IF "err" \in {disc, pool, writer} THEN "failed" ELSE "ok"]
    /\ UNCHANGED <<turn, contexts, discovery, channels, resolvers, writes,
                   outputs, listing>>

Finished == ~running /\ turn = Len(Includes)

(* The command's timeout. *)
Deadline ==
    /\ ~root
    /\ ~Finished
    /\ root' = TRUE
    /\ UNCHANGED <<ctx, poolCtx, discovery, channels, resolvers, writes,
                   outputs, outcome, listing>>

(* errgroup cancels its context when its parent is cancelled and when the  *)
(* first of its functions has returned an error.                           *)
CancelPipeline ==
    /\ running
    /\ ~ctx
    /\ root \/ "err" \in {disc, pool, writer}
    /\ ctx' = TRUE
    /\ UNCHANGED <<root, poolCtx, discovery, channels, resolvers, writes,
                   outputs, outcome, listing>>

CancelPool ==
    /\ running
    /\ ~poolCtx
    /\ \/ ctx
       \/ \E p \in Workers : workers[p].pc = "err"
    /\ poolCtx' = TRUE
    /\ UNCHANGED <<root, ctx, discovery, channels, resolvers, writes,
                   outputs, outcome, listing>>

-----------------------------------------------------------------------------
(* Stage 1: DiscoveryStage.Run. Its channel is closed when it returns.     *)

DiscoveryStep ==
    /\ running
    /\ UNCHANGED <<contexts, resolvers, resolvedCh, resolvedClosed, writes,
                   outputs, outcome>>

(* ListResources answers, with nothing where listing the type is denied.   *)
List ==
    /\ DiscoveryStep
    /\ disc = "list"
    /\ ~ctx
    /\ disc' = "send"
    /\ \/ /\ instances' = Instances[Includes[turn]]
          /\ listing' = [listing EXCEPT ![turn] = "ok"]
       \/ /\ instances' = <<>>
          /\ listing' = [listing EXCEPT ![turn] = "denied"]
    /\ UNCHANGED <<workloadCh, workloadClosed>>

ListFails ==
    /\ DiscoveryStep
    /\ disc = "list"
    /\ disc' = "err"
    /\ workloadClosed' = TRUE
    /\ listing' = [listing EXCEPT ![turn] =
                     IF ctx THEN "cancelled" ELSE "error"]
    /\ UNCHANGED <<instances, workloadCh>>

SendWorkload ==
    /\ DiscoveryStep
    /\ disc = "send"
    /\ instances # <<>>
    /\ Len(workloadCh) < MaxWorkers
    /\ workloadCh' = Append(workloadCh, Head(instances))
    /\ instances' = Tail(instances)
    /\ UNCHANGED <<disc, workloadClosed, listing>>

DiscoveryReturns ==
    /\ DiscoveryStep
    /\ disc = "send"
    /\ \/ /\ instances = <<>>
          /\ disc' = "nil"
       \/ /\ instances # <<>>
          /\ ctx
          /\ disc' = "err"
    /\ workloadClosed' = TRUE
    /\ UNCHANGED <<instances, workloadCh, listing>>

Discovery == List \/ ListFails \/ SendWorkload \/ DiscoveryReturns
-----------------------------------------------------------------------------
(* Stage 2: ResolverStage.Run and its workers.                             *)

WorkerStep ==
    /\ running
    /\ UNCHANGED <<contexts, discovery, workloadClosed, pool, resolvedClosed,
                   writes, files, outcome, listing>>

(* A mutant: the element stays in the channel and is handed out again.     *)
ReceiveTwice(p) ==
    /\ WorkerStep
    /\ workers[p].pc = "recv"
    /\ workloadCh # <<>>
    /\ workers' = [workers EXCEPT ![p] =
                    [pc |-> "resolve", job |-> Unresolved(Head(workloadCh))]]
    /\ UNCHANGED <<workloadCh, resolvedCh, warned, logged>>

Receive(p) ==
    /\ WorkerStep
    /\ workers[p].pc = "recv"
    /\ workloadCh # <<>>
    /\ workloadCh' = Tail(workloadCh)
    /\ workers' = [workers EXCEPT ![p] =
                    [pc |-> "resolve", job |-> Unresolved(Head(workloadCh))]]
    /\ UNCHANGED <<resolvedCh, warned, logged>>

(* GetResolver: without a resolver no dependencies are looked for.         *)
HasResolver(t) == t \in Resolvable

(* The names of one kind that an instance's volumes and containers, or the *)
(* fields of a pipelines application, refer to; cluster CA bundles are not *)
(* in Refs, being left out on purpose.                                     *)
Names(w, kind) == Refs[w] \cap kind

(* A mutant: failed requests leave no error behind.                        *)
FetchDroppingErrors(names, answered) ==
    [found |-> names \cap answered, errors |-> {}]

(* Of the names asked for, some are fetched; every other request failed,   *)
(* was denied or found nothing, and its error is kept under its name.      *)
FetchResourcesByNameWithErrors(names, answered) ==
    [found |-> names \cap answered, errors |-> names \ answered]

(* The names without an answer are dropped.                                *)
FetchResourcesByName(names, answered) ==
    FetchResourcesByNameWithErrors(names, answered).found

ResolveConfigMaps(w, answered) ==
    FetchResourcesByName(Names(w, ConfigMaps), answered)
ResolvePVCs(w, answered) ==
    FetchResourcesByName(Names(w, PVCs), answered)
ResolveSecrets(w, answered) ==
    FetchResourcesByNameWithErrors(Names(w, Secrets), answered)

(* Resolver.Resolve, of notebooks and of pipelines applications, for an    *)
(* instance and the dependencies whose requests were answered.             *)
Resolve(w, answered) ==
    LET secrets == ResolveSecrets(w, answered)
    IN  [item |-> w,
         found |-> ResolveConfigMaps(w, answered) \cup secrets.found
                       \cup ResolvePVCs(w, answered),
         errors |-> secrets.errors]

(* resolveWorkload; verbose output lists the failed dependencies.          *)
ResolveWorkload(p) ==
    /\ WorkerStep
    /\ workers[p].pc = "resolve"
    /\ \E answered \in SUBSET Refs[workers[p].job.item] :
         /\ poolCtx => answered = {}
         /\ LET job == IF HasResolver(Includes[turn])
                       THEN Resolve(workers[p].job.item, answered)
                       ELSE workers[p].job
            IN  /\ workers' = [workers EXCEPT ![p] =
                                [pc |-> "send", job |-> job]]
                /\ logged' = IF Verbose THEN logged \cup job.errors ELSE logged
    /\ UNCHANGED <<workloadCh, resolvedCh, warned>>

(* The instance cannot be read (its volumes or containers do not parse):   *)
(* a warning, and the worker goes on. Only a resolver reads it.            *)
ResolveFails(p) ==
    /\ WorkerStep
    /\ workers[p].pc = "resolve"
    /\ HasResolver(Includes[turn])
    /\ warned' = warned \cup {workers[p].job.item}
    /\ workers' = [workers EXCEPT ![p] = Idle]
    /\ UNCHANGED <<workloadCh, resolvedCh, logged>>

\* Mutant: the buffer has no limit.
SendUnbounded(p) ==
    /\ WorkerStep
    /\ workers[p].pc = "send"
    /\ resolvedCh' = Append(resolvedCh, workers[p].job)
    /\ workers' = [workers EXCEPT ![p] = Idle]
    /\ UNCHANGED <<workloadCh, warned, logged>>

SendResolved(p) ==
    /\ WorkerStep
    /\ workers[p].pc = "send"
    /\ Len(resolvedCh) < MaxWorkers
    /\ resolvedCh' = Append(resolvedCh, workers[p].job)
    /\ workers' = [workers EXCEPT ![p] = Idle]
    /\ UNCHANGED <<workloadCh, warned, logged>>

(* Mutants: a cancelled worker returns nil; the send is not in a select    *)
(* with the context.                                                       *)
WorkerReturnsNil(p) ==
    /\ WorkerStep
    /\ \/ /\ workers[p].pc \in {"recv", "send"}
          /\ poolCtx
       \/ /\ workers[p].pc = "recv"
          /\ workloadClosed /\ workloadCh = <<>>
    /\ workers' = [workers EXCEPT ![p].pc = "nil"]
    /\ UNCHANGED <<workloadCh, resolvedCh, warned, logged>>

WorkerSendBlocks(p) ==
    /\ WorkerStep
    /\ workers[p].pc = "recv"
    /\ \/ /\ poolCtx
          /\ workers' = [workers EXCEPT ![p].pc = "err"]
       \/ /\ workloadClosed /\ workloadCh = <<>>
          /\ workers' = [workers EXCEPT ![p].pc = "nil"]
    /\ UNCHANGED <<workloadCh, resolvedCh, warned, logged>>

(* The ctx.Done case of the two selects, with its error; and, where the    *)
(* input is closed and drained, the end of the loop.                       *)
WorkerReturns(p) ==
    /\ WorkerStep
    /\ \/ /\ workers[p].pc \in {"recv", "send"}
          /\ poolCtx
          /\ workers' = [workers EXCEPT ![p].pc = "err"]
       \/ /\ workers[p].pc = "recv"
          /\ workloadClosed /\ workloadCh = <<>>
          /\ workers' = [workers EXCEPT ![p].pc = "nil"]
    /\ UNCHANGED <<workloadCh, resolvedCh, warned, logged>>

Worker(p) ==
    \/ Receive(p) \/ ResolveWorkload(p) \/ ResolveFails(p)
    \/ SendResolved(p) \/ WorkerReturns(p)

(* A mutant: the first worker to return closes the output.                 *)
PoolReturnsEarly ==
    /\ running
    /\ pool = "run"
    /\ \E p \in Workers : workers[p].pc \in Ended
    /\ pool' = IF \E p \in Workers : workers[p].pc = "err"
               THEN "err" ELSE "nil"
    /\ resolvedClosed' = TRUE
    /\ UNCHANGED <<contexts, discovery, workloadCh, workloadClosed, workers,
                   resolvedCh, writes, outputs, outcome, listing>>

(* The pool's g.Wait, then the deferred close of its output.               *)
PoolReturns ==
    /\ running
    /\ pool = "run"
    /\ \A p \in Workers : workers[p].pc \in Ended
    /\ pool' = IF \E p \in Workers : workers[p].pc = "err"
               THEN "err" ELSE "nil"
    /\ resolvedClosed' = TRUE
    /\ UNCHANGED <<contexts, discovery, workloadCh, workloadClosed, workers,
                   resolvedCh, writes, outputs, outcome, listing>>
-----------------------------------------------------------------------------
(* Stage 3: WriterStage.Run.                                               *)

WriterStep ==
    /\ running
    /\ UNCHANGED <<contexts, discovery, workloadCh, workloadClosed, resolvers,
                   resolvedClosed, logged, outcome, listing>>

ReceiveResolved ==
    /\ WriterStep
    /\ writer = "recv"
    /\ resolvedCh # <<>>
    /\ writing' = Head(resolvedCh)
    /\ resolvedCh' = Tail(resolvedCh)
    /\ writer' = "write"
    /\ UNCHANGED <<files, warned>>

(* writeWorkloadWithDeps: the instance first; where that fails a warning,  *)
(* and its dependencies are not tried. A dependency that cannot be written *)
(* is a warning. A dry run only names the paths, and cannot fail.          *)
WriteWorkloadWithDeps ==
    /\ WriterStep
    /\ writer = "write"
    /\ writer' = "recv"
    /\ writing' = Unresolved(Nobody)
    /\ \/ \E failing \in SUBSET writing.found :
               /\ DryRun => failing = {}
               /\ files' = files \cup {writing.item} \cup (writing.found \ failing)
               /\ warned' = warned \cup failing
       \/ /\ ~DryRun
          /\ warned' = warned \cup {writing.item}
          /\ files' = files
    /\ UNCHANGED resolvedCh

(* A mutant: a closed channel ends the loop though elements are left in it.*)
WriterLeavesBuffer ==
    /\ WriterStep
    /\ writer = "recv"
    /\ \/ /\ ctx
          /\ writer' = "err"
       \/ /\ resolvedClosed
          /\ writer' = "nil"
    /\ UNCHANGED <<writing, resolvedCh, files, warned>>

WriterReturns ==
    /\ WriterStep
    /\ writer = "recv"
    /\ \/ /\ ctx
          /\ writer' = "err"
       \/ /\ resolvedClosed /\ resolvedCh = <<>>
          /\ writer' = "nil"
    /\ UNCHANGED <<writing, resolvedCh, files, warned>>

Writer == ReceiveResolved \/ WriteWorkloadWithDeps \/ WriterReturns
-----------------------------------------------------------------------------
Next ==
    \/ Start \/ Wait
    \/ Deadline \/ CancelPipeline \/ CancelPool
    \/ Discovery
    \/ \E p \in Workers : Worker(p)
    \/ PoolReturns
    \/ Writer

Spec == Init /\ [][Next]_vars

(* Every goroutine keeps being scheduled, and requests and writes return:  *)
(* the client's requests end with their context at the latest. Nothing is  *)
(* assumed of the deadline, which may never come.                          *)
Fairness ==
    /\ WF_vars(Start) /\ WF_vars(Wait)
    /\ WF_vars(CancelPipeline) /\ WF_vars(CancelPool)
    /\ WF_vars(Discovery)
    /\ \A p \in Workers : WF_vars(Worker(p))
    /\ WF_vars(PoolReturns)
    /\ WF_vars(Writer)

FairSpec == Spec /\ Fairness
-----------------------------------------------------------------------------
(* Properties.                                                             *)

(* No goroutine can send on a closed channel, which would crash the        *)
(* command: a channel is closed only when all its senders have returned,   *)
(* however cancellation, full buffers and the pool's Wait interleave.      *)
NoSendOnClosed ==
    running =>
        /\ workloadClosed => disc \in Ended
        /\ resolvedClosed => \A p \in Workers : workers[p].pc \in Ended

(* A type that ends without a warning has lost none of the instances its   *)
(* listing returned: each was written or named in a warning, even where    *)
(* the deadline passed while elements were in the buffers or held by a     *)
(* worker, and some of the goroutines went on after it.                    *)
NoSilentLoss ==
    \A i \in Turns :
        result[i] = "ok" /\ listing[i] = "ok" =>
            Range(Instances[Includes[i]]) \subseteq files \cup warned

(* Until the deadline passes, a type fails only because the API server     *)
(* failed its listing: neither the cancellation of an earlier type's       *)
(* contexts nor a failure to resolve or write an instance reaches it.      *)
FailureIsolated ==
    \A i \in Turns : result[i] = "failed" /\ ~root => listing[i] = "error"

(* What a saved instance refers to, for a type that ended without warning. *)
SavedRefs(i) ==
    IF result[i] = "ok" /\ listing[i] = "ok" /\ HasResolver(Includes[i])
    THEN UNION {Refs[w] : w \in files \cap Range(Instances[Includes[i]])}
    ELSE {}

(* In verbose mode the Secrets of every saved instance are accounted for:  *)
(* written, named in a warning, or listed as failed.                       *)
SecretsAccounted ==
    Verbose => \A i \in Turns :
        SavedRefs(i) \cap Secrets \subseteq files \cup warned \cup logged

(* docs/design.md: "By default, the backup command resolves and backs up   *)
(* all workload dependencies". So a dependency of a saved instance is      *)
(* written, or at least the output says that it was not.                   *)
DependenciesAccounted ==
    \A i \in Turns : SavedRefs(i) \subseteq files \cup warned \cup logged

(* The command ends, whatever fails and whenever the deadline passes: no   *)
(* stage waits for ever on a channel whose other end has returned.         *)
RunEnds == <>Finished

(* The instances in flight: unsent, in a channel or in a goroutine's hands.*)
Held == {workers[p].job.item : p \in Workers} \ {Nobody}
Buffered == {r.item : r \in Range(resolvedCh)}
InFlight ==
    Range(instances) \cup Range(workloadCh) \cup Held \cup Buffered
        \cup ({writing.item} \ {Nobody})

-----------------------------------------------------------------------------
(* The inductive invariant behind NoSilentLoss and FailureIsolated.        *)

(* Who may still send, and what an ended stage says of its goroutines.     *)
Closing ==
    running =>
        /\ workloadClosed <=> disc \in Ended
        /\ resolvedClosed <=> pool \in Ended
        /\ pool \in Ended => \A p \in Workers : workers[p].pc \in Ended
        /\ pool = "nil" => \A p \in Workers : workers[p].pc = "nil"

(* A goroutine that returned without an error has left nothing behind it,  *)
(* and one that waits for an element holds none.                           *)
Drained ==
    running =>
        /\ disc \in {"list", "nil"} => instances = <<>>
        /\ \A p \in Workers : workers[p].pc = "nil" =>
                workloadClosed /\ workloadCh = <<>>
        /\ \A p \in Workers : workers[p].pc \in {"recv", "nil"} =>
                workers[p].job = Unresolved(Nobody)
        /\ writer # "write" => writing = Unresolved(Nobody)
        /\ writer = "nil" => resolvedClosed /\ resolvedCh = <<>>

(* A listed instance is in flight until it is settled. *)
Conserved ==
    running /\ listing[turn] = "ok" =>
        Range(Instances[Includes[turn]]) \subseteq InFlight \cup files \cup warned

(* The types not yet reached, and the one at work, have no outcome. *)
InOrder ==
    /\ \A i \in Turns : i > turn \/ (running /\ i = turn) =>
            result[i] = "pending"
    /\ \A i \in Turns : i > turn \/ (running /\ i = turn /\ disc = "list") =>
            listing[i] = "none"

(* Without a deadline, whatever is cancelled or failed in a pipeline goes  *)
(* back to its failed listing.                                             *)
Isolated ==
    running /\ ~root =>
        \/ disc = "err" /\ listing[turn] = "error"
        \/ /\ ~ctx /\ ~poolCtx
           /\ "err" \notin {disc, pool, writer}
           /\ \A p \in Workers : workers[p].pc # "err"

IndInv ==
    /\ TypeOK /\ Closing /\ Drained /\ Conserved /\ InOrder /\ Isolated
    /\ NoSilentLoss /\ FailureIsolated

-----------------------------------------------------------------------------
(* What the refinement below needs besides.                                *)

(* An instance in flight is in one place, once.                            *)
HeldOnce ==
    \A p, q \in Workers : workers[p].job.item = workers[q].job.item =>
        p = q \/ workers[p].job.item = Nobody
ItemsOnce(s) == \A i, j \in DOMAIN s : s[i].item = s[j].item => i = j
Once ==
    running =>
        /\ IsInjective(instances) /\ IsInjective(workloadCh)
        /\ HeldOnce /\ ItemsOnce(resolvedCh)
        /\ Range(instances) \cap (Range(workloadCh) \cup Held \cup Buffered) = {}
        /\ Range(workloadCh) \cap (Held \cup Buffered) = {}
        /\ Held \cap Buffered = {}
        /\ writing.item \notin Range(instances) \cup Range(workloadCh)
                                  \cup Held \cup Buffered

(* What was found for an instance is among what it refers to. *)
OwnRefs(job) == job.item # Nobody => job.found \subseteq Refs[job.item]
FoundAreOwn ==
    /\ \A p \in Workers : OwnRefs(workers[p].job)
    /\ \A r \in Range(resolvedCh) : OwnRefs(r)
    /\ OwnRefs(writing)

(* Before the listing nothing is in flight. *)
ListedFirst == running /\ disc = "list" => InFlight = {}

RefInv == IndInv /\ Once /\ FoundAreOwn /\ ListedFirst
-----------------------------------------------------------------------------
(* The pipeline implements the sequential command: every listed instance   *)
(* is settled exactly once, and a type ends without a warning only when    *)
(* none is left in flight.                                                 *)
Sequential == INSTANCE BackupCommand WITH
    stage <- IF ~running THEN "idle"
             ELSE IF disc = "list" THEN "listing" ELSE "saving",
    open <- IF running THEN InFlight ELSE {}
ImplementsSequential == Sequential!Spec
=============================================================================
