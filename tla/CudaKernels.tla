----------------------------- MODULE CudaKernels -----------------------------
(***************************************************************************)
(* The CUDA device at one operation of a program, or at the three of a     *)
(* mixture of experts: what the host puts on the stream, and the kernels.  *)
(***************************************************************************)
EXTENDS CudaRows, CudaExperts, CudaTopK, CudaAttention

CONSTANT Jobs   \* the operations tried, with their shapes and inputs

\* A block has at most 1024 threads.
ASSUME JobsAssumption ==
  \A j \in Jobs : j.kind = "rows" => {j.rows, j.hidden} \subseteq Nat /\ j.depth \in 0..10

Operations ==
  IF job.kind = "experts" THEN <<"gather", "matmul", "scatter">> ELSE <<job.kind>>
Arrays ==
  CASE job.kind = "rows" -> RowArrays
    [] job.kind = "experts" -> ExpertArrays
    [] job.kind = "topk" -> TopKArrays
    [] job.kind = "attention" -> AttentionArrays

KernelsInit ==
  /\ job \in Jobs
  /\ todo = Operations /\ stream = <<>> /\ at = <<>> /\ reg = <<>> /\ shared = <<>>
  /\ memory = Arrays /\ failures = {}

Host == LaunchRows \/ ExpertHost \/ LaunchTopK \/ AttentionHost
Step(t) == RowStep(t) \/ ExpertStep(t) \/ TopKStep(t) \/ AttentionStep(t)
Device == Memory \/ Begin \/ Finish \/ Multiply \/ \E t \in DOMAIN at : Step(t)

\* Nothing but the end stops a kernel: no block waits for a thread that left it.
Rest == Done /\ UNCHANGED deviceVars

KernelsNext == Host \/ Device \/ Rest
KernelsSpec == KernelsInit /\ [][KernelsNext]_deviceVars
=============================================================================
