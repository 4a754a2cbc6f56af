------------------------------ MODULE CryptoBench ------------------------------
(***************************************************************************)
(* The crypto benchmark of src/src-tools/netmodel/netmodel.cpp: the ranges *)
(* of threads, operations and message sizes to measure, the buffers each   *)
(* operation gets, and run_test_4buf, in which the main thread and its     *)
(* workers meet at two condition variables before the work is timed.       *)
(* Of the measured speed nothing matters; a sample is taken or not.        *)
(***************************************************************************)
EXTENDS Integers, Sequences, FiniteSets

CONSTANTS MaxThreads,   \* bound: threads of one measurement
          Cores,        \* hardware_concurrency()
          BenchSizes,   \* sizes the option rangeone may ask for
          BenchSamples  \* bench_opt.samples

ASSUME BenchConstants ==
  /\ MaxThreads \in Nat \ {0} /\ Cores \in Nat \ {0}
  /\ BenchSizes \subseteq Nat /\ BenchSamples \in Nat

VARIABLES benchPc,     \* the main thread
          todo_jobs,   \* measurements to do
          job,         \* the measurement under way
          worker_ready_countdown,
          worker_start_flag,
          bworker,     \* the worker threads
          result_sample  \* samples taken for this job

benchVars == <<benchPc, todo_jobs, job, worker_ready_countdown,
               worker_start_flag, bworker, result_sample>>

\* e_crypto_test: the operations by number.
AuthPoly == -10
VeriPoly == -11
EncrSalsa == -12
DecrSalsa == -13
MakeBox == -14
OpenBox == -15
EncrChacha == -16
DecrChacha == -17
VeriAuth == -20
AllOps == -100
e_crypto_test == {AuthPoly, VeriPoly, EncrSalsa, DecrSalsa, MakeBox, OpenBox,
                  EncrChacha, DecrChacha, VeriAuth}

Jobs == [thr : 1 .. MaxThreads, op : e_crypto_test \union {0}, size : BenchSizes]

BenchTypeOK ==
  /\ benchPc \in {"options", "next", "spawn", "check", "sleep", "go", "notify",
                  "join", "done", "throw"}
  /\ todo_jobs \subseteq Jobs
  /\ job \in Jobs
  /\ worker_ready_countdown \in 0 .. MaxThreads
  /\ worker_start_flag \in BOOLEAN
  /\ bworker \in [1 .. MaxThreads -> {"none", "new", "notify", "check", "sleep",
                                     "work", "done"}]
  /\ result_sample \in 0 .. BenchSamples

BenchInit ==
  /\ benchPc = "options"
  /\ todo_jobs = {}
  /\ job \in {j \in Jobs : j.thr = 1 /\ j.op = 0 /\ \A s \in BenchSizes : j.size <= s}
  /\ worker_ready_countdown = 0
  /\ worker_start_flag = FALSE
  /\ bworker = [n \in 1 .. MaxThreads |-> "none"]
  /\ result_sample = 0

\* t_crypt_opt::calculate turns -1 into the number of cores.
calculate(threads) == IF threads = -1 THEN Cores ELSE threads

\* -2 asks for every number of threads below twice the cores.
range_threadcount(threads) ==
  IF threads = -2 THEN 1 .. 2 * Cores - 1 ELSE {calculate(threads)}

range_crypto_op(op) == IF op = AllOps THEN e_crypto_test ELSE {op}

\* cryptotest_main: an unknown number of an operation throws when it is measured.
cryptotest_main(threads, op, sizes) ==
  /\ benchPc = "options"
  /\ todo_jobs' = {j \in Jobs : /\ j.thr \in range_threadcount(threads)
                                /\ j.op \in range_crypto_op(op) /\ j.size \in sizes}
  /\ benchPc' = "next"
  /\ UNCHANGED <<job, worker_ready_countdown, worker_start_flag, bworker, result_sample>>

\* The three nested loops over ordered sets.
Precedes(a, b) ==
  \/ a.thr < b.thr
  \/ a.thr = b.thr /\ a.op < b.op
  \/ a.thr = b.thr /\ a.op = b.op /\ a.size <= b.size

\* The sizes cryptotest_mesure_one gives the buffers msg, two and key.
OneTimeAuthBytes == 16
MacBytes == 16
Buffers(j) ==
  [msg |-> IF j.op = OpenBox THEN j.size + MacBytes ELSE j.size,
   two |-> IF j.op \in {AuthPoly, VeriPoly, VeriAuth} THEN OneTimeAuthBytes
           ELSE IF j.op = MakeBox THEN j.size + MacBytes ELSE j.size]

\* The bytes its function reads and writes; a box shorter than its
\* authenticator is refused.
Touched(j) ==
  [msg |-> j.size,
   two |-> IF j.op \in {AuthPoly, VeriPoly, VeriAuth} THEN OneTimeAuthBytes
           ELSE IF j.op = MakeBox THEN j.size + MacBytes
           ELSE IF j.op = OpenBox THEN (IF j.size < MacBytes THEN 0 ELSE j.size - MacBytes)
           ELSE j.size]

\* Four bytes of the result are the random state of the next iteration.
hash_state == 4

cryptotest_mesure_one ==
  /\ benchPc = "next"
  /\ IF todo_jobs = {} THEN benchPc' = "done" /\ UNCHANGED <<todo_jobs, job>>
     ELSE LET j == CHOOSE a \in todo_jobs : \A b \in todo_jobs : Precedes(a, b)
          IN  /\ job' = j
              /\ todo_jobs' = todo_jobs \ {j}
              /\ benchPc' = IF j.op \in e_crypto_test THEN "spawn" ELSE "throw"
  /\ result_sample' = 0
  /\ UNCHANGED <<worker_ready_countdown, worker_start_flag, bworker>>

\* A sample begins: the countdown and the flag are set before any worker is.
SpawnWorkers ==
  /\ benchPc = "spawn"
  /\ IF result_sample = BenchSamples
     THEN /\ benchPc' = "next"
          /\ UNCHANGED <<worker_ready_countdown, worker_start_flag, bworker>>
     ELSE /\ worker_ready_countdown' = job.thr
          /\ worker_start_flag' = FALSE
          /\ bworker' = [n \in 1 .. MaxThreads |-> IF n <= job.thr THEN "new" ELSE "none"]
          /\ benchPc' = "check"
  /\ UNCHANGED <<todo_jobs, job, result_sample>>

\* A wait with a predicate: it is looked at under the lock, and again after
\* every notification.
MainWaits ==
  /\ benchPc = "check"
  /\ benchPc' = IF worker_ready_countdown = 0 THEN "go" ELSE "sleep"
  /\ UNCHANGED <<todo_jobs, job, worker_ready_countdown, worker_start_flag,
                 bworker, result_sample>>

WorkerReady(n) ==
  /\ bworker[n] = "new"
  /\ worker_ready_countdown' = worker_ready_countdown - 1
  /\ bworker' = [bworker EXCEPT ![n] = "notify"]
  /\ UNCHANGED <<benchPc, todo_jobs, job, worker_start_flag, result_sample>>

WorkerNotifies(n) ==
  /\ bworker[n] = "notify"
  /\ benchPc' = IF benchPc = "sleep" THEN "check" ELSE benchPc
  /\ bworker' = [bworker EXCEPT ![n] = "check"]
  /\ UNCHANGED <<todo_jobs, job, worker_ready_countdown, worker_start_flag, result_sample>>

WorkerWaits(n) ==
  /\ bworker[n] = "check"
  /\ bworker' = [bworker EXCEPT ![n] = IF worker_start_flag THEN "work" ELSE "sleep"]
  /\ UNCHANGED <<benchPc, todo_jobs, job, worker_ready_countdown,
                 worker_start_flag, result_sample>>

MainStarts ==
  /\ benchPc = "go"
  /\ worker_start_flag' = TRUE
  /\ benchPc' = "notify"
  /\ UNCHANGED <<todo_jobs, job, worker_ready_countdown, bworker, result_sample>>

\* notify_all, after the unlock, wakes those that sleep by then.
MainNotifies ==
  /\ benchPc = "notify"
  /\ bworker' = [n \in 1 .. MaxThreads |-> IF bworker[n] = "sleep" THEN "check" ELSE bworker[n]]
  /\ benchPc' = "join"
  /\ UNCHANGED <<todo_jobs, job, worker_ready_countdown, worker_start_flag, result_sample>>

WorkerWorks(n) ==
  /\ bworker[n] = "work"
  /\ bworker' = [bworker EXCEPT ![n] = "done"]
  /\ UNCHANGED <<benchPc, todo_jobs, job, worker_ready_countdown,
                 worker_start_flag, result_sample>>

MainJoins ==
  /\ benchPc = "join"
  /\ \A n \in 1 .. job.thr : bworker[n] = "done"
  /\ result_sample' = result_sample + 1
  /\ benchPc' = "spawn"
  /\ UNCHANGED <<todo_jobs, job, worker_ready_countdown, worker_start_flag, bworker>>

run_test_4buf == \/ SpawnWorkers \/ MainWaits \/ MainStarts \/ MainNotifies \/ MainJoins

BenchWorker(n) == WorkerReady(n) \/ WorkerNotifies(n) \/ WorkerWaits(n) \/ WorkerWorks(n)

BenchNext ==
  \/ \E threads \in {-2, -1} \union 1 .. MaxThreads,
        op \in {0, AllOps, OpenBox, EncrSalsa}, sizes \in (SUBSET BenchSizes) \ {{}} :
       cryptotest_main(threads, op, sizes)
  \/ cryptotest_mesure_one
  \/ run_test_4buf
  \/ \E n \in 1 .. MaxThreads : BenchWorker(n)

\* Every thread runs until it has nothing left to do.
BenchFairness ==
  /\ WF_benchVars(cryptotest_mesure_one) /\ WF_benchVars(run_test_4buf)
  /\ \A n \in 1 .. MaxThreads : WF_benchVars(BenchWorker(n))

-----------------------------------------------------------------------------
\* Properties.

\* No worker is timed while another is still getting ready: the samples
\* measure all the threads at once.
StartTogether ==
  (\E n \in 1 .. MaxThreads : bworker[n] = "work")
     => worker_ready_countdown = 0 /\ \A n \in 1 .. MaxThreads : bworker[n] # "new"

\* The function measured stays inside its buffers, and so does the copy of
\* its result into the random state, for messages of four bytes or more (the
\* option rangeone takes shorter ones too).
BenchInBounds ==
  benchPc \notin {"options", "next", "throw", "done"} /\ job.size >= 4 =>
    /\ Touched(job).msg <= Buffers(job).msg
    /\ Touched(job).two <= Buffers(job).two
    /\ hash_state <= Buffers(job).two

\* Every measurement ends: no notification is lost between a thread's look at
\* its condition and its sleep.
BenchEnds == (benchPc = "next") ~> (benchPc \in {"done", "throw"})
=============================================================================
