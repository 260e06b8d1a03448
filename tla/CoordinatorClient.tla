--------------------------- MODULE CoordinatorClient ---------------------------
(***************************************************************************)
(* The coordinator load client (client/coordinator_client.cc).  main starts *)
(* FLAGS_thread_num bthreads running sender, spins until brpc is asked to  *)
(* quit (SIGINT/SIGTERM), then joins them in index order.  A sender loops  *)
(* while quit is not asked: it inits a Channel to the coordinator, sends   *)
(* one Hello with a timeout of FLAGS_timeout_ms, and sleeps: timeout_ms    *)
(* after a failure, ten times as long after a success.  The coordinator is *)
(* not modelled: a Channel init and a Hello call each succeed or fail, and *)
(* a call never outlasts its timeout, so it is one step.  Log lines and    *)
(* the latency recorder are left out: they change nothing the loop reads.  *)
(***************************************************************************)
EXTENDS Naturals

CONSTANT ThreadNum   \* FLAGS_thread_num

ASSUME ThreadNum \in Nat

Threads == 1..ThreadNum

(* The count of late Hellos saturates here: the property only tells 0, 1 *)
(* and more apart, and the state space stays finite.                      *)
LateCap == 2

VARIABLES
    asked,   \* brpc::IsAskedToQuit()
    spc,     \* each sender: unborn, at its loop test, in init, in call,
             \* sleeping after a failure or a success, exited
    late,    \* auxiliary: each sender's Hellos sent after quit was asked,
             \* counted up to LateCap
    mpc,     \* main: starting, spinning, joining, returned (0), failed (-1)
    mi       \* main: loop index i of the start or the join loop

vars == <<asked, spc, late, mpc, mi>>

SenderPcs == {"unborn", "top", "init", "call", "sleepFail", "sleepOk", "exited"}

TypeOK ==
    /\ asked \in BOOLEAN
    /\ spc \in [Threads -> SenderPcs]
    /\ late \in [Threads -> 0..LateCap]
    /\ mpc \in {"start", "spin", "join", "returned", "failed"}
    /\ mi \in 1..ThreadNum + 1

(* The process runs until main returns; then every bthread ends with it.  *)
CapLate(n) == IF n > LateCap THEN LateCap ELSE n

Running == mpc \notin {"returned", "failed"}

Init ==
    /\ asked = FALSE
    /\ spc = [t \in Threads |-> "unborn"]
    /\ late = [t \in Threads |-> 0]
    /\ mpc = "start"
    /\ mi = 1

-----------------------------------------------------------------------------
(* A signal: brpc's handler sets the quit flag, at any time.               *)
AskToQuit ==
    /\ Running /\ ~asked
    /\ asked' = TRUE
    /\ UNCHANGED <<spc, late, mpc, mi>>

(* sender, the test of while (!brpc::IsAskedToQuit()).                     *)
Top(t) ==
    /\ Running /\ spc[t] = "top"
    /\ spc' = [spc EXCEPT ![t] = IF asked THEN "exited" ELSE "init"]
    /\ UNCHANGED late
    /\ UNCHANGED <<asked, mpc, mi>>

(* sender: channel.Init(leader.addr); on failure, sleep and continue.      *)
ChannelInit(t) ==
    /\ Running /\ spc[t] = "init"
    /\ \E ok \in BOOLEAN :
         spc' = [spc EXCEPT ![t] = IF ok THEN "call" ELSE "sleepFail"]
    /\ UNCHANGED <<asked, late, mpc, mi>>

(* sender: stub.Hello with cntl timeout timeout_ms; cntl.Failed() covers   *)
(* the timeout, a refused connection and an error reply.  A Hello sent    *)
(* after quit was asked is counted in late.                                *)
Call(t) ==
    /\ Running /\ spc[t] = "call"
    /\ \E ok \in BOOLEAN :
         spc' = [spc EXCEPT ![t] = IF ok THEN "sleepOk" ELSE "sleepFail"]
    /\ late' = [late EXCEPT ![t] = IF asked THEN CapLate(@ + 1) ELSE @]
    /\ UNCHANGED <<asked, mpc, mi>>

(* Mutant: after a failed Hello, sleep and resend on the same channel,     *)
(* an inner retry loop that never tests the quit flag.                    *)
SleepRetriesCall(t) ==
    /\ Running /\ spc[t] \in {"sleepFail", "sleepOk"}
    /\ spc' = [spc EXCEPT ![t] = IF spc[t] = "sleepFail" THEN "call" ELSE "top"]
    /\ UNCHANGED <<asked, late, mpc, mi>>

(* sender: bthread_usleep, then back to the loop test (continue, or the   *)
(* end of the body).                                                      *)
Sleep(t) ==
    /\ Running /\ spc[t] \in {"sleepFail", "sleepOk"}
    /\ spc' = [spc EXCEPT ![t] = "top"]
    /\ UNCHANGED <<asked, late, mpc, mi>>

(* Mutant: for (int i = 0; i <= FLAGS_thread_num; ++i), one start too   *)
(* many, into tids[thread_num].                                            *)
StartThreadPastEnd ==
    /\ mpc = "start"
    /\ IF mi <= ThreadNum + 1
         THEN \/ /\ spc' = [spc EXCEPT ![mi] = "top"]
                 /\ mi' = mi + 1
                 /\ UNCHANGED mpc
              \/ /\ mpc' = "failed"
                 /\ UNCHANGED <<spc, mi>>
         ELSE /\ mpc' = "spin" /\ mi' = 1
              /\ UNCHANGED spc
    /\ UNCHANGED <<asked, late>>

(* main: for i < thread_num, bthread_start_background(&tids[i], sender);   *)
(* on failure return -1 with the threads already started still running.   *)
(* Past the last index, fall into the spin loop.                           *)
StartThread ==
    /\ mpc = "start"
    /\ IF mi <= ThreadNum
         THEN \/ /\ spc' = [spc EXCEPT ![mi] = "top"]
                 /\ mi' = mi + 1
                 /\ UNCHANGED mpc
              \/ /\ mpc' = "failed"
                 /\ UNCHANGED <<spc, mi>>
         ELSE /\ mpc' = "spin" /\ mi' = 1
              /\ UNCHANGED spc
    /\ UNCHANGED <<asked, late>>

(* main: while (!brpc::IsAskedToQuit()) { ... } ends once quit is asked.   *)
Spin ==
    /\ mpc = "spin" /\ asked
    /\ mpc' = "join"
    /\ UNCHANGED <<asked, spc, late, mi>>

(* main: bthread_join(tids[i]) blocks until sender i has returned; after  *)
(* the last one, return 0.                                                 *)
Join ==
    /\ mpc = "join"
    /\ IF mi <= ThreadNum
         THEN /\ spc[mi] = "exited"
              /\ mi' = mi + 1 /\ UNCHANGED mpc
         ELSE /\ mpc' = "returned" /\ UNCHANGED mi
    /\ UNCHANGED <<asked, spc, late>>

Sender(t) == Top(t) \/ ChannelInit(t) \/ Call(t) \/ Sleep(t)

Main == StartThread \/ Spin \/ Join

Next ==
    \/ AskToQuit
    \/ Main
    \/ \E t \in Threads : Sender(t)

Spec == Init /\ [][Next]_vars

(* bthread workers run every ready bthread; bthread_usleep returns; each   *)
(* Hello returns within its timeout; Channel::Init returns.  The signal is *)
(* the environment's and is not assumed.                                   *)
FairSpec == Spec /\ WF_vars(Main) /\ \A t \in Threads : WF_vars(Sender(t))

-----------------------------------------------------------------------------
(* Quit is prompt: once quit is asked, a sender sends at most one more      *)
(* Hello (the one of the loop body already past its test).  The quit flag *)
(* is read only at the top of sender's loop.                               *)
BoundedCallsAfterQuit == \A t \in Threads : late[t] <= 1

(* The client terminates on a signal: once quit is asked, main returns     *)
(* (0 after joining every sender, or -1 if a start failed).  main joins   *)
(* the senders in index order, each of which must see the quit flag.       *)
ClientTerminates == asked ~> ~Running
=============================================================================
