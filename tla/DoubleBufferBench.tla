-------------------------- MODULE DoubleBufferBench --------------------------
(***************************************************************************)
(* The benchmark of the double buffer (benchmark/threaded/doublebuffer.cpp): *)
(* a thread that arrives as the reader while a flag `running` is set, and   *)
(* the main thread, which arrives as the writer `Rounds` times, clears the  *)
(* flag, arrives once more to release the thread, and joins it.  It uses    *)
(* the arrivals of DoubleBuffer and none of its buffers.                    *)
(***************************************************************************)
EXTENDS DoubleBuffer

CONSTANT Rounds     (* iterations the benchmark library asks for            *)

VARIABLES
  running,
  threadAt,         (* the lambda of the reader thread                      *)
  mainAt,           (* the body of the benchmark                            *)
  count

benchVars == <<running, threadAt, mainAt, count>>
unused == <<_buffers, writerRef, readerRef, written, got>>

(* The writer's arrivals start from "arrive": it writes no buffer.          *)
BenchInit ==
  /\ Init
  /\ running = FALSE
  /\ threadAt = "start"
  /\ mainAt = "launch"
  /\ count = 0

-----------------------------------------------------------------------------
(* The reader thread.                                                       *)

ThreadStart ==
  /\ threadAt = "start"
  /\ running' = TRUE
  /\ threadAt' = "test"
  /\ UNCHANGED <<vars, mainAt, count>>

ThreadTest ==
  /\ threadAt = "test"
  /\ threadAt' = IF running THEN "arrive" ELSE "exit"
  /\ UNCHANGED <<vars, running, mainAt, count>>

(* while (!reader_arrive()) {}                                              *)
ThreadArrive ==
  /\ threadAt = "arrive"
  /\ \/ ReaderArrive /\ UNCHANGED threadAt
     \/ ReaderFlip /\ UNCHANGED threadAt
     \/ ReaderRelease /\ threadAt' = "test"
  /\ UNCHANGED <<running, mainAt, count>>

-----------------------------------------------------------------------------
(* The main thread.                                                         *)

MainLaunched ==
  /\ mainAt = "launch"
  /\ running
  /\ mainAt' = "loop"
  /\ UNCHANGED <<vars, running, threadAt, count>>

(* writer_arrive_and_wait is called: in the loop, and once after it.        *)
MainCall(from, to) ==
  /\ mainAt = from
  /\ mainAt' = to
  /\ writerAt' = "arrive"
  /\ UNCHANGED <<unused, _index, _waiting, readerAt, running, threadAt, count>>

MainLoop ==
  /\ count < Rounds
  /\ MainCall("loop", "round")

MainArrive ==
  /\ mainAt \in {"round", "last"}
  /\ \/ WriterArrive /\ UNCHANGED <<mainAt, count>>
     \/ /\ WriterWait
        /\ mainAt' = IF mainAt = "round" THEN "loop" ELSE "join"
        /\ count' = IF mainAt = "round" THEN count + 1 ELSE count
  /\ UNCHANGED <<running, threadAt>>

MainStop ==
  /\ mainAt = "loop"
  /\ count = Rounds
  /\ running' = FALSE
  /\ mainAt' = "stopped"
  /\ UNCHANGED <<vars, threadAt, count>>

MainLast == MainCall("stopped", "last")

MainJoin ==
  /\ mainAt = "join"
  /\ threadAt = "exit"
  /\ mainAt' = "end"
  /\ UNCHANGED <<vars, running, threadAt, count>>

-----------------------------------------------------------------------------
Thread == ThreadStart \/ ThreadTest \/ ThreadArrive

Main == MainLaunched \/ MainLoop \/ MainArrive \/ MainStop \/ MainLast \/ MainJoin

(* Both threads are scheduled.                                              *)
BenchSpec ==
  /\ BenchInit
  /\ [][Thread \/ Main]_<<vars, benchVars>>
  /\ WF_<<vars, benchVars>>(Thread)
  /\ WF_<<vars, benchVars>>(Main)

-----------------------------------------------------------------------------
(* The benchmark ends: its last arrival releases the thread, which then      *)
(* leaves its loop, and the join returns.                                    *)
BenchmarkEnds == <>(mainAt = "end")
=============================================================================
