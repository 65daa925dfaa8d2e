-------------------------- MODULE ImportRunsProofs --------------------------
(*************************************************************************)
(* Proofs about ImportRuns for every mod, batch size, number of clients, *)
(* runs and attempts, and every request and fault of the module.         *)
(*************************************************************************)
EXTENDS ImportRuns, TLAPS

---------------------------------------------------------------------------
(* Types *)

(* The row, the copies of it and the requests. *)
LEMMA RowTypeStep ==
  ASSUME TypeOK, [Next]_vars
  PROVE  RowTypeOK'
  <1>a. RowTypeOK /\ TableTypeOK /\ QueueTypeOK /\ LoopTypeOK /\ BoundTypeOK
    BY DEF TypeOK
  <1> USE <1>a, ImportAssumption DEF RowTypeOK, RowType
  <1>1. ASSUME NEW c \in Clients, CheckStart(c)
       PROVE  RowTypeOK'
    BY <1>1 DEF CheckStart, At, requestKeeps, runVars
  <1>2. ASSUME NEW c \in Clients, EnqueueStart(c)
       PROVE  RowTypeOK'
    BY <1>2 DEF EnqueueStart, At, runVars
  <1>3. ASSUME NEW c \in Clients, NEW what \in {"restart", "languages"}, CheckEdit(c, what)
       PROVE  RowTypeOK'
    BY <1>3 DEF CheckEdit, At, requestKeeps, runVars
  <1>4. ASSUME NEW c \in Clients, restartModImportJob(c)
       PROVE  RowTypeOK'
    BY <1>4 DEF restartModImportJob, At, requestKeeps, runVars
  <1>5. ASSUME NEW c \in Clients, updateModJobLanguages(c)
       PROVE  RowTypeOK'
    BY <1>5 DEF updateModJobLanguages, At, requestKeeps, runVars
  <1>6. ASSUME NEW c \in Clients, NEW j \in Jobs, cancelQueuedImport(c, j)
       PROVE  RowTypeOK'
    BY <1>6 DEF cancelQueuedImport, At, dbVars, runVars
  <1>7. ASSUME NEW c \in Clients, ReadForCancel(c)
       PROVE  RowTypeOK'
    BY <1>7 DEF ReadForCancel, At, requestKeeps, runVars
  <1>8. ASSUME NEW c \in Clients, MarkCancelled(c)
       PROVE  RowTypeOK'
    BY <1>8 DEF MarkCancelled, At, markFailed, requestKeeps, runVars
  <1>9. ASSUME NEW j \in Jobs, pauseQueuedImport(j)
       PROVE  RowTypeOK'
    BY <1>9 DEF pauseQueuedImport, dbVars, runVars, clientVars
  <1>10. ASSUME NEW j \in Jobs, ReadRow(j)
       PROVE  RowTypeOK'
    BY <1>10 DEF ReadRow, workKeeps, dbVars, clientVars
  <1>11. ASSUME NEW j \in Jobs, BeginRun(j)
       PROVE  RowTypeOK'
    BY <1>11 DEF BeginRun, dbVars, clientVars
  <1>12. ASSUME NEW j \in Jobs, EnterLock(j)
       PROVE  RowTypeOK'
    BY <1>12 DEF EnterLock, workKeeps, clientVars
  <1>13. ASSUME NEW j \in Jobs, StopAtLine(j)
       PROVE  RowTypeOK'
    BY <1>13 DEF StopAtLine, commitExtrasStop, workKeeps, clientVars, markFailed,
       markPaused, LoopTypeOK
  <1>14. ASSUME NEW j \in Jobs, OpenBatch(j)
       PROVE  RowTypeOK'
    BY <1>14 DEF OpenBatch, workKeeps, dbVars, clientVars
  <1>15. ASSUME NEW j \in Jobs, DropBatch(j)
       PROVE  RowTypeOK'
    BY <1>15 DEF DropBatch, workKeeps, dbVars, clientVars
  <1>16. ASSUME NEW j \in Jobs, FlushBatch(j)
       PROVE  RowTypeOK'
    <2>1. counter[j] + batch[j] \in Nat
      BY DEF LoopTypeOK
    <2>2. QED
      BY <1>16, <2>1 DEF FlushBatch, updateProgress, workKeeps, clientVars
  <1>17. ASSUME NEW j \in Jobs, RetryBatch(j)
       PROVE  RowTypeOK'
    BY <1>17 DEF RetryBatch, AbandonAttempt, workKeeps, clientVars
  <1>18. ASSUME NEW j \in Jobs, FailBatch(j)
       PROVE  RowTypeOK'
    BY <1>18 DEF FailBatch, AbandonAttempt, workKeeps, clientVars
  <1>19. ASSUME NEW j \in Jobs, FailCommit(j)
       PROVE  RowTypeOK'
    BY <1>19 DEF FailCommit, workKeeps, clientVars
  <1>20. ASSUME NEW j \in Jobs, NextPhase(j)
       PROVE  RowTypeOK'
    BY <1>20 DEF NextPhase, workKeeps, dbVars, runVars, clientVars
  <1>21. ASSUME NEW j \in Jobs, StopAtSlice(j)
       PROVE  RowTypeOK'
    BY <1>21 DEF StopAtSlice, commitExtrasStop, workKeeps, runVars, clientVars,
       markFailed, markPaused, LoopTypeOK
  <1>22. ASSUME NEW j \in Jobs, WriteSlice(j)
       PROVE  RowTypeOK'
    <2>1. counter[j] + Slice(j) \in Nat
      BY <1>22 DEF LoopTypeOK, WriteSlice, Slice, Min2, Total
    <2>2. QED
      BY <1>22, <2>1 DEF WriteSlice, updateProgress, workKeeps, clientVars
  <1>23. ASSUME NEW j \in Jobs, FailSlice(j)
       PROVE  RowTypeOK'
    BY <1>23 DEF FailSlice, clientVars
  <1>24. ASSUME NEW j \in Jobs, EndExtras(j)
       PROVE  RowTypeOK'
    BY <1>24 DEF EndExtras, workKeeps, dbVars, runVars, clientVars
  <1>25. ASSUME NEW j \in Jobs, Prune(j)
       PROVE  RowTypeOK'
    BY <1>25 DEF Prune, workKeeps, runVars, clientVars
  <1>26. ASSUME NEW j \in Jobs, FailFinalize(j)
       PROVE  RowTypeOK'
    BY <1>26 DEF FailFinalize, workKeeps, clientVars
  <1>27. ASSUME NEW j \in Jobs, CompleteRun(j)
       PROVE  RowTypeOK'
    BY <1>27 DEF CompleteRun, markDone, workKeeps, runVars, clientVars, LoopTypeOK
  <1>28. ASSUME NEW j \in Jobs, EndRun(j)
       PROVE  RowTypeOK'
    BY <1>28 DEF EndRun, clientVars
  <1>29. ASSUME NEW j \in Jobs, MarkThrown(j)
       PROVE  RowTypeOK'
    BY <1>29 DEF MarkThrown, markFailed, clientVars, LoopTypeOK
  <1>30. ASSUME NEW j \in Jobs, StallFails(j)
       PROVE  RowTypeOK'
    BY <1>30 DEF StallFails, dbVars, clientVars
  <1>31. ASSUME NEW j \in Jobs, NEW what \in {"cancel", "pause"}, Deliver(j, what)
       PROVE  RowTypeOK'
    BY <1>31 DEF Deliver, dbVars, runVars, clientVars
  <1>32. ASSUME Crash
       PROVE  RowTypeOK'
    BY <1>32 DEF Crash, runVars, clientVars
  <1>33. ASSUME CloseSession
       PROVE  RowTypeOK'
    BY <1>33 DEF CloseSession, workKeeps, runVars, clientVars
  <1>34. CASE UNCHANGED vars
    BY <1>34 DEF vars, dbVars, runVars, clientVars
  <1>35. QED
    BY <1>1, <1>2, <1>3, <1>4, <1>5, <1>6, <1>7, <1>8, <1>9, <1>10, <1>11, <1>12, <1>13, <1>14,
       <1>15, <1>16, <1>17, <1>18, <1>19, <1>20, <1>21, <1>22, <1>23, <1>24, <1>25, <1>26, <1>27, <1>28,
       <1>29, <1>30, <1>31, <1>32, <1>33, <1>34
       DEF Next, Request, Work, Fault

(* The rows of `strings`. *)
LEMMA TableTypeStep ==
  ASSUME TypeOK, [Next]_vars
  PROVE  TableTypeOK'
  <1>a. RowTypeOK /\ TableTypeOK /\ QueueTypeOK /\ LoopTypeOK /\ BoundTypeOK
    BY DEF TypeOK
  <1> USE <1>a, ImportAssumption DEF TableTypeOK, Lines
  <1>1. ASSUME NEW c \in Clients, CheckStart(c)
       PROVE  TableTypeOK'
    BY <1>1 DEF CheckStart, requestKeeps
  <1>2. ASSUME NEW c \in Clients, EnqueueStart(c)
       PROVE  TableTypeOK'
    BY <1>2 DEF EnqueueStart
  <1>3. ASSUME NEW c \in Clients, NEW what \in {"restart", "languages"}, CheckEdit(c, what)
       PROVE  TableTypeOK'
    BY <1>3 DEF CheckEdit, requestKeeps
  <1>4. ASSUME NEW c \in Clients, restartModImportJob(c)
       PROVE  TableTypeOK'
    BY <1>4 DEF restartModImportJob, requestKeeps
  <1>5. ASSUME NEW c \in Clients, updateModJobLanguages(c)
       PROVE  TableTypeOK'
    BY <1>5 DEF updateModJobLanguages, requestKeeps
  <1>6. ASSUME NEW c \in Clients, NEW j \in Jobs, cancelQueuedImport(c, j)
       PROVE  TableTypeOK'
    BY <1>6 DEF cancelQueuedImport, dbVars
  <1>7. ASSUME NEW c \in Clients, ReadForCancel(c)
       PROVE  TableTypeOK'
    BY <1>7 DEF ReadForCancel, requestKeeps
  <1>8. ASSUME NEW c \in Clients, MarkCancelled(c)
       PROVE  TableTypeOK'
    BY <1>8 DEF MarkCancelled, requestKeeps
  <1>9. ASSUME NEW j \in Jobs, pauseQueuedImport(j)
       PROVE  TableTypeOK'
    BY <1>9 DEF pauseQueuedImport, dbVars
  <1>10. ASSUME NEW j \in Jobs, ReadRow(j)
       PROVE  TableTypeOK'
    BY <1>10 DEF ReadRow, dbVars
  <1>11. ASSUME NEW j \in Jobs, BeginRun(j)
       PROVE  TableTypeOK'
    BY <1>11 DEF BeginRun, dbVars
  <1>12. ASSUME NEW j \in Jobs, EnterLock(j)
       PROVE  TableTypeOK'
    BY <1>12 DEF EnterLock
  <1>13. ASSUME NEW j \in Jobs, StopAtLine(j)
       PROVE  TableTypeOK'
    BY <1>13 DEF StopAtLine
  <1>14. ASSUME NEW j \in Jobs, OpenBatch(j)
       PROVE  TableTypeOK'
    BY <1>14 DEF OpenBatch, dbVars
  <1>15. ASSUME NEW j \in Jobs, DropBatch(j)
       PROVE  TableTypeOK'
    BY <1>15 DEF DropBatch, dbVars
  <1>16. ASSUME NEW j \in Jobs, FlushBatch(j)
       PROVE  TableTypeOK'
    BY <1>16 DEF FlushBatch, InsertBatch, Insert
  <1>17. ASSUME NEW j \in Jobs, RetryBatch(j)
       PROVE  TableTypeOK'
    BY <1>17 DEF RetryBatch, AbandonAttempt, InsertBatch, Insert
  <1>18. ASSUME NEW j \in Jobs, FailBatch(j)
       PROVE  TableTypeOK'
    BY <1>18 DEF FailBatch, AbandonAttempt, InsertBatch, Insert
  <1>19. ASSUME NEW j \in Jobs, FailCommit(j)
       PROVE  TableTypeOK'
    BY <1>19 DEF FailCommit, InsertBatch, Insert
  <1>20. ASSUME NEW j \in Jobs, NextPhase(j)
       PROVE  TableTypeOK'
    BY <1>20 DEF NextPhase, dbVars
  <1>21. ASSUME NEW j \in Jobs, StopAtSlice(j)
       PROVE  TableTypeOK'
    BY <1>21 DEF StopAtSlice
  <1>22. ASSUME NEW j \in Jobs, WriteSlice(j)
       PROVE  TableTypeOK'
    BY <1>22 DEF WriteSlice, Insert
  <1>23. ASSUME NEW j \in Jobs, FailSlice(j)
       PROVE  TableTypeOK'
    BY <1>23 DEF FailSlice
  <1>24. ASSUME NEW j \in Jobs, EndExtras(j)
       PROVE  TableTypeOK'
    BY <1>24 DEF EndExtras, dbVars
  <1>25. ASSUME NEW j \in Jobs, Prune(j)
       PROVE  TableTypeOK'
    BY <1>25 DEF Prune, pruneStaleImportData
  <1>26. ASSUME NEW j \in Jobs, FailFinalize(j)
       PROVE  TableTypeOK'
    BY <1>26 DEF FailFinalize
  <1>27. ASSUME NEW j \in Jobs, CompleteRun(j)
       PROVE  TableTypeOK'
    BY <1>27 DEF CompleteRun
  <1>28. ASSUME NEW j \in Jobs, EndRun(j)
       PROVE  TableTypeOK'
    BY <1>28 DEF EndRun
  <1>29. ASSUME NEW j \in Jobs, MarkThrown(j)
       PROVE  TableTypeOK'
    BY <1>29 DEF MarkThrown
  <1>30. ASSUME NEW j \in Jobs, StallFails(j)
       PROVE  TableTypeOK'
    BY <1>30 DEF StallFails, dbVars
  <1>31. ASSUME NEW j \in Jobs, NEW what \in {"cancel", "pause"}, Deliver(j, what)
       PROVE  TableTypeOK'
    BY <1>31 DEF Deliver, dbVars
  <1>32. ASSUME Crash
       PROVE  TableTypeOK'
    BY <1>32 DEF Crash
  <1>33. ASSUME CloseSession
       PROVE  TableTypeOK'
    BY <1>33 DEF CloseSession
  <1>34. CASE UNCHANGED vars
    BY <1>34 DEF vars, dbVars
  <1>35. QED
    BY <1>1, <1>2, <1>3, <1>4, <1>5, <1>6, <1>7, <1>8, <1>9, <1>10, <1>11, <1>12, <1>13, <1>14,
       <1>15, <1>16, <1>17, <1>18, <1>19, <1>20, <1>21, <1>22, <1>23, <1>24, <1>25, <1>26, <1>27, <1>28,
       <1>29, <1>30, <1>31, <1>32, <1>33, <1>34
       DEF Next, Request, Work, Fault

(* Queue, lock, control channel and flags. *)
LEMMA QueueTypeStep ==
  ASSUME TypeOK, [Next]_vars
  PROVE  QueueTypeOK'
  <1>a. RowTypeOK /\ TableTypeOK /\ QueueTypeOK /\ LoopTypeOK /\ BoundTypeOK
    BY DEF TypeOK
  <1> USE <1>a, ImportAssumption DEF QueueTypeOK, Steps, Jobs, NoJob, Orphan, Listening, Writing
  <1>1. ASSUME NEW c \in Clients, CheckStart(c)
       PROVE  QueueTypeOK'
    BY <1>1 DEF CheckStart, requestKeeps
  <1>2. ASSUME NEW c \in Clients, EnqueueStart(c)
       PROVE  QueueTypeOK'
    BY <1>2 DEF EnqueueStart, Go
  <1>3. ASSUME NEW c \in Clients, NEW what \in {"restart", "languages"}, CheckEdit(c, what)
       PROVE  QueueTypeOK'
    BY <1>3 DEF CheckEdit, requestKeeps
  <1>4. ASSUME NEW c \in Clients, restartModImportJob(c)
       PROVE  QueueTypeOK'
    BY <1>4 DEF restartModImportJob, requestKeeps
  <1>5. ASSUME NEW c \in Clients, updateModJobLanguages(c)
       PROVE  QueueTypeOK'
    BY <1>5 DEF updateModJobLanguages, requestKeeps
  <1>6. ASSUME NEW c \in Clients, NEW j \in Jobs, cancelQueuedImport(c, j)
       PROVE  QueueTypeOK'
    BY <1>6 DEF cancelQueuedImport, Go, Unfinished, dbVars
  <1>7. ASSUME NEW c \in Clients, ReadForCancel(c)
       PROVE  QueueTypeOK'
    BY <1>7 DEF ReadForCancel, requestKeeps
  <1>8. ASSUME NEW c \in Clients, MarkCancelled(c)
       PROVE  QueueTypeOK'
    BY <1>8 DEF MarkCancelled, requestKeeps
  <1>9. ASSUME NEW j \in Jobs, pauseQueuedImport(j)
       PROVE  QueueTypeOK'
    BY <1>9 DEF pauseQueuedImport, Unfinished, dbVars
  <1>10. ASSUME NEW j \in Jobs, ReadRow(j)
       PROVE  QueueTypeOK'
    BY <1>10 DEF ReadRow, Go, workKeeps, dbVars
  <1>11. ASSUME NEW j \in Jobs, BeginRun(j)
       PROVE  QueueTypeOK'
    BY <1>11 DEF BeginRun, Go, Settle, dbVars
  <1>12. ASSUME NEW j \in Jobs, EnterLock(j)
       PROVE  QueueTypeOK'
    BY <1>12 DEF EnterLock, Go, workKeeps
  <1>13. ASSUME NEW j \in Jobs, StopAtLine(j)
       PROVE  QueueTypeOK'
    BY <1>13 DEF StopAtLine, Go, workKeeps
  <1>14. ASSUME NEW j \in Jobs, OpenBatch(j)
       PROVE  QueueTypeOK'
    BY <1>14 DEF OpenBatch, Go, workKeeps, dbVars
  <1>15. ASSUME NEW j \in Jobs, DropBatch(j)
       PROVE  QueueTypeOK'
    BY <1>15 DEF DropBatch, Go, AfterBatch, workKeeps, dbVars
  <1>16. ASSUME NEW j \in Jobs, FlushBatch(j)
       PROVE  QueueTypeOK'
    BY <1>16 DEF FlushBatch, Go, Attempting, AfterBatch, workKeeps
  <1>17. ASSUME NEW j \in Jobs, RetryBatch(j)
       PROVE  QueueTypeOK'
    BY <1>17 DEF RetryBatch, Go, Attempting, workKeeps
  <1>18. ASSUME NEW j \in Jobs, FailBatch(j)
       PROVE  QueueTypeOK'
    BY <1>18 DEF FailBatch, GiveUp, Attempting, workKeeps, Go
  <1>19. ASSUME NEW j \in Jobs, FailCommit(j)
       PROVE  QueueTypeOK'
    BY <1>19 DEF FailCommit, GiveUp, Attempting, workKeeps, Go
  <1>20. ASSUME NEW j \in Jobs, NextPhase(j)
       PROVE  QueueTypeOK'
    BY <1>20 DEF NextPhase, Go, workKeeps, dbVars
  <1>21. ASSUME NEW j \in Jobs, StopAtSlice(j)
       PROVE  QueueTypeOK'
    BY <1>21 DEF StopAtSlice, Go, workKeeps
  <1>22. ASSUME NEW j \in Jobs, WriteSlice(j)
       PROVE  QueueTypeOK'
    BY <1>22 DEF WriteSlice, workKeeps
  <1>23. ASSUME NEW j \in Jobs, FailSlice(j)
       PROVE  QueueTypeOK'
    BY <1>23 DEF FailSlice, GiveUp, Settle, Go
  <1>24. ASSUME NEW j \in Jobs, EndExtras(j)
       PROVE  QueueTypeOK'
    BY <1>24 DEF EndExtras, Go, workKeeps, dbVars
  <1>25. ASSUME NEW j \in Jobs, Prune(j)
       PROVE  QueueTypeOK'
    BY <1>25 DEF Prune, Go, workKeeps
  <1>26. ASSUME NEW j \in Jobs, FailFinalize(j)
       PROVE  QueueTypeOK'
    BY <1>26 DEF FailFinalize, GiveUp, workKeeps, Go
  <1>27. ASSUME NEW j \in Jobs, CompleteRun(j)
       PROVE  QueueTypeOK'
    BY <1>27 DEF CompleteRun, Go, workKeeps
  <1>28. ASSUME NEW j \in Jobs, EndRun(j)
       PROVE  QueueTypeOK'
    BY <1>28 DEF EndRun, Settle, Go
  <1>29. ASSUME NEW j \in Jobs, MarkThrown(j)
       PROVE  QueueTypeOK'
    BY <1>29 DEF MarkThrown, Settle, Go
  <1>30. ASSUME NEW j \in Jobs, StallFails(j)
       PROVE  QueueTypeOK'
    BY <1>30 DEF StallFails, Settle, dbVars, Go
  <1>31. ASSUME NEW j \in Jobs, NEW what \in {"cancel", "pause"}, Deliver(j, what)
       PROVE  QueueTypeOK'
    BY <1>31 DEF Deliver, dbVars
  <1>32. ASSUME Crash
       PROVE  QueueTypeOK'
    BY <1>32 DEF Crash
  <1>33. ASSUME CloseSession
       PROVE  QueueTypeOK'
    BY <1>33 DEF CloseSession, workKeeps
  <1>34. CASE UNCHANGED vars
    BY <1>34 DEF vars, dbVars
  <1>35. QED
    BY <1>1, <1>2, <1>3, <1>4, <1>5, <1>6, <1>7, <1>8, <1>9, <1>10, <1>11, <1>12, <1>13, <1>14,
       <1>15, <1>16, <1>17, <1>18, <1>19, <1>20, <1>21, <1>22, <1>23, <1>24, <1>25, <1>26, <1>27, <1>28,
       <1>29, <1>30, <1>31, <1>32, <1>33, <1>34
       DEF Next, Request, Work, Fault

(* The loop of a run. *)
LEMMA LoopTypeStep ==
  ASSUME TypeOK, [Next]_vars
  PROVE  LoopTypeOK'
  <1>a. RowTypeOK /\ TableTypeOK /\ QueueTypeOK /\ LoopTypeOK /\ BoundTypeOK
    BY DEF TypeOK
  <1> USE <1>a, ImportAssumption DEF LoopTypeOK, Total
  <1>1. ASSUME NEW c \in Clients, CheckStart(c)
       PROVE  LoopTypeOK'
    BY <1>1 DEF CheckStart, requestKeeps, runVars
  <1>2. ASSUME NEW c \in Clients, EnqueueStart(c)
       PROVE  LoopTypeOK'
    BY <1>2 DEF EnqueueStart, runVars
  <1>3. ASSUME NEW c \in Clients, NEW what \in {"restart", "languages"}, CheckEdit(c, what)
       PROVE  LoopTypeOK'
    BY <1>3 DEF CheckEdit, requestKeeps, runVars
  <1>4. ASSUME NEW c \in Clients, restartModImportJob(c)
       PROVE  LoopTypeOK'
    BY <1>4 DEF restartModImportJob, requestKeeps, runVars
  <1>5. ASSUME NEW c \in Clients, updateModJobLanguages(c)
       PROVE  LoopTypeOK'
    BY <1>5 DEF updateModJobLanguages, requestKeeps, runVars
  <1>6. ASSUME NEW c \in Clients, NEW j \in Jobs, cancelQueuedImport(c, j)
       PROVE  LoopTypeOK'
    BY <1>6 DEF cancelQueuedImport, runVars
  <1>7. ASSUME NEW c \in Clients, ReadForCancel(c)
       PROVE  LoopTypeOK'
    BY <1>7 DEF ReadForCancel, requestKeeps, runVars
  <1>8. ASSUME NEW c \in Clients, MarkCancelled(c)
       PROVE  LoopTypeOK'
    BY <1>8 DEF MarkCancelled, requestKeeps, runVars
  <1>9. ASSUME NEW j \in Jobs, pauseQueuedImport(j)
       PROVE  LoopTypeOK'
    BY <1>9 DEF pauseQueuedImport, runVars
  <1>10. ASSUME NEW j \in Jobs, ReadRow(j)
       PROVE  LoopTypeOK'
    BY <1>10 DEF ReadRow
  <1>11. ASSUME NEW j \in Jobs, BeginRun(j)
       PROVE  LoopTypeOK'
    <2>1. CASE Settle(j)
      BY <2>1 DEF Settle, NoBatch
    <2>2. CASE ~Settle(j)
      BY <1>11, <2>2 DEF BeginRun, RowTypeOK, RowType
    <2>3. QED
      BY <2>1, <2>2
  <1>12. ASSUME NEW j \in Jobs, EnterLock(j)
       PROVE  LoopTypeOK'
    BY <1>12 DEF EnterLock, Skipped, Min2, RowTypeOK, RowType
  <1>13. ASSUME NEW j \in Jobs, StopAtLine(j)
       PROVE  LoopTypeOK'
    BY <1>13 DEF StopAtLine, NoBatch
  <1>14. ASSUME NEW j \in Jobs, OpenBatch(j)
       PROVE  LoopTypeOK'
    BY <1>14 DEF OpenBatch, Min2
  <1>15. ASSUME NEW j \in Jobs, DropBatch(j)
       PROVE  LoopTypeOK'
    BY <1>15 DEF DropBatch, NoBatch
  <1>16. ASSUME NEW j \in Jobs, FlushBatch(j)
       PROVE  LoopTypeOK'
    BY <1>16 DEF FlushBatch, NoBatch, Counting
  <1>17. ASSUME NEW j \in Jobs, RetryBatch(j)
       PROVE  LoopTypeOK'
    <2>1. inTx' \in [Jobs -> BOOLEAN] /\ counter' = counter
      BY <1>17 DEF RetryBatch, AbandonAttempt
    <2>2. leftover' \in [Jobs -> BOOLEAN]
      BY <1>17 DEF RetryBatch, AbandonAttempt
    <2>3. at' = at /\ batch' \in [Jobs -> 0 .. BatchSize]
      BY <1>17 DEF RetryBatch, GiveUp, NoBatch
    <2>4. attempt' \in [Jobs -> 0 .. MaxAttempts]
      BY <1>17 DEF RetryBatch
    <2>5. QED
      BY <2>1, <2>2, <2>3, <2>4
  <1>18. ASSUME NEW j \in Jobs, FailBatch(j)
       PROVE  LoopTypeOK'
    <2>1. inTx' \in [Jobs -> BOOLEAN] /\ counter' = counter
      BY <1>18 DEF FailBatch, AbandonAttempt
    <2>2. leftover' \in [Jobs -> BOOLEAN]
      BY <1>18 DEF FailBatch, AbandonAttempt
    <2>3. at' = at /\ batch' \in [Jobs -> 0 .. BatchSize]
      BY <1>18 DEF FailBatch, GiveUp, NoBatch
    <2>4. attempt' \in [Jobs -> 0 .. MaxAttempts]
      BY <1>18 DEF FailBatch
    <2>5. QED
      BY <2>1, <2>2, <2>3, <2>4
  <1>19. ASSUME NEW j \in Jobs, FailCommit(j)
       PROVE  LoopTypeOK'
    <2>1. counter' \in [Jobs -> Nat]
      BY <1>19 DEF FailCommit, Counting
    <2>2. leftover' \in [Jobs -> BOOLEAN]
      BY <1>19 DEF FailCommit
    <2>3. at' = at /\ attempt' = attempt /\ batch' \in [Jobs -> 0 .. BatchSize]
      BY <1>19 DEF FailCommit, GiveUp, NoBatch
    <2>4. inTx' \in [Jobs -> BOOLEAN]
      BY <1>19 DEF FailCommit
    <2>5. QED
      BY <2>1, <2>2, <2>3, <2>4
  <1>20. ASSUME NEW j \in Jobs, NextPhase(j)
       PROVE  LoopTypeOK'
    BY <1>20 DEF NextPhase, runVars
  <1>21. ASSUME NEW j \in Jobs, StopAtSlice(j)
       PROVE  LoopTypeOK'
    BY <1>21 DEF StopAtSlice, runVars
  <1>22. ASSUME NEW j \in Jobs, WriteSlice(j)
       PROVE  LoopTypeOK'
    BY <1>22 DEF WriteSlice, Slice, Min2
  <1>23. ASSUME NEW j \in Jobs, FailSlice(j)
       PROVE  LoopTypeOK'
    <2>1. CASE RollsBack
      BY <1>23, <2>1 DEF FailSlice, GiveUp, NoBatch
    <2>2. CASE ~RollsBack
      <3>1. Settle(j)
        BY <1>23, <2>2 DEF FailSlice
      <3>2. QED
        BY <3>1 DEF Settle, NoBatch
    <2>3. QED
      BY <2>1, <2>2
  <1>24. ASSUME NEW j \in Jobs, EndExtras(j)
       PROVE  LoopTypeOK'
    BY <1>24 DEF EndExtras, runVars
  <1>25. ASSUME NEW j \in Jobs, Prune(j)
       PROVE  LoopTypeOK'
    BY <1>25 DEF Prune, runVars
  <1>26. ASSUME NEW j \in Jobs, FailFinalize(j)
       PROVE  LoopTypeOK'
    BY <1>26 DEF FailFinalize, GiveUp, NoBatch
  <1>27. ASSUME NEW j \in Jobs, CompleteRun(j)
       PROVE  LoopTypeOK'
    BY <1>27 DEF CompleteRun, runVars
  <1>28. ASSUME NEW j \in Jobs, EndRun(j)
       PROVE  LoopTypeOK'
    BY <1>28 DEF EndRun, Settle, NoBatch
  <1>29. ASSUME NEW j \in Jobs, MarkThrown(j)
       PROVE  LoopTypeOK'
    BY <1>29 DEF MarkThrown, Settle, NoBatch
  <1>30. ASSUME NEW j \in Jobs, StallFails(j)
       PROVE  LoopTypeOK'
    BY <1>30 DEF StallFails, Settle, NoBatch
  <1>31. ASSUME NEW j \in Jobs, NEW what \in {"cancel", "pause"}, Deliver(j, what)
       PROVE  LoopTypeOK'
    BY <1>31 DEF Deliver, runVars
  <1>32. ASSUME Crash
       PROVE  LoopTypeOK'
    BY <1>32 DEF Crash, runVars
  <1>33. ASSUME CloseSession
       PROVE  LoopTypeOK'
    BY <1>33 DEF CloseSession, runVars
  <1>34. CASE UNCHANGED vars
    BY <1>34 DEF vars, runVars
  <1>35. QED
    BY <1>1, <1>2, <1>3, <1>4, <1>5, <1>6, <1>7, <1>8, <1>9, <1>10, <1>11, <1>12, <1>13, <1>14,
       <1>15, <1>16, <1>17, <1>18, <1>19, <1>20, <1>21, <1>22, <1>23, <1>24, <1>25, <1>26, <1>27, <1>28,
       <1>29, <1>30, <1>31, <1>32, <1>33, <1>34
       DEF Next, Request, Work, Fault

(* The bounds. *)
LEMMA BoundTypeStep ==
  ASSUME TypeOK, [Next]_vars
  PROVE  BoundTypeOK'
  <1>a. RowTypeOK /\ TableTypeOK /\ QueueTypeOK /\ LoopTypeOK /\ BoundTypeOK
    BY DEF TypeOK
  <1> USE <1>a, ImportAssumption DEF BoundTypeOK, Events
  <1>1. ASSUME NEW c \in Clients, CheckStart(c)
       PROVE  BoundTypeOK'
    BY <1>1 DEF CheckStart
  <1>2. ASSUME NEW c \in Clients, EnqueueStart(c)
       PROVE  BoundTypeOK'
    BY <1>2 DEF EnqueueStart
  <1>3. ASSUME NEW c \in Clients, NEW what \in {"restart", "languages"}, CheckEdit(c, what)
       PROVE  BoundTypeOK'
    BY <1>3 DEF CheckEdit, Spend
  <1>4. ASSUME NEW c \in Clients, restartModImportJob(c)
       PROVE  BoundTypeOK'
    BY <1>4 DEF restartModImportJob
  <1>5. ASSUME NEW c \in Clients, updateModJobLanguages(c)
       PROVE  BoundTypeOK'
    BY <1>5 DEF updateModJobLanguages
  <1>6. ASSUME NEW c \in Clients, NEW j \in Jobs, cancelQueuedImport(c, j)
       PROVE  BoundTypeOK'
    BY <1>6 DEF cancelQueuedImport, Spend
  <1>7. ASSUME NEW c \in Clients, ReadForCancel(c)
       PROVE  BoundTypeOK'
    BY <1>7 DEF ReadForCancel
  <1>8. ASSUME NEW c \in Clients, MarkCancelled(c)
       PROVE  BoundTypeOK'
    BY <1>8 DEF MarkCancelled
  <1>9. ASSUME NEW j \in Jobs, pauseQueuedImport(j)
       PROVE  BoundTypeOK'
    BY <1>9 DEF pauseQueuedImport, Spend
  <1>10. ASSUME NEW j \in Jobs, ReadRow(j)
       PROVE  BoundTypeOK'
    BY <1>10 DEF ReadRow
  <1>11. ASSUME NEW j \in Jobs, BeginRun(j)
       PROVE  BoundTypeOK'
    BY <1>11 DEF BeginRun
  <1>12. ASSUME NEW j \in Jobs, EnterLock(j)
       PROVE  BoundTypeOK'
    BY <1>12 DEF EnterLock
  <1>13. ASSUME NEW j \in Jobs, StopAtLine(j)
       PROVE  BoundTypeOK'
    BY <1>13 DEF StopAtLine
  <1>14. ASSUME NEW j \in Jobs, OpenBatch(j)
       PROVE  BoundTypeOK'
    BY <1>14 DEF OpenBatch
  <1>15. ASSUME NEW j \in Jobs, DropBatch(j)
       PROVE  BoundTypeOK'
    BY <1>15 DEF DropBatch
  <1>16. ASSUME NEW j \in Jobs, FlushBatch(j)
       PROVE  BoundTypeOK'
    BY <1>16 DEF FlushBatch
  <1>17. ASSUME NEW j \in Jobs, RetryBatch(j)
       PROVE  BoundTypeOK'
    BY <1>17 DEF RetryBatch, Spend
  <1>18. ASSUME NEW j \in Jobs, FailBatch(j)
       PROVE  BoundTypeOK'
    <2>1. Spend("failure") \/ Spend("deadlock")
      BY <1>18 DEF FailBatch
    <2>2. CASE Spend("failure")
      BY <2>2 DEF Spend
    <2>3. CASE Spend("deadlock")
      BY <2>3 DEF Spend
    <2>4. QED
      BY <2>1, <2>2, <2>3
  <1>19. ASSUME NEW j \in Jobs, FailCommit(j)
       PROVE  BoundTypeOK'
    BY <1>19 DEF FailCommit, Spend
  <1>20. ASSUME NEW j \in Jobs, NextPhase(j)
       PROVE  BoundTypeOK'
    BY <1>20 DEF NextPhase
  <1>21. ASSUME NEW j \in Jobs, StopAtSlice(j)
       PROVE  BoundTypeOK'
    BY <1>21 DEF StopAtSlice
  <1>22. ASSUME NEW j \in Jobs, WriteSlice(j)
       PROVE  BoundTypeOK'
    BY <1>22 DEF WriteSlice
  <1>23. ASSUME NEW j \in Jobs, FailSlice(j)
       PROVE  BoundTypeOK'
    BY <1>23 DEF FailSlice, Spend
  <1>24. ASSUME NEW j \in Jobs, EndExtras(j)
       PROVE  BoundTypeOK'
    BY <1>24 DEF EndExtras
  <1>25. ASSUME NEW j \in Jobs, Prune(j)
       PROVE  BoundTypeOK'
    BY <1>25 DEF Prune
  <1>26. ASSUME NEW j \in Jobs, FailFinalize(j)
       PROVE  BoundTypeOK'
    BY <1>26 DEF FailFinalize, Spend
  <1>27. ASSUME NEW j \in Jobs, CompleteRun(j)
       PROVE  BoundTypeOK'
    BY <1>27 DEF CompleteRun
  <1>28. ASSUME NEW j \in Jobs, EndRun(j)
       PROVE  BoundTypeOK'
    BY <1>28 DEF EndRun
  <1>29. ASSUME NEW j \in Jobs, MarkThrown(j)
       PROVE  BoundTypeOK'
    BY <1>29 DEF MarkThrown
  <1>30. ASSUME NEW j \in Jobs, StallFails(j)
       PROVE  BoundTypeOK'
    BY <1>30 DEF StallFails
  <1>31. ASSUME NEW j \in Jobs, NEW what \in {"cancel", "pause"}, Deliver(j, what)
       PROVE  BoundTypeOK'
    BY <1>31 DEF Deliver
  <1>32. ASSUME Crash
       PROVE  BoundTypeOK'
    BY <1>32 DEF Crash, Spend
  <1>33. ASSUME CloseSession
       PROVE  BoundTypeOK'
    BY <1>33 DEF CloseSession
  <1>34. CASE UNCHANGED vars
    BY <1>34 DEF vars
  <1>35. QED
    BY <1>1, <1>2, <1>3, <1>4, <1>5, <1>6, <1>7, <1>8, <1>9, <1>10, <1>11, <1>12, <1>13, <1>14,
       <1>15, <1>16, <1>17, <1>18, <1>19, <1>20, <1>21, <1>22, <1>23, <1>24, <1>25, <1>26, <1>27, <1>28,
       <1>29, <1>30, <1>31, <1>32, <1>33, <1>34
       DEF Next, Request, Work, Fault

LEMMA TypeStep == TypeOK /\ [Next]_vars => TypeOK'
  BY RowTypeStep, TableTypeStep, QueueTypeStep, LoopTypeStep, BoundTypeStep DEF TypeOK

LEMMA TypeInit == Init => TypeOK
  <1> SUFFICES ASSUME Init PROVE TypeOK
    OBVIOUS
  <1> USE ImportAssumption DEF Init
  <1>1. RowTypeOK
    BY DEF RowTypeOK, RowType
  <1>2. TableTypeOK
    BY DEF TableTypeOK
  <1>3. QueueTypeOK
    BY DEF QueueTypeOK, Steps, NoJob
  <1>4. LoopTypeOK
    BY DEF LoopTypeOK, Total
  <1>5. BoundTypeOK
    BY DEF BoundTypeOK
  <1>6. QED
    BY <1>1, <1>2, <1>3, <1>4, <1>5 DEF TypeOK

(* Whatever is asked and whatever fails, the state keeps its types: a run      *)
(* never passes the last line, fills a batch beyond its size or attempts it    *)
(* more often than allowed (createModImportBatchWriter, the ingest loops).     *)
THEOREM ImportTypes == Spec => []TypeOK
  <1>1. Init => TypeOK
    BY TypeInit
  <1>2. TypeOK /\ [Next]_vars => TypeOK'
    BY TypeStep
  <1>3. QED
    BY <1>1, <1>2, PTL DEF Spec

---------------------------------------------------------------------------
(*************************************************************************)
(* What makes CheckpointCommitted and CompletedHasAll inductive          *)
(*************************************************************************)

(* The lines of the plugin a count stands for are in the database. *)
Committed(lang, n) == \A i \in 1 .. PluginLines : i <= n => Stored(lang, i)

(* Only the holder of the lock is past it. *)
LockHeld == \A j \in Jobs : state[j] \in Writing <=> lock = j

(* A language edit that passed its check has been counted. *)
EditCounted == \A c \in Clients : request[c] = "languages" => "languages" \in slips

(* How far a run is: the batch writer's count and its place in the plugin     *)
(* move together until a stop drops a batch, and the later phases start from  *)
(* the last line.                                                             *)
InStep(j) ==
  /\ state[j] = "locking" => counter[j] = read[j].imported
  /\ state[j] \in {"open", "retry"} =>
       /\ batch[j] >= 1 /\ batch[j] <= at[j] /\ at[j] <= PluginLines
       /\ counter[j] = at[j] - batch[j]
  /\ state[j] \notin {"open", "retry", "stalled"} => batch[j] = 0
  /\ state[j] = "plugin" =>
       /\ at[j] <= PluginLines
       /\ at[j] < PluginLines /\ ~Stopping(j) => counter[j] = at[j]
  /\ state[j] \in {"boundary", "extras"} => at[j] >= PluginLines
  /\ state[j] \in {"overlay", "prune"} => at[j] = Total

(* Without a language edit every count is about the same language. *)
OneLanguage ==
  row.lang = UploadLang /\ \A j \in Jobs : read[j].lang = UploadLang

(* Every count somebody may still write to the row is committed. *)
CountsCommitted ==
  /\ Committed(UploadLang, row.imported)
  /\ \A c \in Clients : Committed(UploadLang, seen[c])
  /\ \A j \in Jobs : Committed(UploadLang, read[j].imported)
  /\ \A j \in Jobs : Committed(UploadLang, counter[j])

(* A run that has lost no batch has stored what it has passed, itself if it   *)
(* is going to prune. A stop that comes later does not matter: a batch being  *)
(* attempted is written all the same, and the prune is not stopped.           *)
Whole(j) ==
  \/ state[j] \in {"open", "retry", "prune"}
  \/ state[j] \in {"plugin", "boundary", "extras", "overlay"} /\ ~Stopping(j)
PassedStored(j) ==
  Whole(j) => \A i \in 1 .. Total :
                i <= at[j] - batch[j] =>
                  IF pruneStaleImportData(j)
                  THEN new[<<UploadLang, i>>] >= 1 ELSE Stored(UploadLang, i)

(* Past the prune, and on a row that says so, the mod is there. *)
AllStored == \A i \in 1 .. Total : Stored(UploadLang, i)
CompletionStored ==
  /\ row.status = "completed" => AllStored
  /\ \A j \in Jobs : state[j] = "close" => AllStored

(* A run from the start that has left nothing behind has written each line it *)
(* has passed once, and nothing else; its prune takes everything but that.    *)
Fresh(j)     == state[j] \in Writing /\ pruneStaleImportData(j) /\ ~leftover[j]
Own(j, line) == line[1] = read[j].lang /\ line[2] <= at[j] - batch[j]
WroteExactly(j) ==
  Fresh(j) =>
    /\ (Whole(j) \/ state[j] = "close")
         => \A line \in Lines : new[line] = (IF Own(j, line) THEN 1 ELSE 0)
    /\ state[j] = "close" => at[j] = Total /\ \A line \in Lines : old[line] = 0

LinesKept ==
  slips = {} => OneLanguage /\ CountsCommitted /\ CompletionStored /\ \A j \in Jobs : PassedStored(j)

IInv ==
  /\ TypeOK /\ LockHeld /\ EditCounted
  /\ \A j \in Jobs : InStep(j)
  /\ \A j \in Jobs : WroteExactly(j)
  /\ LinesKept

---------------------------------------------------------------------------
(* Lock, requests and the place of a run *)

(* Mutual exclusion under withModImportWriteLock. *)
LEMMA LockStep ==
  ASSUME TypeOK, LockHeld, [Next]_vars
  PROVE  LockHeld'
  <1> SUFFICES ASSUME NEW i \in Jobs PROVE (state[i] \in Writing <=> lock = i)'
    BY DEF LockHeld
  <1> USE ImportAssumption DEF LockHeld, TypeOK, QueueTypeOK, Jobs, NoJob, Orphan, Writing, Listening
  <1>1. ASSUME NEW c \in Clients, CheckStart(c)
       PROVE  (state[i] \in Writing <=> lock = i)'
    BY <1>1 DEF CheckStart, requestKeeps
  <1>2. ASSUME NEW c \in Clients, EnqueueStart(c)
       PROVE  (state[i] \in Writing <=> lock = i)'
    BY <1>2 DEF EnqueueStart, Go
  <1>3. ASSUME NEW c \in Clients, NEW what \in {"restart", "languages"}, CheckEdit(c, what)
       PROVE  (state[i] \in Writing <=> lock = i)'
    BY <1>3 DEF CheckEdit, requestKeeps
  <1>4. ASSUME NEW c \in Clients, restartModImportJob(c)
       PROVE  (state[i] \in Writing <=> lock = i)'
    BY <1>4 DEF restartModImportJob, requestKeeps
  <1>5. ASSUME NEW c \in Clients, updateModJobLanguages(c)
       PROVE  (state[i] \in Writing <=> lock = i)'
    BY <1>5 DEF updateModJobLanguages, requestKeeps
  <1>6. ASSUME NEW c \in Clients, NEW j \in Jobs, cancelQueuedImport(c, j)
       PROVE  (state[i] \in Writing <=> lock = i)'
    BY <1>6 DEF cancelQueuedImport, Go, Unfinished, dbVars
  <1>7. ASSUME NEW c \in Clients, ReadForCancel(c)
       PROVE  (state[i] \in Writing <=> lock = i)'
    BY <1>7 DEF ReadForCancel, requestKeeps
  <1>8. ASSUME NEW c \in Clients, MarkCancelled(c)
       PROVE  (state[i] \in Writing <=> lock = i)'
    BY <1>8 DEF MarkCancelled, requestKeeps
  <1>9. ASSUME NEW j \in Jobs, pauseQueuedImport(j)
       PROVE  (state[i] \in Writing <=> lock = i)'
    BY <1>9 DEF pauseQueuedImport, Unfinished, dbVars
  <1>10. ASSUME NEW j \in Jobs, ReadRow(j)
       PROVE  (state[i] \in Writing <=> lock = i)'
    BY <1>10 DEF ReadRow, Go, dbVars
  <1>11. ASSUME NEW j \in Jobs, BeginRun(j)
       PROVE  (state[i] \in Writing <=> lock = i)'
    BY <1>11 DEF BeginRun, Go, Settle, dbVars
  <1>12. ASSUME NEW j \in Jobs, EnterLock(j)
       PROVE  (state[i] \in Writing <=> lock = i)'
    BY <1>12 DEF EnterLock, Go
  <1>13. ASSUME NEW j \in Jobs, StopAtLine(j)
       PROVE  (state[i] \in Writing <=> lock = i)'
    BY <1>13 DEF StopAtLine, Go
  <1>14. ASSUME NEW j \in Jobs, OpenBatch(j)
       PROVE  (state[i] \in Writing <=> lock = i)'
    BY <1>14 DEF OpenBatch, Go, dbVars
  <1>15. ASSUME NEW j \in Jobs, DropBatch(j)
       PROVE  (state[i] \in Writing <=> lock = i)'
    BY <1>15 DEF DropBatch, Go, AfterBatch, dbVars
  <1>16. ASSUME NEW j \in Jobs, FlushBatch(j)
       PROVE  (state[i] \in Writing <=> lock = i)'
    BY <1>16 DEF FlushBatch, Go, Attempting, AfterBatch
  <1>17. ASSUME NEW j \in Jobs, RetryBatch(j)
       PROVE  (state[i] \in Writing <=> lock = i)'
    BY <1>17 DEF RetryBatch, Go, Attempting
  <1>18. ASSUME NEW j \in Jobs, FailBatch(j)
       PROVE  (state[i] \in Writing <=> lock = i)'
    BY <1>18 DEF FailBatch, GiveUp, Attempting, Go
  <1>19. ASSUME NEW j \in Jobs, FailCommit(j)
       PROVE  (state[i] \in Writing <=> lock = i)'
    BY <1>19 DEF FailCommit, GiveUp, Attempting, Go
  <1>20. ASSUME NEW j \in Jobs, NextPhase(j)
       PROVE  (state[i] \in Writing <=> lock = i)'
    BY <1>20 DEF NextPhase, Go, dbVars
  <1>21. ASSUME NEW j \in Jobs, StopAtSlice(j)
       PROVE  (state[i] \in Writing <=> lock = i)'
    BY <1>21 DEF StopAtSlice, Go
  <1>22. ASSUME NEW j \in Jobs, WriteSlice(j)
       PROVE  (state[i] \in Writing <=> lock = i)'
    BY <1>22 DEF WriteSlice
  <1>23. ASSUME NEW j \in Jobs, FailSlice(j)
       PROVE  (state[i] \in Writing <=> lock = i)'
    BY <1>23 DEF FailSlice, GiveUp, Settle, Go
  <1>24. ASSUME NEW j \in Jobs, EndExtras(j)
       PROVE  (state[i] \in Writing <=> lock = i)'
    BY <1>24 DEF EndExtras, Go, dbVars
  <1>25. ASSUME NEW j \in Jobs, Prune(j)
       PROVE  (state[i] \in Writing <=> lock = i)'
    BY <1>25 DEF Prune, Go
  <1>26. ASSUME NEW j \in Jobs, FailFinalize(j)
       PROVE  (state[i] \in Writing <=> lock = i)'
    BY <1>26 DEF FailFinalize, GiveUp, Go
  <1>27. ASSUME NEW j \in Jobs, CompleteRun(j)
       PROVE  (state[i] \in Writing <=> lock = i)'
    BY <1>27 DEF CompleteRun, Go
  <1>28. ASSUME NEW j \in Jobs, EndRun(j)
       PROVE  (state[i] \in Writing <=> lock = i)'
    <2>1. state[j] \in Writing /\ lock = j
      BY <1>28 DEF EndRun
    <2>2. lock' = NoJob /\ state' = [state EXCEPT ![j] = "done"]
      BY <1>28 DEF EndRun, Settle, Go
    <2>3. QED
      BY <2>1, <2>2
  <1>29. ASSUME NEW j \in Jobs, MarkThrown(j)
       PROVE  (state[i] \in Writing <=> lock = i)'
    BY <1>29 DEF MarkThrown, Settle, Go
  <1>30. ASSUME NEW j \in Jobs, StallFails(j)
       PROVE  (state[i] \in Writing <=> lock = i)'
    BY <1>30 DEF StallFails, Settle, dbVars, Go
  <1>31. ASSUME NEW j \in Jobs, NEW what \in {"cancel", "pause"}, Deliver(j, what)
       PROVE  (state[i] \in Writing <=> lock = i)'
    BY <1>31 DEF Deliver, dbVars
  <1>32. ASSUME Crash
       PROVE  (state[i] \in Writing <=> lock = i)'
    BY <1>32 DEF Crash
  <1>33. ASSUME CloseSession
       PROVE  (state[i] \in Writing <=> lock = i)'
    BY <1>33 DEF CloseSession
  <1>34. CASE UNCHANGED vars
    BY <1>34 DEF vars, dbVars
  <1>35. QED
    BY <1>1, <1>2, <1>3, <1>4, <1>5, <1>6, <1>7, <1>8, <1>9, <1>10, <1>11, <1>12, <1>13, <1>14,
       <1>15, <1>16, <1>17, <1>18, <1>19, <1>20, <1>21, <1>22, <1>23, <1>24, <1>25, <1>26, <1>27, <1>28,
       <1>29, <1>30, <1>31, <1>32, <1>33, <1>34
       DEF Next, Request, Work, Fault

(* A language edit is counted when it passes its check. *)
LEMMA EditStep ==
  ASSUME TypeOK, EditCounted, [Next]_vars
  PROVE  EditCounted'
  <1> USE DEF EditCounted, TypeOK, RowTypeOK
  <1>1. ASSUME NEW c \in Clients, CheckStart(c)
       PROVE  EditCounted'
    BY <1>1 DEF CheckStart, At
  <1>2. ASSUME NEW c \in Clients, EnqueueStart(c)
       PROVE  EditCounted'
    BY <1>2 DEF EnqueueStart, At
  <1>3. ASSUME NEW c \in Clients, NEW what \in {"restart", "languages"}, CheckEdit(c, what)
       PROVE  EditCounted'
    BY <1>3 DEF CheckEdit, At, Spend
  <1>4. ASSUME NEW c \in Clients, restartModImportJob(c)
       PROVE  EditCounted'
    BY <1>4 DEF restartModImportJob, At
  <1>5. ASSUME NEW c \in Clients, updateModJobLanguages(c)
       PROVE  EditCounted'
    BY <1>5 DEF updateModJobLanguages, At
  <1>6. ASSUME NEW c \in Clients, NEW j \in Jobs, cancelQueuedImport(c, j)
       PROVE  EditCounted'
    BY <1>6 DEF cancelQueuedImport, At, Spend
  <1>7. ASSUME NEW c \in Clients, ReadForCancel(c)
       PROVE  EditCounted'
    BY <1>7 DEF ReadForCancel, At
  <1>8. ASSUME NEW c \in Clients, MarkCancelled(c)
       PROVE  EditCounted'
    BY <1>8 DEF MarkCancelled, At
  <1>9. ASSUME NEW j \in Jobs, pauseQueuedImport(j)
       PROVE  EditCounted'
    BY <1>9 DEF pauseQueuedImport, Spend, clientVars
  <1>10. ASSUME NEW j \in Jobs, ReadRow(j)
       PROVE  EditCounted'
    BY <1>10 DEF ReadRow, workKeeps, clientVars
  <1>11. ASSUME NEW j \in Jobs, BeginRun(j)
       PROVE  EditCounted'
    BY <1>11 DEF BeginRun, clientVars
  <1>12. ASSUME NEW j \in Jobs, EnterLock(j)
       PROVE  EditCounted'
    BY <1>12 DEF EnterLock, workKeeps, clientVars
  <1>13. ASSUME NEW j \in Jobs, StopAtLine(j)
       PROVE  EditCounted'
    BY <1>13 DEF StopAtLine, workKeeps, clientVars
  <1>14. ASSUME NEW j \in Jobs, OpenBatch(j)
       PROVE  EditCounted'
    BY <1>14 DEF OpenBatch, workKeeps, clientVars
  <1>15. ASSUME NEW j \in Jobs, DropBatch(j)
       PROVE  EditCounted'
    BY <1>15 DEF DropBatch, workKeeps, clientVars
  <1>16. ASSUME NEW j \in Jobs, FlushBatch(j)
       PROVE  EditCounted'
    BY <1>16 DEF FlushBatch, workKeeps, clientVars
  <1>17. ASSUME NEW j \in Jobs, RetryBatch(j)
       PROVE  EditCounted'
    BY <1>17 DEF RetryBatch, Spend, workKeeps, clientVars
  <1>18. ASSUME NEW j \in Jobs, FailBatch(j)
       PROVE  EditCounted'
    BY <1>18 DEF FailBatch, Spend, workKeeps, clientVars
  <1>19. ASSUME NEW j \in Jobs, FailCommit(j)
       PROVE  EditCounted'
    BY <1>19 DEF FailCommit, Spend, workKeeps, clientVars
  <1>20. ASSUME NEW j \in Jobs, NextPhase(j)
       PROVE  EditCounted'
    BY <1>20 DEF NextPhase, workKeeps, clientVars
  <1>21. ASSUME NEW j \in Jobs, StopAtSlice(j)
       PROVE  EditCounted'
    BY <1>21 DEF StopAtSlice, workKeeps, clientVars
  <1>22. ASSUME NEW j \in Jobs, WriteSlice(j)
       PROVE  EditCounted'
    BY <1>22 DEF WriteSlice, workKeeps, clientVars
  <1>23. ASSUME NEW j \in Jobs, FailSlice(j)
       PROVE  EditCounted'
    BY <1>23 DEF FailSlice, Spend, clientVars
  <1>24. ASSUME NEW j \in Jobs, EndExtras(j)
       PROVE  EditCounted'
    BY <1>24 DEF EndExtras, workKeeps, clientVars
  <1>25. ASSUME NEW j \in Jobs, Prune(j)
       PROVE  EditCounted'
    BY <1>25 DEF Prune, workKeeps, clientVars
  <1>26. ASSUME NEW j \in Jobs, FailFinalize(j)
       PROVE  EditCounted'
    BY <1>26 DEF FailFinalize, Spend, workKeeps, clientVars
  <1>27. ASSUME NEW j \in Jobs, CompleteRun(j)
       PROVE  EditCounted'
    BY <1>27 DEF CompleteRun, workKeeps, clientVars
  <1>28. ASSUME NEW j \in Jobs, EndRun(j)
       PROVE  EditCounted'
    BY <1>28 DEF EndRun, clientVars
  <1>29. ASSUME NEW j \in Jobs, MarkThrown(j)
       PROVE  EditCounted'
    BY <1>29 DEF MarkThrown, clientVars
  <1>30. ASSUME NEW j \in Jobs, StallFails(j)
       PROVE  EditCounted'
    BY <1>30 DEF StallFails, clientVars
  <1>31. ASSUME NEW j \in Jobs, NEW what \in {"cancel", "pause"}, Deliver(j, what)
       PROVE  EditCounted'
    BY <1>31 DEF Deliver, clientVars
  <1>32. ASSUME Crash
       PROVE  EditCounted'
    BY <1>32 DEF Crash, Spend, clientVars
  <1>33. ASSUME CloseSession
       PROVE  EditCounted'
    BY <1>33 DEF CloseSession, workKeeps, clientVars
  <1>34. CASE UNCHANGED vars
    BY <1>34 DEF vars, clientVars
  <1>35. QED
    BY <1>1, <1>2, <1>3, <1>4, <1>5, <1>6, <1>7, <1>8, <1>9, <1>10, <1>11, <1>12, <1>13, <1>14,
       <1>15, <1>16, <1>17, <1>18, <1>19, <1>20, <1>21, <1>22, <1>23, <1>24, <1>25, <1>26, <1>27, <1>28,
       <1>29, <1>30, <1>31, <1>32, <1>33, <1>34
       DEF Next, Request, Work, Fault

(* Count and place of a run move together. *)
LEMMA PlaceStep ==
  ASSUME TypeOK, LockHeld, \A j \in Jobs : InStep(j), [Next]_vars
  PROVE  \A j \in Jobs : InStep(j)'
  <1> SUFFICES ASSUME NEW i \in Jobs PROVE InStep(i)'
    OBVIOUS
  <1> USE ImportAssumption DEF InStep, TypeOK, RowTypeOK, RowType, QueueTypeOK, LoopTypeOK,
        Stopping, Total, Listening, Writing, Steps
  <1>1. ASSUME NEW c \in Clients, CheckStart(c)
       PROVE  InStep(i)'
    BY <1>1 DEF CheckStart, requestKeeps, runVars
  <1>2. ASSUME NEW c \in Clients, EnqueueStart(c)
       PROVE  InStep(i)'
    BY <1>2 DEF EnqueueStart, Go, runVars
  <1>3. ASSUME NEW c \in Clients, NEW what \in {"restart", "languages"}, CheckEdit(c, what)
       PROVE  InStep(i)'
    BY <1>3 DEF CheckEdit, requestKeeps, runVars
  <1>4. ASSUME NEW c \in Clients, restartModImportJob(c)
       PROVE  InStep(i)'
    BY <1>4 DEF restartModImportJob, requestKeeps, runVars
  <1>5. ASSUME NEW c \in Clients, updateModJobLanguages(c)
       PROVE  InStep(i)'
    BY <1>5 DEF updateModJobLanguages, requestKeeps, runVars
  <1>6. ASSUME NEW c \in Clients, NEW j \in Jobs, cancelQueuedImport(c, j)
       PROVE  InStep(i)'
    BY <1>6 DEF cancelQueuedImport, Go, Unfinished, runVars
  <1>7. ASSUME NEW c \in Clients, ReadForCancel(c)
       PROVE  InStep(i)'
    BY <1>7 DEF ReadForCancel, requestKeeps, runVars
  <1>8. ASSUME NEW c \in Clients, MarkCancelled(c)
       PROVE  InStep(i)'
    BY <1>8 DEF MarkCancelled, requestKeeps, runVars
  <1>9. ASSUME NEW j \in Jobs, pauseQueuedImport(j)
       PROVE  InStep(i)'
    BY <1>9 DEF pauseQueuedImport, Unfinished, runVars
  <1>10. ASSUME NEW j \in Jobs, ReadRow(j)
       PROVE  InStep(i)'
    BY <1>10 DEF ReadRow, Go, workKeeps
  <1>11. ASSUME NEW j \in Jobs, BeginRun(j)
       PROVE  InStep(i)'
    BY <1>11 DEF BeginRun, Go, Settle, NoBatch
  <1>12. ASSUME NEW j \in Jobs, EnterLock(j)
       PROVE  InStep(i)'
    BY <1>12 DEF EnterLock, Go, Skipped, workKeeps, Min2
  <1>13. ASSUME NEW j \in Jobs, StopAtLine(j)
       PROVE  InStep(i)'
    BY <1>13 DEF StopAtLine, Go, NoBatch, workKeeps
  <1>14. ASSUME NEW j \in Jobs, OpenBatch(j)
       PROVE  InStep(i)'
    BY <1>14 DEF OpenBatch, Go, Min2, workKeeps
  <1>15. ASSUME NEW j \in Jobs, DropBatch(j)
       PROVE  InStep(i)'
    BY <1>15 DEF DropBatch, Go, NoBatch, AfterBatch, workKeeps
  <1>16. ASSUME NEW j \in Jobs, FlushBatch(j)
       PROVE  InStep(i)'
    BY <1>16 DEF FlushBatch, Go, NoBatch, Counting, Attempting, AfterBatch, workKeeps
  <1>17. ASSUME NEW j \in Jobs, RetryBatch(j)
       PROVE  InStep(i)'
    BY <1>17 DEF RetryBatch, Go, AbandonAttempt, Attempting, workKeeps
  <1>18. ASSUME NEW j \in Jobs, FailBatch(j)
       PROVE  InStep(i)'
    BY <1>18 DEF FailBatch, AbandonAttempt, GiveUp, Attempting, workKeeps, Go, NoBatch
  <1>19. ASSUME NEW j \in Jobs, FailCommit(j)
       PROVE  InStep(i)'
    BY <1>19 DEF FailCommit, Counting, GiveUp, Attempting, workKeeps, Go, NoBatch
  <1>20. ASSUME NEW j \in Jobs, NextPhase(j)
       PROVE  InStep(i)'
    BY <1>20 DEF NextPhase, Go, workKeeps, runVars
  <1>21. ASSUME NEW j \in Jobs, StopAtSlice(j)
       PROVE  InStep(i)'
    BY <1>21 DEF StopAtSlice, Go, workKeeps, runVars
  <1>22. ASSUME NEW j \in Jobs, WriteSlice(j)
       PROVE  InStep(i)'
    BY <1>22 DEF WriteSlice, Slice, workKeeps, Min2
  <1>23. ASSUME NEW j \in Jobs, FailSlice(j)
       PROVE  InStep(i)'
    BY <1>23 DEF FailSlice, GiveUp, Settle, Go, NoBatch
  <1>24. ASSUME NEW j \in Jobs, EndExtras(j)
       PROVE  InStep(i)'
    BY <1>24 DEF EndExtras, Go, workKeeps, runVars
  <1>25. ASSUME NEW j \in Jobs, Prune(j)
       PROVE  InStep(i)'
    BY <1>25 DEF Prune, Go, workKeeps, runVars
  <1>26. ASSUME NEW j \in Jobs, FailFinalize(j)
       PROVE  InStep(i)'
    BY <1>26 DEF FailFinalize, GiveUp, workKeeps, Go, NoBatch
  <1>27. ASSUME NEW j \in Jobs, CompleteRun(j)
       PROVE  InStep(i)'
    BY <1>27 DEF CompleteRun, Go, workKeeps, runVars
  <1>28. ASSUME NEW j \in Jobs, EndRun(j)
       PROVE  InStep(i)'
    BY <1>28 DEF EndRun, Settle, Go, NoBatch
  <1>29. ASSUME NEW j \in Jobs, MarkThrown(j)
       PROVE  InStep(i)'
    BY <1>29 DEF MarkThrown, Settle, Go, NoBatch
  <1>30. ASSUME NEW j \in Jobs, StallFails(j)
       PROVE  InStep(i)'
    BY <1>30 DEF StallFails, Settle, Go, NoBatch
  <1>31. ASSUME NEW j \in Jobs, NEW what \in {"cancel", "pause"}, Deliver(j, what)
       PROVE  InStep(i)'
    BY <1>31 DEF Deliver, runVars
  <1>32. ASSUME Crash
       PROVE  InStep(i)'
    BY <1>32 DEF Crash, runVars
  <1>33. ASSUME CloseSession
       PROVE  InStep(i)'
    BY <1>33 DEF CloseSession, workKeeps, runVars
  <1>34. CASE UNCHANGED vars
    BY <1>34 DEF vars, runVars
  <1>35. QED
    BY <1>1, <1>2, <1>3, <1>4, <1>5, <1>6, <1>7, <1>8, <1>9, <1>10, <1>11, <1>12, <1>13, <1>14,
       <1>15, <1>16, <1>17, <1>18, <1>19, <1>20, <1>21, <1>22, <1>23, <1>24, <1>25, <1>26, <1>27, <1>28,
       <1>29, <1>30, <1>31, <1>32, <1>33, <1>34
       DEF Next, Request, Work, Fault

---------------------------------------------------------------------------
(* The lines *)

(* A slip is never forgotten. *)
LEMMA SlipsStay ==
  ASSUME TypeOK, slips' = {}, [Next]_vars
  PROVE  slips = {}
  <1> USE DEF TypeOK, BoundTypeOK
  <1>1. ASSUME NEW c \in Clients, CheckStart(c)
       PROVE  slips = {}
    BY <1>1 DEF CheckStart
  <1>2. ASSUME NEW c \in Clients, EnqueueStart(c)
       PROVE  slips = {}
    BY <1>2 DEF EnqueueStart
  <1>3. ASSUME NEW c \in Clients, NEW what \in {"restart", "languages"}, CheckEdit(c, what)
       PROVE  slips = {}
    BY <1>3 DEF CheckEdit, Spend
  <1>4. ASSUME NEW c \in Clients, restartModImportJob(c)
       PROVE  slips = {}
    BY <1>4 DEF restartModImportJob
  <1>5. ASSUME NEW c \in Clients, updateModJobLanguages(c)
       PROVE  slips = {}
    BY <1>5 DEF updateModJobLanguages
  <1>6. ASSUME NEW c \in Clients, NEW j \in Jobs, cancelQueuedImport(c, j)
       PROVE  slips = {}
    BY <1>6 DEF cancelQueuedImport, Spend
  <1>7. ASSUME NEW c \in Clients, ReadForCancel(c)
       PROVE  slips = {}
    BY <1>7 DEF ReadForCancel
  <1>8. ASSUME NEW c \in Clients, MarkCancelled(c)
       PROVE  slips = {}
    BY <1>8 DEF MarkCancelled
  <1>9. ASSUME NEW j \in Jobs, pauseQueuedImport(j)
       PROVE  slips = {}
    BY <1>9 DEF pauseQueuedImport, Spend
  <1>10. ASSUME NEW j \in Jobs, ReadRow(j)
       PROVE  slips = {}
    BY <1>10 DEF ReadRow
  <1>11. ASSUME NEW j \in Jobs, BeginRun(j)
       PROVE  slips = {}
    BY <1>11 DEF BeginRun
  <1>12. ASSUME NEW j \in Jobs, EnterLock(j)
       PROVE  slips = {}
    BY <1>12 DEF EnterLock
  <1>13. ASSUME NEW j \in Jobs, StopAtLine(j)
       PROVE  slips = {}
    BY <1>13 DEF StopAtLine
  <1>14. ASSUME NEW j \in Jobs, OpenBatch(j)
       PROVE  slips = {}
    BY <1>14 DEF OpenBatch
  <1>15. ASSUME NEW j \in Jobs, DropBatch(j)
       PROVE  slips = {}
    BY <1>15 DEF DropBatch
  <1>16. ASSUME NEW j \in Jobs, FlushBatch(j)
       PROVE  slips = {}
    BY <1>16 DEF FlushBatch
  <1>17. ASSUME NEW j \in Jobs, RetryBatch(j)
       PROVE  slips = {}
    BY <1>17 DEF RetryBatch, Spend
  <1>18. ASSUME NEW j \in Jobs, FailBatch(j)
       PROVE  slips = {}
    BY <1>18 DEF FailBatch, Spend
  <1>19. ASSUME NEW j \in Jobs, FailCommit(j)
       PROVE  slips = {}
    BY <1>19 DEF FailCommit, Spend
  <1>20. ASSUME NEW j \in Jobs, NextPhase(j)
       PROVE  slips = {}
    BY <1>20 DEF NextPhase
  <1>21. ASSUME NEW j \in Jobs, StopAtSlice(j)
       PROVE  slips = {}
    BY <1>21 DEF StopAtSlice
  <1>22. ASSUME NEW j \in Jobs, WriteSlice(j)
       PROVE  slips = {}
    BY <1>22 DEF WriteSlice
  <1>23. ASSUME NEW j \in Jobs, FailSlice(j)
       PROVE  slips = {}
    BY <1>23 DEF FailSlice, Spend
  <1>24. ASSUME NEW j \in Jobs, EndExtras(j)
       PROVE  slips = {}
    BY <1>24 DEF EndExtras
  <1>25. ASSUME NEW j \in Jobs, Prune(j)
       PROVE  slips = {}
    BY <1>25 DEF Prune
  <1>26. ASSUME NEW j \in Jobs, FailFinalize(j)
       PROVE  slips = {}
    BY <1>26 DEF FailFinalize, Spend
  <1>27. ASSUME NEW j \in Jobs, CompleteRun(j)
       PROVE  slips = {}
    BY <1>27 DEF CompleteRun
  <1>28. ASSUME NEW j \in Jobs, EndRun(j)
       PROVE  slips = {}
    BY <1>28 DEF EndRun
  <1>29. ASSUME NEW j \in Jobs, MarkThrown(j)
       PROVE  slips = {}
    BY <1>29 DEF MarkThrown
  <1>30. ASSUME NEW j \in Jobs, StallFails(j)
       PROVE  slips = {}
    BY <1>30 DEF StallFails
  <1>31. ASSUME NEW j \in Jobs, NEW what \in {"cancel", "pause"}, Deliver(j, what)
       PROVE  slips = {}
    BY <1>31 DEF Deliver
  <1>32. ASSUME Crash
       PROVE  slips = {}
    BY <1>32 DEF Crash, Spend
  <1>33. ASSUME CloseSession
       PROVE  slips = {}
    BY <1>33 DEF CloseSession
  <1>34. CASE UNCHANGED vars
    BY <1>34 DEF vars
  <1>35. QED
    BY <1>1, <1>2, <1>3, <1>4, <1>5, <1>6, <1>7, <1>8, <1>9, <1>10, <1>11, <1>12, <1>13, <1>14,
       <1>15, <1>16, <1>17, <1>18, <1>19, <1>20, <1>21, <1>22, <1>23, <1>24, <1>25, <1>26, <1>27, <1>28,
       <1>29, <1>30, <1>31, <1>32, <1>33, <1>34
       DEF Next, Request, Work, Fault

(* No step loses a line: the prune of a run from the start finds every line among its own. *)
LEMMA LinesStay ==
  ASSUME IInv, slips' = {}, [Next]_vars
  PROVE  \A i \in 1 .. Total : Stored(UploadLang, i) => Stored(UploadLang, i)'
  <1> SUFFICES ASSUME NEW i \in 1 .. Total, Stored(UploadLang, i) PROVE Stored(UploadLang, i)'
    OBVIOUS
  <1>a. IInv /\ slips = {}
    BY SlipsStay DEF IInv
  <1> USE <1>a, ImportAssumption DEF IInv, TypeOK, TableTypeOK, Stored, Lines, Total
  <1>1. ASSUME NEW c \in Clients, CheckStart(c)
       PROVE  Stored(UploadLang, i)'
    BY <1>1 DEF CheckStart, requestKeeps
  <1>2. ASSUME NEW c \in Clients, EnqueueStart(c)
       PROVE  Stored(UploadLang, i)'
    BY <1>2 DEF EnqueueStart
  <1>3. ASSUME NEW c \in Clients, NEW what \in {"restart", "languages"}, CheckEdit(c, what)
       PROVE  Stored(UploadLang, i)'
    BY <1>3 DEF CheckEdit, requestKeeps
  <1>4. ASSUME NEW c \in Clients, restartModImportJob(c)
       PROVE  Stored(UploadLang, i)'
    BY <1>4 DEF restartModImportJob, requestKeeps
  <1>5. ASSUME NEW c \in Clients, updateModJobLanguages(c)
       PROVE  Stored(UploadLang, i)'
    BY <1>5 DEF updateModJobLanguages, requestKeeps
  <1>6. ASSUME NEW c \in Clients, NEW j \in Jobs, cancelQueuedImport(c, j)
       PROVE  Stored(UploadLang, i)'
    BY <1>6 DEF cancelQueuedImport, dbVars
  <1>7. ASSUME NEW c \in Clients, ReadForCancel(c)
       PROVE  Stored(UploadLang, i)'
    BY <1>7 DEF ReadForCancel, requestKeeps
  <1>8. ASSUME NEW c \in Clients, MarkCancelled(c)
       PROVE  Stored(UploadLang, i)'
    BY <1>8 DEF MarkCancelled, requestKeeps
  <1>9. ASSUME NEW j \in Jobs, pauseQueuedImport(j)
       PROVE  Stored(UploadLang, i)'
    BY <1>9 DEF pauseQueuedImport, dbVars
  <1>10. ASSUME NEW j \in Jobs, ReadRow(j)
       PROVE  Stored(UploadLang, i)'
    BY <1>10 DEF ReadRow, dbVars
  <1>11. ASSUME NEW j \in Jobs, BeginRun(j)
       PROVE  Stored(UploadLang, i)'
    BY <1>11 DEF BeginRun, dbVars
  <1>12. ASSUME NEW j \in Jobs, EnterLock(j)
       PROVE  Stored(UploadLang, i)'
    BY <1>12 DEF EnterLock
  <1>13. ASSUME NEW j \in Jobs, StopAtLine(j)
       PROVE  Stored(UploadLang, i)'
    BY <1>13 DEF StopAtLine
  <1>14. ASSUME NEW j \in Jobs, OpenBatch(j)
       PROVE  Stored(UploadLang, i)'
    BY <1>14 DEF OpenBatch, dbVars
  <1>15. ASSUME NEW j \in Jobs, DropBatch(j)
       PROVE  Stored(UploadLang, i)'
    BY <1>15 DEF DropBatch, dbVars
  <1>16. ASSUME NEW j \in Jobs, FlushBatch(j)
       PROVE  Stored(UploadLang, i)'
    BY <1>16 DEF FlushBatch, InsertBatch, Insert
  <1>17. ASSUME NEW j \in Jobs, RetryBatch(j)
       PROVE  Stored(UploadLang, i)'
    BY <1>17 DEF RetryBatch, AbandonAttempt, InsertBatch, Insert
  <1>18. ASSUME NEW j \in Jobs, FailBatch(j)
       PROVE  Stored(UploadLang, i)'
    BY <1>18 DEF FailBatch, AbandonAttempt, InsertBatch, Insert
  <1>19. ASSUME NEW j \in Jobs, FailCommit(j)
       PROVE  Stored(UploadLang, i)'
    BY <1>19 DEF FailCommit, InsertBatch, Insert, Spend
  <1>20. ASSUME NEW j \in Jobs, NextPhase(j)
       PROVE  Stored(UploadLang, i)'
    BY <1>20 DEF NextPhase, dbVars
  <1>21. ASSUME NEW j \in Jobs, StopAtSlice(j)
       PROVE  Stored(UploadLang, i)'
    BY <1>21 DEF StopAtSlice
  <1>22. ASSUME NEW j \in Jobs, WriteSlice(j)
       PROVE  Stored(UploadLang, i)'
    BY <1>22 DEF WriteSlice, Insert
  <1>23. ASSUME NEW j \in Jobs, FailSlice(j)
       PROVE  Stored(UploadLang, i)'
    BY <1>23 DEF FailSlice
  <1>24. ASSUME NEW j \in Jobs, EndExtras(j)
       PROVE  Stored(UploadLang, i)'
    BY <1>24 DEF EndExtras, dbVars
  <1>25. ASSUME NEW j \in Jobs, Prune(j)
       PROVE  Stored(UploadLang, i)'
    BY <1>25 DEF Prune, pruneStaleImportData, LinesKept, PassedStored, Whole, InStep,
       LoopTypeOK
  <1>26. ASSUME NEW j \in Jobs, FailFinalize(j)
       PROVE  Stored(UploadLang, i)'
    BY <1>26 DEF FailFinalize
  <1>27. ASSUME NEW j \in Jobs, CompleteRun(j)
       PROVE  Stored(UploadLang, i)'
    BY <1>27 DEF CompleteRun
  <1>28. ASSUME NEW j \in Jobs, EndRun(j)
       PROVE  Stored(UploadLang, i)'
    BY <1>28 DEF EndRun
  <1>29. ASSUME NEW j \in Jobs, MarkThrown(j)
       PROVE  Stored(UploadLang, i)'
    BY <1>29 DEF MarkThrown
  <1>30. ASSUME NEW j \in Jobs, StallFails(j)
       PROVE  Stored(UploadLang, i)'
    BY <1>30 DEF StallFails, dbVars
  <1>31. ASSUME NEW j \in Jobs, NEW what \in {"cancel", "pause"}, Deliver(j, what)
       PROVE  Stored(UploadLang, i)'
    BY <1>31 DEF Deliver, dbVars
  <1>32. ASSUME Crash
       PROVE  Stored(UploadLang, i)'
    BY <1>32 DEF Crash
  <1>33. ASSUME CloseSession
       PROVE  Stored(UploadLang, i)'
    BY <1>33 DEF CloseSession
  <1>34. CASE UNCHANGED vars
    BY <1>34 DEF vars, dbVars
  <1>35. QED
    BY <1>1, <1>2, <1>3, <1>4, <1>5, <1>6, <1>7, <1>8, <1>9, <1>10, <1>11, <1>12, <1>13, <1>14,
       <1>15, <1>16, <1>17, <1>18, <1>19, <1>20, <1>21, <1>22, <1>23, <1>24, <1>25, <1>26, <1>27, <1>28,
       <1>29, <1>30, <1>31, <1>32, <1>33, <1>34
       DEF Next, Request, Work, Fault

(* Nobody changes the language without a slip. *)
LEMMA LanguageStays ==
  ASSUME IInv, slips' = {}, [Next]_vars
  PROVE  OneLanguage'
  <1>a. TypeOK /\ OneLanguage /\ EditCounted /\ slips = {}
    BY SlipsStay DEF IInv, LinesKept
  <1> USE <1>a DEF OneLanguage, EditCounted, TypeOK, RowTypeOK, RowType
  <1>1. ASSUME NEW c \in Clients, CheckStart(c)
       PROVE  OneLanguage'
    BY <1>1 DEF CheckStart, requestKeeps, runVars
  <1>2. ASSUME NEW c \in Clients, EnqueueStart(c)
       PROVE  OneLanguage'
    BY <1>2 DEF EnqueueStart, runVars
  <1>3. ASSUME NEW c \in Clients, NEW what \in {"restart", "languages"}, CheckEdit(c, what)
       PROVE  OneLanguage'
    BY <1>3 DEF CheckEdit, requestKeeps, runVars
  <1>4. ASSUME NEW c \in Clients, restartModImportJob(c)
       PROVE  OneLanguage'
    BY <1>4 DEF restartModImportJob, requestKeeps, runVars
  <1>5. ASSUME NEW c \in Clients, updateModJobLanguages(c)
       PROVE  OneLanguage'
    BY <1>5 DEF updateModJobLanguages, requestKeeps, runVars
  <1>6. ASSUME NEW c \in Clients, NEW j \in Jobs, cancelQueuedImport(c, j)
       PROVE  OneLanguage'
    BY <1>6 DEF cancelQueuedImport, dbVars, runVars
  <1>7. ASSUME NEW c \in Clients, ReadForCancel(c)
       PROVE  OneLanguage'
    BY <1>7 DEF ReadForCancel, requestKeeps, runVars
  <1>8. ASSUME NEW c \in Clients, MarkCancelled(c)
       PROVE  OneLanguage'
    BY <1>8 DEF MarkCancelled, markFailed, requestKeeps, runVars
  <1>9. ASSUME NEW j \in Jobs, pauseQueuedImport(j)
       PROVE  OneLanguage'
    BY <1>9 DEF pauseQueuedImport, dbVars, runVars
  <1>10. ASSUME NEW j \in Jobs, ReadRow(j)
       PROVE  OneLanguage'
    BY <1>10 DEF ReadRow, dbVars
  <1>11. ASSUME NEW j \in Jobs, BeginRun(j)
       PROVE  OneLanguage'
    BY <1>11 DEF BeginRun, dbVars
  <1>12. ASSUME NEW j \in Jobs, EnterLock(j)
       PROVE  OneLanguage'
    BY <1>12 DEF EnterLock
  <1>13. ASSUME NEW j \in Jobs, StopAtLine(j)
       PROVE  OneLanguage'
    BY <1>13 DEF StopAtLine, commitExtrasStop, markFailed, markPaused
  <1>14. ASSUME NEW j \in Jobs, OpenBatch(j)
       PROVE  OneLanguage'
    BY <1>14 DEF OpenBatch, Min2, dbVars
  <1>15. ASSUME NEW j \in Jobs, DropBatch(j)
       PROVE  OneLanguage'
    BY <1>15 DEF DropBatch, dbVars
  <1>16. ASSUME NEW j \in Jobs, FlushBatch(j)
       PROVE  OneLanguage'
    BY <1>16 DEF FlushBatch, updateProgress
  <1>17. ASSUME NEW j \in Jobs, RetryBatch(j)
       PROVE  OneLanguage'
    BY <1>17 DEF RetryBatch, AbandonAttempt
  <1>18. ASSUME NEW j \in Jobs, FailBatch(j)
       PROVE  OneLanguage'
    BY <1>18 DEF FailBatch, AbandonAttempt
  <1>19. ASSUME NEW j \in Jobs, FailCommit(j)
       PROVE  OneLanguage'
    BY <1>19 DEF FailCommit
  <1>20. ASSUME NEW j \in Jobs, NextPhase(j)
       PROVE  OneLanguage'
    BY <1>20 DEF NextPhase, dbVars, runVars
  <1>21. ASSUME NEW j \in Jobs, StopAtSlice(j)
       PROVE  OneLanguage'
    BY <1>21 DEF StopAtSlice, commitExtrasStop, runVars, markFailed, markPaused
  <1>22. ASSUME NEW j \in Jobs, WriteSlice(j)
       PROVE  OneLanguage'
    BY <1>22 DEF WriteSlice, updateProgress, Slice, Min2
  <1>23. ASSUME NEW j \in Jobs, FailSlice(j)
       PROVE  OneLanguage'
    BY <1>23 DEF FailSlice
  <1>24. ASSUME NEW j \in Jobs, EndExtras(j)
       PROVE  OneLanguage'
    BY <1>24 DEF EndExtras, dbVars, runVars
  <1>25. ASSUME NEW j \in Jobs, Prune(j)
       PROVE  OneLanguage'
    BY <1>25 DEF Prune, runVars
  <1>26. ASSUME NEW j \in Jobs, FailFinalize(j)
       PROVE  OneLanguage'
    BY <1>26 DEF FailFinalize
  <1>27. ASSUME NEW j \in Jobs, CompleteRun(j)
       PROVE  OneLanguage'
    BY <1>27 DEF CompleteRun, markDone, runVars
  <1>28. ASSUME NEW j \in Jobs, EndRun(j)
       PROVE  OneLanguage'
    BY <1>28 DEF EndRun
  <1>29. ASSUME NEW j \in Jobs, MarkThrown(j)
       PROVE  OneLanguage'
    BY <1>29 DEF MarkThrown, markFailed
  <1>30. ASSUME NEW j \in Jobs, StallFails(j)
       PROVE  OneLanguage'
    BY <1>30 DEF StallFails, dbVars
  <1>31. ASSUME NEW j \in Jobs, NEW what \in {"cancel", "pause"}, Deliver(j, what)
       PROVE  OneLanguage'
    BY <1>31 DEF Deliver, dbVars, runVars
  <1>32. ASSUME Crash
       PROVE  OneLanguage'
    BY <1>32 DEF Crash, runVars
  <1>33. ASSUME CloseSession
       PROVE  OneLanguage'
    BY <1>33 DEF CloseSession, runVars
  <1>34. CASE UNCHANGED vars
    BY <1>34 DEF vars, dbVars, runVars
  <1>35. QED
    BY <1>1, <1>2, <1>3, <1>4, <1>5, <1>6, <1>7, <1>8, <1>9, <1>10, <1>11, <1>12, <1>13, <1>14,
       <1>15, <1>16, <1>17, <1>18, <1>19, <1>20, <1>21, <1>22, <1>23, <1>24, <1>25, <1>26, <1>27, <1>28,
       <1>29, <1>30, <1>31, <1>32, <1>33, <1>34
       DEF Next, Request, Work, Fault

(* Whoever writes a count writes one whose lines are there. *)
LEMMA CountsStay ==
  ASSUME IInv, slips' = {}, [Next]_vars
  PROVE  CountsCommitted'
  <1>a. /\ TypeOK /\ LockHeld /\ \A j \in Jobs : InStep(j)
        /\ CountsCommitted /\ OneLanguage /\ CompletionStored
        /\ \A j \in Jobs : PassedStored(j)
    BY SlipsStay DEF IInv, LinesKept
  <1>b. \A i \in 1 .. Total : Stored(UploadLang, i) => Stored(UploadLang, i)'
    BY LinesStay
  <1>c. \A i \in 1 .. PluginLines : i \in 1 .. Total
    BY ImportAssumption DEF Total
  <1> USE <1>a, <1>b, <1>c, ImportAssumption
      DEF CountsCommitted, Committed, TypeOK, RowTypeOK, RowType,
        QueueTypeOK, LoopTypeOK
  <1>1. ASSUME NEW c \in Clients, CheckStart(c)
       PROVE  CountsCommitted'
    BY <1>1 DEF CheckStart, requestKeeps, runVars
  <1>2. ASSUME NEW c \in Clients, EnqueueStart(c)
       PROVE  CountsCommitted'
    BY <1>2 DEF EnqueueStart, runVars
  <1>3. ASSUME NEW c \in Clients, NEW what \in {"restart", "languages"}, CheckEdit(c, what)
       PROVE  CountsCommitted'
    BY <1>3 DEF CheckEdit, requestKeeps, runVars
  <1>4. ASSUME NEW c \in Clients, restartModImportJob(c)
       PROVE  CountsCommitted'
    BY <1>4 DEF restartModImportJob, requestKeeps, runVars
  <1>5. ASSUME NEW c \in Clients, updateModJobLanguages(c)
       PROVE  CountsCommitted'
    BY <1>5 DEF updateModJobLanguages, requestKeeps, runVars
  <1>6. ASSUME NEW c \in Clients, NEW j \in Jobs, cancelQueuedImport(c, j)
       PROVE  CountsCommitted'
    BY <1>6 DEF cancelQueuedImport, dbVars, runVars
  <1>7. ASSUME NEW c \in Clients, ReadForCancel(c)
       PROVE  CountsCommitted'
    BY <1>7 DEF ReadForCancel, requestKeeps, runVars
  <1>8. ASSUME NEW c \in Clients, MarkCancelled(c)
       PROVE  CountsCommitted'
    BY <1>8 DEF MarkCancelled, markFailed, requestKeeps, runVars
  <1>9. ASSUME NEW j \in Jobs, pauseQueuedImport(j)
       PROVE  CountsCommitted'
    BY <1>9 DEF pauseQueuedImport, dbVars, runVars, clientVars
  <1>10. ASSUME NEW j \in Jobs, ReadRow(j)
       PROVE  CountsCommitted'
    BY <1>10 DEF ReadRow, workKeeps, dbVars, clientVars
  <1>11. ASSUME NEW j \in Jobs, BeginRun(j)
       PROVE  CountsCommitted'
    <2>1. UNCHANGED <<row, seen, read>>
      BY <1>11 DEF BeginRun, dbVars, clientVars
    <2>2. \/ counter' = [counter EXCEPT ![j] = 0]
          \/ counter' = [counter EXCEPT ![j] = read[j].imported]
      BY <1>11 DEF BeginRun, Settle
    <2>3. ASSUME NEW i \in Jobs, NEW n \in 1 .. PluginLines, n <= counter'[i]
          PROVE  Stored(UploadLang, n)'
      <3>1. counter'[i] \in {0, counter[i], read[i].imported}
        BY <2>2
      <3>2. Stored(UploadLang, n)
        BY <2>3, <3>1
      <3>3. QED
        BY <3>2
    <2>4. QED
      BY <2>1, <2>3
  <1>12. ASSUME NEW j \in Jobs, EnterLock(j)
       PROVE  CountsCommitted'
    BY <1>12 DEF EnterLock, workKeeps, clientVars
  <1>13. ASSUME NEW j \in Jobs, StopAtLine(j)
       PROVE  CountsCommitted'
    BY <1>13 DEF StopAtLine, commitExtrasStop, workKeeps, clientVars, markFailed,
       markPaused
  <1>14. ASSUME NEW j \in Jobs, OpenBatch(j)
       PROVE  CountsCommitted'
    BY <1>14 DEF OpenBatch, Min2, workKeeps, dbVars, clientVars
  <1>15. ASSUME NEW j \in Jobs, DropBatch(j)
       PROVE  CountsCommitted'
    BY <1>15 DEF DropBatch, workKeeps, dbVars, clientVars
  <1>16. ASSUME NEW j \in Jobs, FlushBatch(j)
       PROVE  CountsCommitted'
    <2> DEFINE written == counter[j] + batch[j]
    <2>1. /\ state[j] \in {"open", "retry"} /\ written = at[j] /\ written \in Nat
          /\ InsertBatch(j)
      BY <1>16 DEF FlushBatch, Attempting, InStep
    <2>2. ASSUME NEW i \in 1 .. PluginLines, i <= written
          PROVE  Stored(UploadLang, i)'
      <3>1. CASE i <= counter[j]
        BY <2>2, <3>1
      <3>2. CASE i > counter[j]
        BY <1>16, <2>1, <2>2, <3>2 DEF FlushBatch, InsertBatch, Insert, InStep, Stored, Lines, Total,
           TableTypeOK, OneLanguage
      <3>3. QED
        BY <3>1, <3>2
    <2>3. row' = [row EXCEPT !.status = "in_progress", !.imported = written]
      BY <1>16 DEF FlushBatch, updateProgress
    <2>4. counter' = [counter EXCEPT ![j] = written]
      BY <1>16 DEF FlushBatch, Counting
    <2>5. UNCHANGED <<seen, read>>
      BY <1>16 DEF FlushBatch, workKeeps, clientVars
    <2> HIDE DEF written
    <2>6. QED
      BY <2>2, <2>3, <2>4, <2>5, <2>1
  <1>17. ASSUME NEW j \in Jobs, RetryBatch(j)
       PROVE  CountsCommitted'
    BY <1>17 DEF RetryBatch, AbandonAttempt, workKeeps, clientVars
  <1>18. ASSUME NEW j \in Jobs, FailBatch(j)
       PROVE  CountsCommitted'
    BY <1>18 DEF FailBatch, AbandonAttempt, workKeeps, clientVars
  <1>19. ASSUME NEW j \in Jobs, FailCommit(j)
       PROVE  CountsCommitted'
    BY <1>19 DEF FailCommit, Counting, workKeeps, clientVars, Spend
  <1>20. ASSUME NEW j \in Jobs, NextPhase(j)
       PROVE  CountsCommitted'
    BY <1>20 DEF NextPhase, workKeeps, dbVars, runVars, clientVars
  <1>21. ASSUME NEW j \in Jobs, StopAtSlice(j)
       PROVE  CountsCommitted'
    BY <1>21 DEF StopAtSlice, commitExtrasStop, workKeeps, runVars, clientVars,
       markFailed, markPaused
  <1>22. ASSUME NEW j \in Jobs, WriteSlice(j)
       PROVE  CountsCommitted'
    <2>1. \A i \in 1 .. PluginLines : Stored(UploadLang, i)
      <3>1. Whole(j) /\ batch[j] = 0 /\ at[j] >= PluginLines
        BY <1>22 DEF WriteSlice, Whole, InStep
      <3>2. ASSUME NEW i \in 1 .. PluginLines
            PROVE  Stored(UploadLang, i)
        <4>1. i \in 1 .. Total /\ i <= at[j] - batch[j]
          BY <3>1 DEF Total
        <4>2. old[<<UploadLang, i>>] \in Nat /\ new[<<UploadLang, i>>] \in Nat
          BY <4>1 DEF TableTypeOK, Lines
        <4>3. PassedStored(j)
          OBVIOUS
        <4>4. QED
          BY <3>1, <4>1, <4>2, <4>3 DEF PassedStored, Stored
      <3>3. QED
        BY <3>2
    <2>2. \A i \in 1 .. PluginLines : Stored(UploadLang, i)'
      BY <2>1
    <2>3. QED
      BY <2>2
  <1>23. ASSUME NEW j \in Jobs, FailSlice(j)
       PROVE  CountsCommitted'
    <2>1. CASE RollsBack
      BY <1>23, <2>1 DEF FailSlice, GiveUp, clientVars
    <2>2. CASE ~RollsBack
      <3>1. Settle(j)
        BY <1>23, <2>2 DEF FailSlice
      <3>2. QED
        BY <1>23, <3>1 DEF FailSlice, Settle, clientVars
    <2>3. QED
      BY <2>1, <2>2
  <1>24. ASSUME NEW j \in Jobs, EndExtras(j)
       PROVE  CountsCommitted'
    BY <1>24 DEF EndExtras, workKeeps, dbVars, runVars, clientVars
  <1>25. ASSUME NEW j \in Jobs, Prune(j)
       PROVE  CountsCommitted'
    BY <1>25 DEF Prune, workKeeps, runVars, clientVars
  <1>26. ASSUME NEW j \in Jobs, FailFinalize(j)
       PROVE  CountsCommitted'
    BY <1>26 DEF FailFinalize, workKeeps, clientVars
  <1>27. ASSUME NEW j \in Jobs, CompleteRun(j)
       PROVE  CountsCommitted'
    BY <1>27 DEF CompleteRun, markDone, workKeeps, runVars, clientVars
  <1>28. ASSUME NEW j \in Jobs, EndRun(j)
       PROVE  CountsCommitted'
    BY <1>28 DEF EndRun, Settle, clientVars
  <1>29. ASSUME NEW j \in Jobs, MarkThrown(j)
       PROVE  CountsCommitted'
    BY <1>29 DEF MarkThrown, markFailed, Settle, clientVars
  <1>30. ASSUME NEW j \in Jobs, StallFails(j)
       PROVE  CountsCommitted'
    BY <1>30 DEF StallFails, Settle, dbVars, clientVars
  <1>31. ASSUME NEW j \in Jobs, NEW what \in {"cancel", "pause"}, Deliver(j, what)
       PROVE  CountsCommitted'
    BY <1>31 DEF Deliver, dbVars, runVars, clientVars
  <1>32. ASSUME Crash
       PROVE  CountsCommitted'
    BY <1>32 DEF Crash, runVars, clientVars
  <1>33. ASSUME CloseSession
       PROVE  CountsCommitted'
    BY <1>33 DEF CloseSession, workKeeps, runVars, clientVars
  <1>34. CASE UNCHANGED vars
    BY <1>34 DEF vars, dbVars, runVars, clientVars
  <1>35. QED
    BY <1>1, <1>2, <1>3, <1>4, <1>5, <1>6, <1>7, <1>8, <1>9, <1>10, <1>11, <1>12, <1>13, <1>14,
       <1>15, <1>16, <1>17, <1>18, <1>19, <1>20, <1>21, <1>22, <1>23, <1>24, <1>25, <1>26, <1>27, <1>28,
       <1>29, <1>30, <1>31, <1>32, <1>33, <1>34
       DEF Next, Request, Work, Fault

(* A run past its prune and a completed row keep every line. *)
LEMMA CompletionStays ==
  ASSUME IInv, slips' = {}, [Next]_vars
  PROVE  CompletionStored'
  <1>a. /\ TypeOK /\ LockHeld /\ \A j \in Jobs : InStep(j)
        /\ CountsCommitted /\ OneLanguage /\ CompletionStored
        /\ \A j \in Jobs : PassedStored(j)
    BY SlipsStay DEF IInv, LinesKept
  <1>b. \A i \in 1 .. Total : Stored(UploadLang, i) => Stored(UploadLang, i)'
    BY LinesStay
  <1> USE <1>a, <1>b, ImportAssumption DEF CompletionStored, AllStored, TypeOK, RowTypeOK, RowType,
        QueueTypeOK, LoopTypeOK
  <1>1. ASSUME NEW c \in Clients, CheckStart(c)
       PROVE  CompletionStored'
    BY <1>1 DEF CheckStart, requestKeeps
  <1>2. ASSUME NEW c \in Clients, EnqueueStart(c)
       PROVE  CompletionStored'
    BY <1>2 DEF EnqueueStart, Go
  <1>3. ASSUME NEW c \in Clients, NEW what \in {"restart", "languages"}, CheckEdit(c, what)
       PROVE  CompletionStored'
    BY <1>3 DEF CheckEdit, requestKeeps
  <1>4. ASSUME NEW c \in Clients, restartModImportJob(c)
       PROVE  CompletionStored'
    BY <1>4 DEF restartModImportJob, requestKeeps
  <1>5. ASSUME NEW c \in Clients, updateModJobLanguages(c)
       PROVE  CompletionStored'
    BY <1>5 DEF updateModJobLanguages, requestKeeps
  <1>6. ASSUME NEW c \in Clients, NEW j \in Jobs, cancelQueuedImport(c, j)
       PROVE  CompletionStored'
    BY <1>6 DEF cancelQueuedImport, Go, Unfinished, dbVars
  <1>7. ASSUME NEW c \in Clients, ReadForCancel(c)
       PROVE  CompletionStored'
    BY <1>7 DEF ReadForCancel, requestKeeps
  <1>8. ASSUME NEW c \in Clients, MarkCancelled(c)
       PROVE  CompletionStored'
    BY <1>8 DEF MarkCancelled, markFailed, requestKeeps
  <1>9. ASSUME NEW j \in Jobs, pauseQueuedImport(j)
       PROVE  CompletionStored'
    BY <1>9 DEF pauseQueuedImport, Unfinished, dbVars
  <1>10. ASSUME NEW j \in Jobs, ReadRow(j)
       PROVE  CompletionStored'
    BY <1>10 DEF ReadRow, Go, dbVars
  <1>11. ASSUME NEW j \in Jobs, BeginRun(j)
       PROVE  CompletionStored'
    BY <1>11 DEF BeginRun, Go, Settle, dbVars
  <1>12. ASSUME NEW j \in Jobs, EnterLock(j)
       PROVE  CompletionStored'
    BY <1>12 DEF EnterLock, Go
  <1>13. ASSUME NEW j \in Jobs, StopAtLine(j)
       PROVE  CompletionStored'
    BY <1>13 DEF StopAtLine, Go, commitExtrasStop, markFailed, markPaused
  <1>14. ASSUME NEW j \in Jobs, OpenBatch(j)
       PROVE  CompletionStored'
    BY <1>14 DEF OpenBatch, Go, Min2, dbVars
  <1>15. ASSUME NEW j \in Jobs, DropBatch(j)
       PROVE  CompletionStored'
    BY <1>15 DEF DropBatch, Go, AfterBatch, dbVars
  <1>16. ASSUME NEW j \in Jobs, FlushBatch(j)
       PROVE  CompletionStored'
    BY <1>16 DEF FlushBatch, Go, updateProgress, Attempting, AfterBatch
  <1>17. ASSUME NEW j \in Jobs, RetryBatch(j)
       PROVE  CompletionStored'
    BY <1>17 DEF RetryBatch, Go, AbandonAttempt, Attempting
  <1>18. ASSUME NEW j \in Jobs, FailBatch(j)
       PROVE  CompletionStored'
    BY <1>18 DEF FailBatch, AbandonAttempt, GiveUp, Attempting, Go
  <1>19. ASSUME NEW j \in Jobs, FailCommit(j)
       PROVE  CompletionStored'
    BY <1>19 DEF FailCommit, GiveUp, Attempting, Go, Spend
  <1>20. ASSUME NEW j \in Jobs, NextPhase(j)
       PROVE  CompletionStored'
    BY <1>20 DEF NextPhase, Go, dbVars
  <1>21. ASSUME NEW j \in Jobs, StopAtSlice(j)
       PROVE  CompletionStored'
    BY <1>21 DEF StopAtSlice, Go, commitExtrasStop, markFailed, markPaused
  <1>22. ASSUME NEW j \in Jobs, WriteSlice(j)
       PROVE  CompletionStored'
    BY <1>22 DEF WriteSlice, updateProgress, Slice, Min2
  <1>23. ASSUME NEW j \in Jobs, FailSlice(j)
       PROVE  CompletionStored'
    BY <1>23 DEF FailSlice, GiveUp, Settle, Go
  <1>24. ASSUME NEW j \in Jobs, EndExtras(j)
       PROVE  CompletionStored'
    BY <1>24 DEF EndExtras, Go, dbVars
  <1>25. ASSUME NEW j \in Jobs, Prune(j)
       PROVE  CompletionStored'
    <2>1. at[j] = Total /\ batch[j] = 0 /\ Whole(j)
      BY <1>25 DEF Prune, InStep, Whole
    <2>2. ASSUME NEW i \in 1 .. Total
          PROVE  Stored(UploadLang, i)
      <3>1. IF pruneStaleImportData(j) THEN new[<<UploadLang, i>>] >= 1 ELSE Stored(UploadLang, i)
        BY <2>1 DEF PassedStored, Total
      <3>2. old[<<UploadLang, i>>] \in Nat /\ new[<<UploadLang, i>>] \in Nat
        BY DEF TableTypeOK, Lines
      <3>3. QED
        BY <3>1, <3>2 DEF Stored
    <2>3. \A i \in 1 .. Total : Stored(UploadLang, i)'
      BY <2>2
    <2>4. QED
      BY <2>3
  <1>26. ASSUME NEW j \in Jobs, FailFinalize(j)
       PROVE  CompletionStored'
    BY <1>26 DEF FailFinalize, GiveUp, Go
  <1>27. ASSUME NEW j \in Jobs, CompleteRun(j)
       PROVE  CompletionStored'
    BY <1>27 DEF CompleteRun, Go, markDone
  <1>28. ASSUME NEW j \in Jobs, EndRun(j)
       PROVE  CompletionStored'
    BY <1>28 DEF EndRun, Settle, Go
  <1>29. ASSUME NEW j \in Jobs, MarkThrown(j)
       PROVE  CompletionStored'
    BY <1>29 DEF MarkThrown, markFailed, Settle, Go
  <1>30. ASSUME NEW j \in Jobs, StallFails(j)
       PROVE  CompletionStored'
    BY <1>30 DEF StallFails, Settle, dbVars, Go
  <1>31. ASSUME NEW j \in Jobs, NEW what \in {"cancel", "pause"}, Deliver(j, what)
       PROVE  CompletionStored'
    BY <1>31 DEF Deliver, dbVars
  <1>32. ASSUME Crash
       PROVE  CompletionStored'
    BY <1>32 DEF Crash
  <1>33. ASSUME CloseSession
       PROVE  CompletionStored'
    BY <1>33 DEF CloseSession
  <1>34. CASE UNCHANGED vars
    BY <1>34 DEF vars, dbVars
  <1>35. QED
    BY <1>1, <1>2, <1>3, <1>4, <1>5, <1>6, <1>7, <1>8, <1>9, <1>10, <1>11, <1>12, <1>13, <1>14,
       <1>15, <1>16, <1>17, <1>18, <1>19, <1>20, <1>21, <1>22, <1>23, <1>24, <1>25, <1>26, <1>27, <1>28,
       <1>29, <1>30, <1>31, <1>32, <1>33, <1>34
       DEF Next, Request, Work, Fault

(* A run stores what it passes. *)
LEMMA PassedStays ==
  ASSUME IInv, slips' = {}, [Next]_vars
  PROVE  \A j \in Jobs : PassedStored(j)'
  <1> SUFFICES ASSUME NEW k \in Jobs PROVE PassedStored(k)'
    OBVIOUS
  <1>a. /\ TypeOK /\ LockHeld /\ \A j \in Jobs : InStep(j)
        /\ CountsCommitted /\ OneLanguage /\ CompletionStored
        /\ \A j \in Jobs : PassedStored(j)
    BY SlipsStay DEF IInv, LinesKept
  <1>b. \A i \in 1 .. Total : Stored(UploadLang, i) => Stored(UploadLang, i)'
    BY LinesStay
  <1> USE <1>a, <1>b, ImportAssumption
      DEF PassedStored, Whole, Stopping, InStep, LockHeld, Writing, pruneStaleImportData,
        TypeOK, RowTypeOK, RowType, QueueTypeOK, LoopTypeOK
  <1>1. ASSUME NEW c \in Clients, CheckStart(c)
       PROVE  PassedStored(k)'
    BY <1>1 DEF CheckStart, requestKeeps, runVars
  <1>2. ASSUME NEW c \in Clients, EnqueueStart(c)
       PROVE  PassedStored(k)'
    BY <1>2 DEF EnqueueStart, Go, runVars
  <1>3. ASSUME NEW c \in Clients, NEW what \in {"restart", "languages"}, CheckEdit(c, what)
       PROVE  PassedStored(k)'
    BY <1>3 DEF CheckEdit, requestKeeps, runVars
  <1>4. ASSUME NEW c \in Clients, restartModImportJob(c)
       PROVE  PassedStored(k)'
    BY <1>4 DEF restartModImportJob, requestKeeps, runVars
  <1>5. ASSUME NEW c \in Clients, updateModJobLanguages(c)
       PROVE  PassedStored(k)'
    BY <1>5 DEF updateModJobLanguages, requestKeeps, runVars
  <1>6. ASSUME NEW c \in Clients, NEW j \in Jobs, cancelQueuedImport(c, j)
       PROVE  PassedStored(k)'
    BY <1>6 DEF cancelQueuedImport, Go, Unfinished, dbVars, runVars
  <1>7. ASSUME NEW c \in Clients, ReadForCancel(c)
       PROVE  PassedStored(k)'
    BY <1>7 DEF ReadForCancel, requestKeeps, runVars
  <1>8. ASSUME NEW c \in Clients, MarkCancelled(c)
       PROVE  PassedStored(k)'
    BY <1>8 DEF MarkCancelled, requestKeeps, runVars
  <1>9. ASSUME NEW j \in Jobs, pauseQueuedImport(j)
       PROVE  PassedStored(k)'
    BY <1>9 DEF pauseQueuedImport, Unfinished, dbVars, runVars
  <1>10. ASSUME NEW j \in Jobs, ReadRow(j)
       PROVE  PassedStored(k)'
    BY <1>10 DEF ReadRow, Go, workKeeps, dbVars
  <1>11. ASSUME NEW j \in Jobs, BeginRun(j)
       PROVE  PassedStored(k)'
    BY <1>11 DEF BeginRun, Go, Settle, dbVars, NoBatch
  <1>12. ASSUME NEW j \in Jobs, EnterLock(j)
       PROVE  PassedStored(k)'
    <2>1. CASE k # j
      <3>1. state[k] \notin Writing
        BY <1>12 DEF EnterLock, Jobs, NoJob
      <3>2. state'[k] = state[k]
        BY <1>12, <2>1 DEF EnterLock, Go
      <3>3. QED
        BY <3>1, <3>2
    <2>2. ASSUME k = j, NEW i \in 1 .. Total, i <= Skipped(j), ~pruneStaleImportData(j)
          PROVE  Stored(UploadLang, i)'
      BY <2>2 DEF Skipped, Min2, CountsCommitted, Committed
    <2>3. pruneStaleImportData(j) => Skipped(j) = 0
      BY DEF Skipped, Min2
    <2>4. /\ at' = [at EXCEPT ![j] = Skipped(j)] /\ UNCHANGED <<read, batch>>
          /\ batch[j] = 0
      BY <1>12 DEF EnterLock
    <2>5. Skipped(j) \in Nat
      BY DEF Skipped, Min2
    <2>6. CASE k = j
      BY <2>2, <2>3, <2>4, <2>5, <2>6
    <2>7. QED
      BY <2>1, <2>6
  <1>13. ASSUME NEW j \in Jobs, StopAtLine(j)
       PROVE  PassedStored(k)'
    BY <1>13 DEF StopAtLine, Go, NoBatch, workKeeps
  <1>14. ASSUME NEW j \in Jobs, OpenBatch(j)
       PROVE  PassedStored(k)'
    BY <1>14 DEF OpenBatch, Go, Min2, workKeeps, dbVars
  <1>15. ASSUME NEW j \in Jobs, DropBatch(j)
       PROVE  PassedStored(k)'
    BY <1>15 DEF DropBatch, Go, NoBatch, AfterBatch, workKeeps, dbVars
  <1>16. ASSUME NEW j \in Jobs, FlushBatch(j)
       PROVE  PassedStored(k)'
    <2>1. CASE k # j
      BY <1>16, <2>1 DEF FlushBatch, Attempting, Go
    <2>2. /\ state[j] \in {"open", "retry"} /\ batch[j] \in Nat /\ at[j] \in Nat /\ batch[j] <= at[j]
          /\ batch'[j] = 0 /\ UNCHANGED <<at, read, old>>
      BY <1>16 DEF FlushBatch, Attempting, NoBatch
    <2>3. ASSUME NEW i \in 1 .. Total, i <= at[j]
          PROVE  IF pruneStaleImportData(j) THEN new'[<<UploadLang, i>>] >= 1 ELSE Stored(UploadLang, i)'
      <3>1. CASE i <= at[j] - batch[j]
        BY <1>16, <2>2, <2>3, <3>1 DEF FlushBatch, InsertBatch, Insert, TableTypeOK, Lines
      <3>2. CASE i > at[j] - batch[j]
        <4>1. new'[<<UploadLang, i>>] = new[<<UploadLang, i>>] + 1
          BY <1>16, <2>2, <2>3, <3>2 DEF FlushBatch, InsertBatch, Insert, TableTypeOK, Lines, OneLanguage
        <4>2. QED
          BY <2>2, <4>1 DEF TableTypeOK, Lines, Stored
      <3>3. QED
        BY <2>2, <3>1, <3>2
    <2>4. CASE k = j
      BY <2>2, <2>3, <2>4
    <2>5. QED
      BY <2>1, <2>4
  <1>17. ASSUME NEW j \in Jobs, RetryBatch(j)
       PROVE  PassedStored(k)'
    <2>1. CASE k # j
      BY <1>17, <2>1 DEF RetryBatch, Attempting, Go
    <2>2. state[j] \in {"open", "retry"} /\ UNCHANGED <<at, batch, read>>
      BY <1>17 DEF RetryBatch, Attempting
    <2>3. ASSUME NEW i \in 1 .. Total
          PROVE  new[<<UploadLang, i>>] >= 1 => new'[<<UploadLang, i>>] >= 1
      <3>1. CASE new' = new
        BY <3>1
      <3>2. CASE InsertBatch(j)
        BY <3>2 DEF InsertBatch, Insert, TableTypeOK, Lines
      <3>3. QED
        BY <1>17, <3>1, <3>2 DEF RetryBatch, AbandonAttempt
    <2>4. CASE k = j
      BY <2>2, <2>3, <2>4
    <2>5. QED
      BY <2>1, <2>4
  <1>18. ASSUME NEW j \in Jobs, FailBatch(j)
       PROVE  PassedStored(k)'
    BY <1>18 DEF FailBatch, AbandonAttempt, GiveUp, Attempting, workKeeps, Go, NoBatch
  <1>19. ASSUME NEW j \in Jobs, FailCommit(j)
       PROVE  PassedStored(k)'
    BY <1>19 DEF FailCommit, GiveUp, Attempting, workKeeps, Go, NoBatch, Spend
  <1>20. ASSUME NEW j \in Jobs, NextPhase(j)
       PROVE  PassedStored(k)'
    BY <1>20 DEF NextPhase, Go, workKeeps, dbVars, runVars
  <1>21. ASSUME NEW j \in Jobs, StopAtSlice(j)
       PROVE  PassedStored(k)'
    BY <1>21 DEF StopAtSlice, Go, workKeeps, runVars
  <1>22. ASSUME NEW j \in Jobs, WriteSlice(j)
       PROVE  PassedStored(k)'
    <2>1. CASE k # j
      BY <1>22, <2>1 DEF WriteSlice
    <2>2. /\ state[j] = "extras" /\ ~Stopping(j) /\ batch[j] = 0 /\ at[j] \in Nat /\ Slice(j) \in Nat
          /\ at'[j] = at[j] + Slice(j) /\ UNCHANGED <<read, batch, old>>
      <3>1. state[j] = "extras" /\ ~Stopping(j) /\ at[j] < Total /\ UNCHANGED <<read, batch, old>>
        BY <1>22 DEF WriteSlice
      <3>2. at[j] \in Nat /\ batch[j] = 0
        BY <3>1 DEF Total
      <3>3. Slice(j) \in Nat
        BY <3>1, <3>2 DEF Slice, Min2, Total
      <3>4. at'[j] = at[j] + Slice(j)
        BY <1>22 DEF WriteSlice
      <3>5. QED
        BY <3>1, <3>2, <3>3, <3>4
    <2>3. ASSUME NEW i \in 1 .. Total, i <= at[j] + Slice(j)
          PROVE  IF pruneStaleImportData(j) THEN new'[<<UploadLang, i>>] >= 1 ELSE Stored(UploadLang, i)'
      <3>1. CASE i <= at[j]
        BY <1>22, <2>2, <2>3, <3>1 DEF WriteSlice, Insert, TableTypeOK, Lines
      <3>2. CASE i > at[j]
        <4>1. new'[<<UploadLang, i>>] = new[<<UploadLang, i>>] + 1
          BY <1>22, <2>2, <2>3, <3>2 DEF WriteSlice, Insert, TableTypeOK, Lines, OneLanguage
        <4>2. QED
          BY <2>2, <4>1 DEF TableTypeOK, Lines, Stored
      <3>3. QED
        BY <2>2, <3>1, <3>2
    <2>4. CASE k = j
      BY <2>2, <2>3, <2>4
    <2>5. QED
      BY <2>1, <2>4
  <1>23. ASSUME NEW j \in Jobs, FailSlice(j)
       PROVE  PassedStored(k)'
    BY <1>23 DEF FailSlice, GiveUp, Settle, Go, NoBatch
  <1>24. ASSUME NEW j \in Jobs, EndExtras(j)
       PROVE  PassedStored(k)'
    BY <1>24 DEF EndExtras, Go, workKeeps, dbVars, runVars
  <1>25. ASSUME NEW j \in Jobs, Prune(j)
       PROVE  PassedStored(k)'
    BY <1>25 DEF Prune, Go, pruneStaleImportData, workKeeps, runVars
  <1>26. ASSUME NEW j \in Jobs, FailFinalize(j)
       PROVE  PassedStored(k)'
    BY <1>26 DEF FailFinalize, GiveUp, workKeeps, Go, NoBatch
  <1>27. ASSUME NEW j \in Jobs, CompleteRun(j)
       PROVE  PassedStored(k)'
    BY <1>27 DEF CompleteRun, Go, workKeeps, runVars
  <1>28. ASSUME NEW j \in Jobs, EndRun(j)
       PROVE  PassedStored(k)'
    BY <1>28 DEF EndRun, Settle, Go, NoBatch
  <1>29. ASSUME NEW j \in Jobs, MarkThrown(j)
       PROVE  PassedStored(k)'
    BY <1>29 DEF MarkThrown, Settle, Go, NoBatch
  <1>30. ASSUME NEW j \in Jobs, StallFails(j)
       PROVE  PassedStored(k)'
    BY <1>30 DEF StallFails, Settle, dbVars, Go, NoBatch
  <1>31. ASSUME NEW j \in Jobs, NEW what \in {"cancel", "pause"}, Deliver(j, what)
       PROVE  PassedStored(k)'
    BY <1>31 DEF Deliver, dbVars, runVars
  <1>32. ASSUME Crash
       PROVE  PassedStored(k)'
    BY <1>32 DEF Crash, runVars
  <1>33. ASSUME CloseSession
       PROVE  PassedStored(k)'
    BY <1>33 DEF CloseSession, workKeeps, runVars
  <1>34. CASE UNCHANGED vars
    BY <1>34 DEF vars, dbVars, runVars
  <1>35. QED
    BY <1>1, <1>2, <1>3, <1>4, <1>5, <1>6, <1>7, <1>8, <1>9, <1>10, <1>11, <1>12, <1>13, <1>14,
       <1>15, <1>16, <1>17, <1>18, <1>19, <1>20, <1>21, <1>22, <1>23, <1>24, <1>25, <1>26, <1>27, <1>28,
       <1>29, <1>30, <1>31, <1>32, <1>33, <1>34
       DEF Next, Request, Work, Fault

(* A fresh run writes what it passes, once. *)
LEMMA ExactStep ==
  ASSUME TypeOK, LockHeld, \A j \in Jobs : InStep(j) /\ WroteExactly(j), [Next]_vars
  PROVE  \A j \in Jobs : WroteExactly(j)'
  <1> SUFFICES ASSUME NEW k \in Jobs PROVE WroteExactly(k)'
    OBVIOUS
  <1>a. \A line \in Lines : line[1] \in Langs /\ line[2] \in 1 .. Total
    BY DEF Lines
  <1> USE <1>a, ImportAssumption
      DEF WroteExactly, Fresh, Own, Whole, Stopping, InStep, LockHeld, Writing, Listening,
        pruneStaleImportData, TypeOK, RowTypeOK, RowType, TableTypeOK, QueueTypeOK, LoopTypeOK
  <1>1. ASSUME NEW c \in Clients, CheckStart(c)
       PROVE  WroteExactly(k)'
    BY <1>1 DEF CheckStart, requestKeeps, runVars
  <1>2. ASSUME NEW c \in Clients, EnqueueStart(c)
       PROVE  WroteExactly(k)'
    BY <1>2 DEF EnqueueStart, Go, runVars
  <1>3. ASSUME NEW c \in Clients, NEW what \in {"restart", "languages"}, CheckEdit(c, what)
       PROVE  WroteExactly(k)'
    BY <1>3 DEF CheckEdit, requestKeeps, runVars
  <1>4. ASSUME NEW c \in Clients, restartModImportJob(c)
       PROVE  WroteExactly(k)'
    BY <1>4 DEF restartModImportJob, requestKeeps, runVars
  <1>5. ASSUME NEW c \in Clients, updateModJobLanguages(c)
       PROVE  WroteExactly(k)'
    BY <1>5 DEF updateModJobLanguages, requestKeeps, runVars
  <1>6. ASSUME NEW c \in Clients, NEW j \in Jobs, cancelQueuedImport(c, j)
       PROVE  WroteExactly(k)'
    BY <1>6 DEF cancelQueuedImport, Go, Unfinished, dbVars, runVars
  <1>7. ASSUME NEW c \in Clients, ReadForCancel(c)
       PROVE  WroteExactly(k)'
    BY <1>7 DEF ReadForCancel, requestKeeps, runVars
  <1>8. ASSUME NEW c \in Clients, MarkCancelled(c)
       PROVE  WroteExactly(k)'
    BY <1>8 DEF MarkCancelled, requestKeeps, runVars
  <1>9. ASSUME NEW j \in Jobs, pauseQueuedImport(j)
       PROVE  WroteExactly(k)'
    BY <1>9 DEF pauseQueuedImport, Unfinished, dbVars, runVars
  <1>10. ASSUME NEW j \in Jobs, ReadRow(j)
       PROVE  WroteExactly(k)'
    BY <1>10 DEF ReadRow, Go, workKeeps, dbVars
  <1>11. ASSUME NEW j \in Jobs, BeginRun(j)
       PROVE  WroteExactly(k)'
    BY <1>11 DEF BeginRun, Go, Settle, dbVars, NoBatch
  <1>12. ASSUME NEW j \in Jobs, EnterLock(j)
       PROVE  WroteExactly(k)'
    <2>1. CASE k # j
      <3>1. state[k] \notin Writing
        BY <1>12 DEF EnterLock, Jobs, NoJob
      <3>2. state'[k] = state[k]
        BY <1>12, <2>1 DEF EnterLock, Go
      <3>3. QED
        BY <3>1, <3>2
    <2>2. CASE k = j
      <3>1. /\ at' = [at EXCEPT ![j] = Skipped(j)] /\ batch'[j] = 0 /\ read' = read
            /\ new' = [line \in Lines |-> 0] /\ state'[j] # "close"
        BY <1>12 DEF EnterLock, Go
      <3>2. pruneStaleImportData(j) => at'[j] = 0
        BY <3>1 DEF Skipped, Min2
      <3>3. QED
        BY <2>2, <3>1, <3>2
    <2>3. QED
      BY <2>1, <2>2
  <1>13. ASSUME NEW j \in Jobs, StopAtLine(j)
       PROVE  WroteExactly(k)'
    BY <1>13 DEF StopAtLine, Go, NoBatch, workKeeps
  <1>14. ASSUME NEW j \in Jobs, OpenBatch(j)
       PROVE  WroteExactly(k)'
    BY <1>14 DEF OpenBatch, Go, Min2, workKeeps, dbVars
  <1>15. ASSUME NEW j \in Jobs, DropBatch(j)
       PROVE  WroteExactly(k)'
    BY <1>15 DEF DropBatch, Go, NoBatch, AfterBatch, workKeeps, dbVars
  <1>16. ASSUME NEW j \in Jobs, FlushBatch(j)
       PROVE  WroteExactly(k)'
    <2>1. CASE k # j
      BY <1>16, <2>1 DEF FlushBatch, Attempting, Go
    <2>2. CASE k = j
      <3>1. /\ state[j] \in {"open", "retry"} /\ batch[j] \in Nat /\ at[j] \in Nat /\ batch[j] <= at[j]
            /\ batch'[j] = 0 /\ UNCHANGED <<at, read, old, leftover>> /\ InsertBatch(j)
            /\ state'[j] # "close"
        BY <1>16 DEF FlushBatch, Attempting, NoBatch, Go, AfterBatch
      <3>2. ASSUME Fresh(j), NEW line \in Lines
            PROVE  new'[line] = IF line[1] = read[j].lang /\ line[2] <= at[j] THEN 1 ELSE 0
        BY <3>1, <3>2 DEF InsertBatch, Insert
      <3>3. QED
        BY <2>2, <3>1, <3>2
    <2>3. QED
      BY <2>1, <2>2
  <1>17. ASSUME NEW j \in Jobs, RetryBatch(j)
       PROVE  WroteExactly(k)'
    <2>1. CASE k # j
      BY <1>17, <2>1 DEF RetryBatch, Attempting, Go
    <2>2. CASE k = j
      <3>1. /\ state[j] \in {"open", "retry"} /\ UNCHANGED <<at, batch, read>>
            /\ state'[j] = "retry"
        BY <1>17 DEF RetryBatch, Attempting, Go
      <3>2. ~leftover'[j] => new' = new /\ leftover' = leftover
        BY <1>17 DEF RetryBatch, AbandonAttempt
      <3>3. QED
        BY <2>2, <3>1, <3>2
    <2>3. QED
      BY <2>1, <2>2
  <1>18. ASSUME NEW j \in Jobs, FailBatch(j)
       PROVE  WroteExactly(k)'
    BY <1>18 DEF FailBatch, AbandonAttempt, GiveUp, Attempting, workKeeps, Go, NoBatch
  <1>19. ASSUME NEW j \in Jobs, FailCommit(j)
       PROVE  WroteExactly(k)'
    BY <1>19 DEF FailCommit, GiveUp, Attempting, workKeeps, Go, NoBatch
  <1>20. ASSUME NEW j \in Jobs, NextPhase(j)
       PROVE  WroteExactly(k)'
    BY <1>20 DEF NextPhase, Go, workKeeps, dbVars, runVars
  <1>21. ASSUME NEW j \in Jobs, StopAtSlice(j)
       PROVE  WroteExactly(k)'
    BY <1>21 DEF StopAtSlice, Go, workKeeps, runVars
  <1>22. ASSUME NEW j \in Jobs, WriteSlice(j)
       PROVE  WroteExactly(k)'
    <2>1. CASE k # j
      BY <1>22, <2>1 DEF WriteSlice
    <2>2. CASE k = j
      <3>1. /\ state[j] = "extras" /\ ~Stopping(j) /\ at[j] < Total
            /\ UNCHANGED <<read, batch, old, leftover, state, flags>>
            /\ Insert(j, at[j] + 1, at[j] + Slice(j)) /\ at'[j] = at[j] + Slice(j)
        BY <1>22 DEF WriteSlice, workKeeps
      <3>2. at[j] \in Nat /\ batch[j] = 0
        BY <3>1 DEF Total
      <3>3. Slice(j) \in Nat
        BY <3>1, <3>2 DEF Slice, Min2, Total
      <3>4. ASSUME Fresh(j), NEW line \in Lines
            PROVE  new'[line] = IF line[1] = read[j].lang /\ line[2] <= at[j] + Slice(j) THEN 1 ELSE 0
        BY <3>1, <3>2, <3>3, <3>4 DEF Insert
      <3>5. QED
        BY <2>2, <3>1, <3>2, <3>3, <3>4
    <2>3. QED
      BY <2>1, <2>2
  <1>23. ASSUME NEW j \in Jobs, FailSlice(j)
       PROVE  WroteExactly(k)'
    BY <1>23 DEF FailSlice, GiveUp, Settle, Go, NoBatch
  <1>24. ASSUME NEW j \in Jobs, EndExtras(j)
       PROVE  WroteExactly(k)'
    BY <1>24 DEF EndExtras, Go, workKeeps, dbVars, runVars
  <1>25. ASSUME NEW j \in Jobs, Prune(j)
       PROVE  WroteExactly(k)'
    BY <1>25 DEF Prune, Go, pruneStaleImportData, workKeeps, runVars
  <1>26. ASSUME NEW j \in Jobs, FailFinalize(j)
       PROVE  WroteExactly(k)'
    BY <1>26 DEF FailFinalize, GiveUp, workKeeps, Go, NoBatch
  <1>27. ASSUME NEW j \in Jobs, CompleteRun(j)
       PROVE  WroteExactly(k)'
    BY <1>27 DEF CompleteRun, Go, workKeeps, runVars
  <1>28. ASSUME NEW j \in Jobs, EndRun(j)
       PROVE  WroteExactly(k)'
    BY <1>28 DEF EndRun, Settle, Go, NoBatch
  <1>29. ASSUME NEW j \in Jobs, MarkThrown(j)
       PROVE  WroteExactly(k)'
    BY <1>29 DEF MarkThrown, Settle, Go, NoBatch
  <1>30. ASSUME NEW j \in Jobs, StallFails(j)
       PROVE  WroteExactly(k)'
    BY <1>30 DEF StallFails, Settle, dbVars, Go, NoBatch
  <1>31. ASSUME NEW j \in Jobs, NEW what \in {"cancel", "pause"}, Deliver(j, what)
       PROVE  WroteExactly(k)'
    BY <1>31 DEF Deliver, dbVars, runVars
  <1>32. ASSUME Crash
       PROVE  WroteExactly(k)'
    BY <1>32 DEF Crash, runVars
  <1>33. ASSUME CloseSession
       PROVE  WroteExactly(k)'
    BY <1>33 DEF CloseSession, workKeeps, runVars
  <1>34. CASE UNCHANGED vars
    BY <1>34 DEF vars, dbVars, runVars
  <1>35. QED
    BY <1>1, <1>2, <1>3, <1>4, <1>5, <1>6, <1>7, <1>8, <1>9, <1>10, <1>11, <1>12, <1>13, <1>14,
       <1>15, <1>16, <1>17, <1>18, <1>19, <1>20, <1>21, <1>22, <1>23, <1>24, <1>25, <1>26, <1>27, <1>28,
       <1>29, <1>30, <1>31, <1>32, <1>33, <1>34
       DEF Next, Request, Work, Fault

---------------------------------------------------------------------------
(* The invariant and what follows from it *)

LEMMA IInvInit == Init => IInv
  <1> SUFFICES ASSUME Init PROVE IInv
    OBVIOUS
  <1> USE ImportAssumption DEF Init
  <1>1. TypeOK
    BY TypeInit
  <1>2. LockHeld /\ EditCounted
    BY DEF LockHeld, EditCounted, NoJob, Jobs, Writing
  <1>3. \A j \in Jobs : InStep(j)
    BY DEF InStep
  <1>4. OneLanguage /\ CompletionStored
    BY DEF OneLanguage, CompletionStored
  <1>5. CountsCommitted
    BY DEF CountsCommitted, Committed
  <1>6. \A j \in Jobs : PassedStored(j)
    BY DEF PassedStored, Whole
  <1>7. \A j \in Jobs : WroteExactly(j)
    BY DEF WroteExactly, Fresh, Writing
  <1>8. QED
    BY <1>1, <1>2, <1>3, <1>4, <1>5, <1>6, <1>7 DEF IInv, LinesKept

LEMMA IInvStep == IInv /\ [Next]_vars => IInv'
  <1> SUFFICES ASSUME IInv, [Next]_vars PROVE IInv'
    OBVIOUS
  <1>1. TypeOK /\ LockHeld /\ EditCounted /\ \A j \in Jobs : InStep(j) /\ WroteExactly(j)
    BY DEF IInv
  <1>2. TypeOK'
    BY <1>1, TypeStep
  <1>3. LockHeld' /\ EditCounted'
    BY <1>1, LockStep, EditStep
  <1>4. \A j \in Jobs : InStep(j)'
    BY <1>1, PlaceStep
  <1>5. \A j \in Jobs : WroteExactly(j)'
    BY <1>1, ExactStep
  <1>6. LinesKept'
    <2> SUFFICES ASSUME slips' = {}
                 PROVE  OneLanguage' /\ CountsCommitted' /\ CompletionStored'
                        /\ \A j \in Jobs : PassedStored(j)'
      BY DEF LinesKept
    <2>1. QED
      BY LanguageStays, CountsStay, CompletionStays, PassedStays
  <1>7. QED
    BY <1>2, <1>3, <1>4, <1>5, <1>6 DEF IInv

LEMMA IInvAlways == Spec => []IInv
  BY IInvInit, IInvStep, PTL DEF Spec

(* The count a resume starts from is committed, for mods, batches, retries,    *)
(* clients and runs of every size: the flush, the stops, the cancel route, the *)
(* retries, the crashes and the prune of other runs keep it so, unless a count *)
(* survives its failed COMMIT or the language is changed.                      *)
THEOREM ResumePointCommitted == Spec => []CheckpointCommitted
  <1>1. IInv => CheckpointCommitted
    BY DEF IInv, LinesKept, OneLanguage, CountsCommitted, Committed, CheckpointCommitted
  <1>2. QED
    BY <1>1, IInvAlways, PTL

(* A row that says completed has its whole mod in `strings`: plugin lines that *)
(* were skipped are there from earlier runs, and no later prune takes them.    *)
THEOREM CompletedImportsWhole == Spec => []CompletedHasAll
  <1>1. IInv => CompletedHasAll
    BY DEF IInv, LinesKept, OneLanguage, CompletionStored, AllStored, CompletedHasAll
  <1>2. QED
    BY <1>1, IInvAlways, PTL

(* A run from the start that completes leaves each line once, and nothing of   *)
(* earlier runs: not their duplicates, their other languages or what they had  *)
(* not rolled back.                                                            *)
THEOREM FreshRunsExact == Spec => FreshRunExact
  <1>1. ASSUME IInv, NEW j \in Jobs, CompleteRun(j), read[j].imported = 0, ~leftover[j],
               NEW line \in Lines
        PROVE  old[line] + new[line] = (IF line[1] = read[j].lang THEN 1 ELSE 0)
    <2>1. state[j] = "close" /\ batch[j] = 0 /\ WroteExactly(j)
      BY <1>1 DEF CompleteRun, IInv, InStep
    <2>2. Fresh(j)
      BY <1>1, <2>1 DEF Fresh, Writing, pruneStaleImportData
    <2>3. at[j] = Total /\ old[line] = 0
      BY <2>1, <2>2 DEF WroteExactly
    <2>4. Own(j, line) <=> line[1] = read[j].lang
      BY <2>1, <2>3, ImportAssumption DEF Own, Lines, Total
    <2>5. new[line] = (IF Own(j, line) THEN 1 ELSE 0)
      BY <2>1, <2>2 DEF WroteExactly
    <2>6. QED
      BY <2>3, <2>4, <2>5
  <1>2. IInv =>
          [\A j \in Jobs :
             (CompleteRun(j) /\ read[j].imported = 0 /\ ~leftover[j])
               => \A line \in Lines :
                    old[line] + new[line] = (IF line[1] = read[j].lang THEN 1 ELSE 0)]_vars
    BY <1>1
  <1>3. QED
    BY <1>2, IInvAlways, PTL DEF FreshRunExact
=============================================================================
