--------------------------- MODULE MCJobRuntime ---------------------------
(* Instances of JobRuntime for TLC: queues as the code assigns them, GPU    *)
(* queues serial, or two LLM slots as JOB_CONCURRENCY_LLM=2 gives.          *)
EXTENDS JobRuntime, TLC

MCQueueOf == [k \in {"llm-translate", "voice-generate", "tm-apply"} |->
                CASE k = "llm-translate"  -> "llm"
                  [] k = "voice-generate" -> "tts"
                  [] OTHER                -> "cpu"]

MCConcurrency == [llm |-> 1, tts |-> 1, cpu |-> 2]
MCTwoLlmSlots == [llm |-> 2, tts |-> 1, cpu |-> 2]

MCSymmetry == Permutations(Clients)
===========================================================================
