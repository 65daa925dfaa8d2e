--------------------------- MODULE MCServicePool ---------------------------
(* The chat pool is rebuilt with the same host, the tools pool loses and    *)
(* regains its only host, the tts pool balances two hosts.                  *)
EXTENDS ServicePool

MCSettings == [llm   |-> {[a |-> 1, b |-> 0]},
               tools |-> {[a |-> 1, b |-> 0], [a |-> 0, b |-> 0]},
               tts   |-> {[a |-> 1, b |-> 2]}]
============================================================================
