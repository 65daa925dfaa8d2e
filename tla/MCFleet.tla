------------------------------ MODULE MCFleet ------------------------------
(* Two services that share one card and do not fit on it together: gemma   *)
(* for llm, with the higher priority, and fish, an engine and a gateway,   *)
(* for tts.                                                                 *)
EXTENDS FleetController

MCServiceOrder == <<"gemma", "fish">>
MCKindOrder    == <<"llm", "tts">>
MCKindsOf      == [gemma |-> <<"llm">>, fish |-> <<"tts">>]
MCGpuOf        == [gemma |-> "gpu0", fish |-> "gpu0"]
MCVram         == [gemma |-> 3, fish |-> 2]
MCCapacity     == [gpu0 |-> 3]
MCComposite    == {"fish"}
MCPriority     == [gemma |-> 10, fish |-> 5]
MCIdleUnload   == [gemma |-> 1, fish |-> 0]
============================================================================
