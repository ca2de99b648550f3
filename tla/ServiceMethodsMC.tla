--------------------------- MODULE ServiceMethodsMC ---------------------------
(* main.cpp's two managers with a module of each; the DAC made twice, so    *)
(* that its second methods stand behind what the first left.                *)
EXTENDS ServiceMethods, TLC

CONSTANTS mic, speaker

MainCpp == <<"adc", "dac">>
Times   == (mic :> 1) @@ (speaker :> 2)
=============================================================================
