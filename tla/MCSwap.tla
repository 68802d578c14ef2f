------------------------------- MODULE MCSwap -------------------------------
(* Small instances for model checking the swap manager.                     *)
EXTENDS SwapManager

AllKinds == {"submarine", "reverse", "arkToBtc", "btcToArk"}
=============================================================================
