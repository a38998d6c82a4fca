------------------------------ MODULE MCBoot ------------------------------
(* Three pulses of the timer: one is latched while masked, others come     *)
(* between any two steps.  Bytes have four values; the addresses differ in *)
(* all their bytes, so that a piece in the wrong place leads elsewhere.    *)
EXTENDS Boot, TLC
MCaddress == "page_fault_handler2" :> 201 @@ "keyboard_handler" :> 114 @@
             "clock_handler" :> 45 @@ "system_call_handler" :> 92 @@ "tss" :> 156
===========================================================================
