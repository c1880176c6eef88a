------------------------------- MODULE MCUsbTx ------------------------------
(* UsbTx for TLC.  The pool is small enough to be exhausted and large enough *)
(* for the two water marks to be apart.                                     *)
EXTENDS UsbTx

None == {}
SubmitAndSuspend == {"submit", "suspend"}
=============================================================================
