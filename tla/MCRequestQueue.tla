--------------------------- MODULE MCRequestQueue ---------------------------
(* Small instances of RequestQueue.  The cfg files keep the proportions of *)
(* the firmware: REQUEST_TIMEOUT is twice CONFIRMATION_TIMEOUT, a pass of  *)
(* loop() is shorter than either, and the clock wraps soon after.          *)
EXTENDS RequestQueue
=============================================================================
