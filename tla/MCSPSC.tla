------------------------------- MODULE MCSPSC -------------------------------
(****************************************************************************)
(* The ring, its two callers and their fairness, up to the first wrap that  *)
(* enqueue accepts while write_ix < read_ix.  What such a wrap does to the  *)
(* unread messages is shown by the run spsc_overrun; a behaviour that gets  *)
(* there is followed no further, and says nothing about progress.           *)
(****************************************************************************)
EXTENDS SPSCQueueProofs

UntilOverrun ==
  \/ overruns = 0 /\ Next
  \/ overruns # 0 /\ UNCHANGED vars

FairUntilOverrun == Init /\ [][UntilOverrun]_vars /\ Fairness
=============================================================================
