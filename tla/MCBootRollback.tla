--------------------------- MODULE MCBootRollback ---------------------------
EXTENDS BootRollback

MCImages ==
    { ErasedImage,
      [hdr |-> "none",       run |-> "rejected", ver |-> 0],
      [hdr |-> "none",       run |-> "crash",    ver |-> 0],
      [hdr |-> "signed",     run |-> "hang",     ver |-> 1],
      [hdr |-> "signed",     run |-> "good",     ver |-> 2],
      [hdr |-> "forged",     run |-> "good",     ver |-> 3],
      [hdr |-> "unbootable", run |-> "good",     ver |-> 3] }

(* Fewer kinds of image where faults of the flash multiply the states.     *)
FewImages ==
    { ErasedImage,
      [hdr |-> "none",   run |-> "crash", ver |-> 0],
      [hdr |-> "forged", run |-> "good",  ver |-> 1] }
=============================================================================
