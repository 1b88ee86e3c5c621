-------------------------- MODULE MCFlashSequence --------------------------
(***************************************************************************)
(* FlashSequence for TLC: images of one to five bytes, in blocks of one to *)
(* three, with a counter that wraps at two.                                *)
(***************************************************************************)
EXTENDS FlashSequence

Job(size, erase, check) == [size |-> size, erase |-> erase, check |-> check]

MCJobs   == {Job(1, TRUE, FALSE), Job(5, FALSE, TRUE)}
MCOffers == {2, 3, 4, 6}

MCRaw == {[sid |-> "session", session |-> "default"],
          [sid |-> "session", session |-> "extended"],
          [sid |-> "transfer", session |-> "none"]}

=============================================================================
