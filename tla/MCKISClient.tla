----------------------------- MODULE MCKISClient -----------------------------
(* One command whose two goroutines make calls of two attempts.  Three       *)
(* tokens let the command ensure one and both goroutines refresh it.  A      *)
(* command that dies or ends is followed by the next one, which finds the    *)
(* token file as it was left.                                                *)
EXTENDS KISClient

CONSTANTS p1, c1, c2

MCLength == [t \in Tokens |-> IF t = 2 THEN 2 ELSE 1]

MCCommandOf == [g \in Threads |-> p1]

\* What a step or a property can still read: a call that has ended begins anew, the
\* token a request carries is compared with the answer only, and what was granted is
\* forgotten once it is saved.  States that agree in this are counted as one.
Live ==
    <<issued, expired, token, pc, old, mixed, tmp, target, fd, save, broken, overlap,
      [c \in Calls |->
          IF pc[c] \in Ended THEN <<>> ELSE <<attempt[c], refreshed[c], sends[c]>>],
      [c \in Calls |-> IF pc[c] = "sent" THEN bearer[c] ELSE 0],
      [g \in Threads |-> IF pc[g] \in {"granted", "saving"} THEN got[g] ELSE 0],
      [g \in Threads |-> IF save[g] \in File!Busy THEN value[g] ELSE Nobody]>>

=============================================================================
