----------------------------- MODULE ByteStream -----------------------------
(***************************************************************************)
(* What a body transfer promises, whatever frames carry it: the receiver    *)
(* sees the source's bytes in order, without loss or repetition, and is     *)
(* told "the body ended" only when the source closed and every byte of it   *)
(* arrived.  Byte i of the source is the number i.  Modules that model a    *)
(* transfer of abs_mptp/src/messaging are shown to implement this one.      *)
(***************************************************************************)
EXTENDS Naturals, Sequences

CONSTANT MaxBytes   \* bound on the bytes a source makes

VARIABLES
  made,        \* bytes the source has made so far
  src,         \* "open", "closed" (clean end) or "failed"
  delivered,   \* the bytes the receiver has taken, in order
  outcome      \* "reading", "ended" (told the body is complete) or "stopped"

streamVars == <<made, src, delivered, outcome>>

Init ==
  /\ made = 0
  /\ src = "open"
  /\ delivered = << >>
  /\ outcome = "reading"

Make ==
  /\ src = "open"
  /\ made' \in made + 1 .. MaxBytes
  /\ UNCHANGED <<src, delivered, outcome>>

Finish ==
  /\ src = "open"
  /\ src' \in {"closed", "failed"}
  /\ UNCHANGED <<made, delivered, outcome>>

(* The next m bytes of the source, m of any size that has been made.        *)
Deliver ==
  /\ outcome = "reading"
  /\ \E m \in 1 .. made - Len(delivered) :
       delivered' = delivered \o [j \in 1 .. m |-> Len(delivered) + j]
  /\ UNCHANGED <<made, src, outcome>>

End ==
  /\ outcome = "reading"
  /\ src = "closed"
  /\ Len(delivered) = made
  /\ outcome' = "ended"
  /\ UNCHANGED <<made, src, delivered>>

Stop ==
  /\ outcome = "reading"
  /\ outcome' = "stopped"
  /\ UNCHANGED <<made, src, delivered>>

Next == Make \/ Finish \/ Deliver \/ End \/ Stop

Spec == Init /\ [][Next]_streamVars
=============================================================================
