----------------------------- MODULE BufferLease -----------------------------
(***************************************************************************)
(* What the frame pipeline promises WebKit's buffer producer, with every   *)
(* mechanism left out.  A buffer is lent to the consumer and comes back    *)
(* later; while it is lent the producer does not write to it.  The         *)
(* consumer may start to read only a buffer it holds, and gives no buffer  *)
(* back that it is reading.                                                *)
(***************************************************************************)
CONSTANT Image

VARIABLES
    lent,    \* the buffers the consumer holds
    reading  \* the buffers a frame in flight samples

leaseVars == <<lent, reading>>

LeaseInit == lent = {} /\ reading = {}

(* A buffer arrives; others, none of them being read, go back with the same
   step. *)
Lend(img, back) ==
    /\ img \notin lent
    /\ back \subseteq (lent \union {img}) \ reading
    /\ lent' = (lent \union {img}) \ back
    /\ UNCHANGED reading

GiveBack(back) ==
    /\ back \subseteq lent \ reading
    /\ lent' = lent \ back
    /\ UNCHANGED reading

StartReading(imgs) ==
    /\ reading = {}
    /\ imgs \subseteq lent
    /\ reading' = imgs
    /\ UNCHANGED lent

StopReading ==
    /\ reading' = {}
    /\ UNCHANGED lent

(* The consumer goes away with everything it holds; nobody writes to the
   buffers afterwards, so a read under way may finish. *)
Close ==
    /\ lent' = {}
    /\ reading' = {}

LeaseNext ==
    \/ \E img \in Image, back \in SUBSET Image : Lend(img, back)
    \/ \E back \in SUBSET Image : GiveBack(back)
    \/ \E imgs \in SUBSET Image : StartReading(imgs)
    \/ StopReading
    \/ Close

LeaseSpec == LeaseInit /\ [][LeaseNext]_leaseVars
=============================================================================
