------------------------------ MODULE JobRing ------------------------------
(***************************************************************************)
(* The bounded output ring of a background job (jobs-local/src/ring.ts): a *)
(* sequence of contiguous chunks at absolute byte offsets that ends at     *)
(* total.  Texts are abstracted to their lengths, channels and gap markers *)
(* are left out, and characters are one byte wide, so the tail that an     *)
(* oversized chunk keeps is exactly the cap.  The code keeps the retained  *)
(* length in a counter; here it is total minus the earliest offset.        *)
(***************************************************************************)
EXTENDS Integers, Sequences

Rings == [chunks : Seq([at : Nat, bytes : Nat]), total : Nat]

EmptyRing == [chunks |-> << >>, total |-> 0]

Earliest(r) == IF r.chunks = << >> THEN r.total ELSE Head(r.chunks).at

Retained(r) == r.total - Earliest(r)

\* Whole chunks leave from the head until the rest fits or one is left; a
\* single chunk over the cap keeps its tail.
Trim(r, cap) ==
    IF Retained(r) <= cap THEN r
    ELSE LET n == Len(r.chunks)
             Fits(k) == r.total - r.chunks[k].at <= cap
             first == CHOOSE k \in 1..n : /\ Fits(k) \/ k = n
                                          /\ \A i \in 1..(k - 1) : ~Fits(i)
         IN  [chunks |-> IF Fits(first) THEN SubSeq(r.chunks, first, n)
                         ELSE << [at |-> r.total - cap, bytes |-> cap] >>,
              total |-> r.total]

\* An empty chunk changes nothing.
Put(r, bytes, cap) ==
    IF bytes = 0 THEN r
    ELSE Trim([chunks |-> Append(r.chunks, [at |-> r.total, bytes |-> bytes]),
               total |-> r.total + bytes], cap)
=============================================================================
