----------------------------- MODULE TcpStream -----------------------------
(***************************************************************************)
(* What a TCP connection promises to the two programs that use it: in each *)
(* direction the bytes accepted for transmission arrive once, in order and *)
(* without a gap, and the end of the stream is reported only after the     *)
(* last byte.  A connection may be lost; it then simply delivers no more.  *)
(***************************************************************************)
EXTENDS Naturals, Sequences

CONSTANT Ends          \* the two ends of the connection

VARIABLES written,     \* [Ends -> Nat]: bytes accepted; byte number i is the i-th one
          closed,      \* the ends whose program has closed its direction
          delivered,   \* [Ends -> Seq(Nat)]: what the program at that end has got
          eof          \* the ends that were told that the other one has closed

Other(e) == CHOOSE f \in Ends : f # e

Init ==
    /\ written = [e \in Ends |-> 0]
    /\ closed = {}
    /\ delivered = [e \in Ends |-> <<>>]
    /\ eof = {}

\* The program at e writes n bytes.
Write(e, n) ==
    /\ e \notin closed
    /\ written' = [written EXCEPT ![e] = @ + n]
    /\ UNCHANGED <<closed, delivered, eof>>

Close(e) ==
    /\ closed' = closed \cup {e}
    /\ UNCHANGED <<written, delivered, eof>>

\* The program at e gets the next n bytes, the end of the stream, or both, and may
\* close its own direction because of that.
Arrive(e, n, end, closes) ==
    LET have == Len(delivered[e])
    IN  /\ e \notin eof
        /\ have + n <= written[Other(e)]
        /\ delivered' = [delivered EXCEPT ![e] = @ \o [i \in 1..n |-> have + i]]
        /\ \/ ~end /\ UNCHANGED <<closed, eof>>
           \/ /\ end /\ Other(e) \in closed /\ have + n = written[Other(e)]
              /\ eof' = eof \cup {e}
              /\ closed' = IF closes THEN closed \cup {e} ELSE closed
        /\ UNCHANGED written

Next ==
    \/ \E e \in Ends :
          \/ Close(e)
          \/ \E n \in 1 .. (written'[e] - written[e]) : Write(e, n)
          \/ \E n \in 0 .. (Len(delivered'[e]) - Len(delivered[e])), end, closes \in BOOLEAN :
                Arrive(e, n, end, closes)

Spec == Init /\ [][Next]_<<written, closed, delivered, eof>>
=============================================================================
